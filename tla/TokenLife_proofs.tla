--------------------------- MODULE TokenLife_proofs ----------------------------
(***************************************************************************)
(* Proofs about TokenLife, for any numbers of processes, users, calls and  *)
(* requests, any clocks and any durations that LifeAssumption allows.      *)
(***************************************************************************)
EXTENDS TokenLife, TLAPS

Made(i, k) == call[i] # None /\ k \in call[i].makes

\* What the claims of a token say is what the maker's clock read at the true times
\* begun and signed; the tokens of a finished call are all signed.
TokenTrue(i, k) ==
    Made(i, k) =>
        /\ token[i][k].life <= MaxAge
        /\ token[i][k].stage # "asked" =>
              /\ token[i][k].begun <= time
              /\ token[i][k].iat = token[i][k].begun + Offset[call[i].by]
        /\ token[i][k].stage = "signed" =>
              /\ token[i][k].begun <= token[i][k].signed /\ token[i][k].signed <= time
              /\ token[i][k].exp = token[i][k].signed + Offset[call[i].by] + token[i][k].life
        /\ call[i].phase = "done" => token[i][k].stage = "signed"
        /\ k = "admin" => call[i].makes = {"admin"}

\* What a request under verification has passed, and what a refused one failed.
Passed(v, t, now) ==
    /\ v.phase # "refused" =>
          /\ KeyOf(v.kind) = KeyOf(v.via)
          /\ Required(v.via) \subseteq Claims(v.kind)
          /\ v.checked + Offset[v.by] < t.exp
    /\ v.phase = "held" => v.via = "refresh"
    /\ v.phase = "user" => v.via \in {"session", "refresh"}
    /\ v.phase \in {"user", "accepted"} /\ v.via = "refresh" => v.kind = "refresh"
    /\ v.phase = "accepted" =>
          /\ v.decided + Offset[v.by] - t.exp < Tolerance \/ v.decided = v.checked
          /\ v.via # "reset" => v.decided + Offset[v.by] - t.iat <= MaxAge
    /\ "expired" \in v.why => t.exp <= v.decided + Offset[v.by]
    /\ "future" \in v.why => v.decided + Offset[v.by] + Tolerance < t.iat
    /\ "age" \in v.why => v.decided + Offset[v.by] - t.iat > MaxAge
    /\ t.begun <= v.checked /\ v.checked <= v.decided /\ v.decided <= now

CheckTrue(c) ==
    check[c] # None =>
        /\ Made(check[c].issue, check[c].kind)
        /\ call[check[c].issue].phase = "done"
        /\ Passed(check[c], Shown(c), time)

IInv ==
    /\ TypeOK
    /\ \A i \in Issue, k \in Kinds : TokenTrue(i, k)
    /\ \A c \in Check : CheckTrue(c)

-----------------------------------------------------------------------------
LEMMA Constants ==
    /\ \A p \in Process : Offset[p] \in Int
    /\ Tolerance \in Nat /\ AccessLife \in Nat /\ RefreshLife \in Nat /\ ResetLife \in Nat
    /\ MaxAge \in Nat /\ MaxTime \in Nat
    /\ AccessLife <= MaxAge /\ RefreshLife <= MaxAge /\ ResetLife <= MaxAge
  BY OffsetAssumption, LifeAssumption

LEMMA BlankOK == ASSUME NEW life \in Int PROVE Blank(life) \in Token
  BY DEF Blank, Token

LEMMA InitInv == Init => IInv
<1> SUFFICES ASSUME Init PROVE IInv
  OBVIOUS
<1>1. TypeOK
  BY BlankOK, Constants DEF Init, TypeOK
<1> QED BY <1>1 DEF Init, IInv, TokenTrue, Made, CheckTrue

\* The true clock does not run backwards.
LEMMA ClockStep == TypeOK /\ [Next]_vars => time' \in 0..MaxTime /\ time <= time'
<1> SUFFICES ASSUME TypeOK, [Next]_vars PROVE time' \in 0..MaxTime /\ time <= time'
  OBVIOUS
<1>1. CASE Tick
  BY <1>1, Constants DEF Tick, TypeOK
<1>2. CASE time' = time
  BY <1>2, Constants DEF TypeOK
<1>3. CASE UNCHANGED vars
  BY <1>2, <1>3 DEF vars
<1>4. ASSUME NEW i \in Issue, NEW p \in Process, NEW u \in User,
             \/ StartPair(i, p, u)
             \/ \E life \in Durations : StartAdmin(i, p, u, life)
             \/ CreateReset(i, p, u)
      PROVE  time' = time
  BY <1>4 DEF StartPair, StartAdmin, CreateReset
<1>5. ASSUME NEW i \in Issue,
             \/ \E k \in Kinds : ReadIat(i, k) \/ Sign(i, k)
             \/ IssueFails(i) \/ StoreRefresh(i)
      PROVE  time' = time
  BY <1>5 DEF ReadIat, Sign, IssueFails, StoreRefresh
<1>6. ASSUME NEW c \in Check,
             \/ \E p \in Process, via \in Vias, i \in Issue, k \in Kinds : Present(c, p, via, i, k)
             \/ validateRefreshToken(c) \/ LookUpUser(c)
      PROVE  time' = time
  BY <1>6 DEF Present, validateRefreshToken, LookUpUser
<1>7. ASSUME NEW u \in User, RemoveUser(u) PROVE time' = time
  BY <1>7 DEF RemoveUser
<1> QED BY <1>1, <1>2, <1>3, <1>4, <1>5, <1>6, <1>7 DEF Next

\* The values the actions write.
LEMMA OpenOK ==
    ASSUME TypeOK, NEW i \in Issue, NEW p \in Process, NEW u \in User, NEW kinds \in SUBSET Kinds,
           NEW phase \in {"open", "done", "failed"},
           call' = [call EXCEPT ![i] = [makes |-> kinds, by |-> p, sub |-> u, phase |-> phase]]
    PROVE  call' \in [Issue -> Call \union {None}]
  BY DEF TypeOK, Call

LEMMA CallStep ==
    ASSUME TypeOK, NEW i \in Issue, call[i] # None, NEW phase \in {"open", "done", "failed"}
    PROVE  /\ call[i] \in Call
           /\ [call EXCEPT ![i].phase = phase] \in [Issue -> Call \union {None}]
  BY DEF TypeOK, Call

LEMMA ReadOK ==
    ASSUME TypeOK, NEW i \in Issue, NEW k \in Kinds, ReadIat(i, k)
    PROVE  /\ token' = [token EXCEPT ![i][k] = token'[i][k]]
           /\ token'[i][k] \in Token
           /\ token'[i][k].stage = "reading" /\ token'[i][k].life = token[i][k].life
           /\ token'[i][k].begun = time /\ token'[i][k].iat = time + Offset[call[i].by]
<1>1. call[i] \in Call /\ call[i].by \in Process /\ token[i][k] \in Token /\ time \in Nat
  BY Constants DEF ReadIat, Busy, TypeOK, Call
<1>2. Clock(call[i].by) \in Int
  BY <1>1, Constants DEF Clock
<1> DEFINE t == [token[i][k] EXCEPT !.stage = "reading", !.iat = Clock(call[i].by), !.begun = time]
<1>3. /\ t \in Token /\ t.stage = "reading" /\ t.life = token[i][k].life
      /\ t.begun = time /\ t.iat = Clock(call[i].by)
  BY <1>1, <1>2 DEF Token
<1>4. token' = [token EXCEPT ![i][k] = t]
  BY DEF ReadIat
<1> HIDE DEF t
<1>5. token'[i][k] = t
  BY <1>4 DEF TypeOK
<1> QED BY <1>3, <1>4, <1>5 DEF Clock

LEMMA SignOK ==
    ASSUME TypeOK, NEW i \in Issue, NEW k \in Kinds, Sign(i, k)
    PROVE  /\ token' = [token EXCEPT ![i][k] = token'[i][k]]
           /\ token'[i][k] \in Token
           /\ token'[i][k].stage = "signed" /\ token'[i][k].life = token[i][k].life
           /\ token'[i][k].begun = token[i][k].begun /\ token'[i][k].iat = token[i][k].iat
           /\ token'[i][k].signed = time
           /\ token'[i][k].exp = time + Offset[call[i].by] + token[i][k].life
<1>1. call[i] \in Call /\ call[i].by \in Process /\ token[i][k] \in Token /\ time \in Nat
  BY Constants DEF Sign, Busy, TypeOK, Call
<1>2. Clock(call[i].by) \in Int /\ token[i][k].life \in Int
  BY <1>1, Constants DEF Clock, Token
<1> DEFINE e == Clock(call[i].by) + token[i][k].life
<1>7. e \in Int
  BY <1>2
<1>5. e = time + Offset[call[i].by] + token[i][k].life
  BY <1>1, <1>2, Constants DEF Clock
<1>8. token' = [token EXCEPT ![i][k] =
                   [token[i][k] EXCEPT !.stage = "signed", !.signed = time, !.exp = e]]
  BY DEF Sign, calculateExpirationTime
<1> HIDE DEF e
<1> DEFINE t == [token[i][k] EXCEPT !.stage = "signed", !.signed = time, !.exp = e]
<1>3. /\ t \in Token /\ t.stage = "signed" /\ t.life = token[i][k].life
      /\ t.begun = token[i][k].begun /\ t.iat = token[i][k].iat
      /\ t.signed = time /\ t.exp = e
  BY <1>1, <1>2, <1>7 DEF Token
<1>4. token' = [token EXCEPT ![i][k] = t]
  BY <1>8
<1> HIDE DEF t
<1>6. token'[i][k] = t
  BY <1>4 DEF TypeOK
<1> QED BY <1>3, <1>4, <1>5, <1>6

LEMMA DecideOK ==
    ASSUME TypeOK, NEW c \in Check, check[c] # None, NEW phase \in {"user", "accepted", "refused"},
           NEW why \in SUBSET (TimeFaults \union {"key", "claims", "superseded", "user"}),
           Decide(c, phase, why)
    PROVE  /\ check' = [check EXCEPT ![c] = check'[c]]
           /\ check'[c] \in Verification
           /\ check'[c].phase = phase /\ check'[c].why = why /\ check'[c].decided = time
           /\ check'[c].checked = check[c].checked /\ check'[c].via = check[c].via
           /\ check'[c].by = check[c].by /\ check'[c].issue = check[c].issue
           /\ check'[c].kind = check[c].kind
<1>1. check[c] \in Verification /\ time \in Nat
  BY Constants DEF TypeOK
<1> DEFINE v == [check[c] EXCEPT !.phase = phase, !.why = why, !.decided = time]
<1>2. /\ v \in Verification /\ v.phase = phase /\ v.why = why /\ v.decided = time
      /\ v.checked = check[c].checked /\ v.via = check[c].via /\ v.by = check[c].by
      /\ v.issue = check[c].issue /\ v.kind = check[c].kind
  BY <1>1 DEF Verification
<1>3. check' = [check EXCEPT ![c] = v]
  BY DEF Decide
<1> HIDE DEF v
<1>4. check'[c] = v
  BY <1>3 DEF TypeOK
<1> QED BY <1>2, <1>3, <1>4

LEMMA PresentOK ==
    ASSUME TypeOK, NEW c \in Check, NEW p \in Process, NEW via \in Vias, NEW i \in Issue,
           NEW k \in Kinds, Present(c, p, via, i, k)
    PROVE  /\ check' = [check EXCEPT ![c] = check'[c]]
           /\ check'[c] \in Verification
           /\ check'[c].why # {} => check'[c].phase = "refused"
           /\ check'[c].why = {} => check'[c].phase = Following[via]
           /\ check'[c].why = FirstFaults(token[i][k], k, via, Clock(p))
           /\ check'[c].by = p /\ check'[c].via = via /\ check'[c].issue = i /\ check'[c].kind = k
           /\ check'[c].checked = time /\ check'[c].decided = time
<1> DEFINE faults == FirstFaults(token[i][k], k, via, Clock(p))
           phase == IF faults # {} THEN "refused" ELSE Following[via]
           v == [phase |-> phase, why |-> faults, by |-> p, via |-> via, issue |-> i, kind |-> k,
                 checked |-> time, decided |-> time]
<1>1. faults \in SUBSET (TimeFaults \union {"key", "claims", "superseded", "user"})
  BY DEF FirstFaults, jwtFaults, SchemaFaults, adminClaimFaults, claimFaults, TimeFaults
<1>2. phase \in {"held", "user", "accepted", "refused"}
  BY DEF Following, Vias
<1>3. check' = [check EXCEPT ![c] = v]
  BY DEF Present
<1>7. /\ faults # {} => phase = "refused"
      /\ faults = {} => phase = Following[via]
  <2> HIDE DEF faults
  <2> QED OBVIOUS
<1> HIDE DEF faults, phase
<1>4. /\ v \in Verification /\ v.phase = phase /\ v.why = faults /\ v.by = p
      /\ v.via = via /\ v.issue = i /\ v.kind = k /\ v.checked = time /\ v.decided = time
  BY <1>1, <1>2, Constants DEF Verification, TypeOK
<1> HIDE DEF v
<1>5. check'[c] = v
  BY <1>3 DEF TypeOK
<1>6. /\ check' = [check EXCEPT ![c] = check'[c]] /\ check'[c] \in Verification
      /\ check'[c].phase = phase /\ check'[c].why = faults /\ check'[c].by = p
      /\ check'[c].via = via /\ check'[c].issue = i /\ check'[c].kind = k
      /\ check'[c].checked = time /\ check'[c].decided = time
  BY <1>3, <1>4, <1>5
<1>8. check'[c].why = FirstFaults(token[i][k], k, via, Clock(p))
  BY <1>6 DEF faults
<1>9. /\ check'[c].why # {} => check'[c].phase = "refused"
      /\ check'[c].why = {} => check'[c].phase = Following[via]
  BY <1>6, <1>7
<1> QED BY <1>6, <1>8, <1>9

LEMMA TypeStep == TypeOK /\ [Next]_vars => TypeOK'
<1> SUFFICES ASSUME TypeOK, [Next]_vars PROVE TypeOK'
  OBVIOUS
<1>0. time' \in 0..MaxTime
  BY ClockStep
<1>1. ASSUME NEW i \in Issue, NEW p \in Process, NEW u \in User, StartPair(i, p, u) PROVE TypeOK'
  <2>1. call' \in [Issue -> Call \union {None}]
    BY <1>1, OpenOK DEF StartPair, Open, Pair, Kinds
  <2>2. Blank(AccessLife) \in Token /\ Blank(RefreshLife) \in Token
    BY BlankOK, Constants
  <2>3. token' \in [Issue -> [Kinds -> Token]]
    BY <1>1, <2>2 DEF StartPair, TypeOK
  <2> QED BY <1>0, <1>1, <2>1, <2>3 DEF StartPair, TypeOK
<1>2. ASSUME NEW i \in Issue, NEW p \in Process, NEW u \in User, NEW life \in Durations,
             StartAdmin(i, p, u, life)
      PROVE  TypeOK'
  <2>1. call' \in [Issue -> Call \union {None}]
    BY <1>2, OpenOK DEF StartAdmin, Open, Kinds
  <2>2. Blank(life) \in Token
    BY BlankOK, Constants DEF Durations
  <2>3. token' \in [Issue -> [Kinds -> Token]]
    BY <1>2, <2>2 DEF StartAdmin, TypeOK
  <2> QED BY <1>0, <1>2, <2>1, <2>3 DEF StartAdmin, TypeOK
<1>3. ASSUME NEW i \in Issue, NEW p \in Process, NEW u \in User, CreateReset(i, p, u) PROVE TypeOK'
  <2>1. call' \in [Issue -> Call \union {None}]
    BY <1>3, OpenOK DEF CreateReset, Kinds
  <2>2. Clock(p) \in Int /\ Clock(p) + ResetLife \in Int /\ time \in Nat
    BY Constants DEF Clock, TypeOK
  <2>3. [stage |-> "signed", life |-> ResetLife, iat |-> Clock(p), exp |-> Clock(p) + ResetLife,
         begun |-> time, signed |-> time] \in Token
    BY <2>2, Constants DEF Token
  <2>4. token' \in [Issue -> [Kinds -> Token]]
    BY <1>3, <2>3 DEF CreateReset, TypeOK
  <2> QED BY <1>0, <1>3, <2>1, <2>4 DEF CreateReset, TypeOK
<1>4. ASSUME NEW i \in Issue, NEW k \in Kinds, ReadIat(i, k) PROVE TypeOK'
  <2>1. PICK t \in Token : token' = [token EXCEPT ![i][k] = t]
    BY <1>4, ReadOK
  <2>2. token' \in [Issue -> [Kinds -> Token]]
    BY <2>1 DEF TypeOK
  <2> QED BY <1>0, <1>4, <2>2 DEF ReadIat, TypeOK
<1>5. ASSUME NEW i \in Issue, NEW k \in Kinds, Sign(i, k) PROVE TypeOK'
  <2>3. PICK t \in Token : token' = [token EXCEPT ![i][k] = t]
    BY <1>5, SignOK
  <2>1. token' \in [Issue -> [Kinds -> Token]]
    BY <2>3 DEF TypeOK
  <2>2. call' \in [Issue -> Call \union {None}]
    BY <1>5, CallStep DEF Sign, Busy, TypeOK
  <2> QED BY <1>0, <1>5, <2>1, <2>2 DEF Sign, TypeOK
<1>6. ASSUME NEW i \in Issue, IssueFails(i) PROVE TypeOK'
  <2>1. call' \in [Issue -> Call \union {None}]
    BY <1>6, CallStep DEF IssueFails
  <2> QED BY <1>0, <1>6, <2>1 DEF IssueFails, TypeOK
<1>7. ASSUME NEW i \in Issue, StoreRefresh(i) PROVE TypeOK'
  <2>1. call' \in [Issue -> Call \union {None}]
    BY <1>7, CallStep DEF StoreRefresh
  <2>2. held' \in [User -> (Issue \X {"refresh"}) \union {None}]
    BY <1>7 DEF StoreRefresh, TypeOK
  <2> QED BY <1>0, <1>7, <2>1, <2>2 DEF StoreRefresh, TypeOK
<1>8. ASSUME NEW c \in Check, NEW p \in Process, NEW via \in Vias, NEW i \in Issue, NEW k \in Kinds,
             Present(c, p, via, i, k)
      PROVE  TypeOK'
  <2>1. check' \in [Check -> Verification \union {None}]
    BY <1>8, PresentOK DEF TypeOK
  <2> QED BY <1>0, <1>8, <2>1 DEF Present, TypeOK
<1>9. ASSUME NEW c \in Check, validateRefreshToken(c) PROVE TypeOK'
  <2>1. check[c] # None /\ (Decide(c, "user", {}) \/ Decide(c, "refused", {"superseded"}))
    BY <1>9 DEF validateRefreshToken, Waiting
  <2>2. check' \in [Check -> Verification \union {None}]
    BY <2>1, DecideOK DEF TypeOK
  <2> QED BY <1>0, <1>9, <2>2 DEF validateRefreshToken, TypeOK
<1>10. ASSUME NEW c \in Check, LookUpUser(c) PROVE TypeOK'
  <2> DEFINE why == IF call[check[c].issue].sub \in users
                    THEN claimFaults(token[check[c].issue][check[c].kind], Clock(check[c].by))
                    ELSE {"user"}
  <2>1. why \in SUBSET (TimeFaults \union {"key", "claims", "superseded", "user"})
    BY DEF claimFaults
  <2>2. check[c] # None /\ Decide(c, IF why = {} THEN "accepted" ELSE "refused", why)
    BY <1>10 DEF LookUpUser, Waiting
  <2> HIDE DEF why
  <2>3. check' \in [Check -> Verification \union {None}]
    BY <2>1, <2>2, DecideOK DEF TypeOK
  <2> QED BY <1>0, <1>10, <2>3 DEF LookUpUser, TypeOK
<1>11. CASE Tick
  BY <1>0, <1>11 DEF Tick, TypeOK
<1>12. ASSUME NEW u \in User, RemoveUser(u) PROVE TypeOK'
  BY <1>0, <1>12 DEF RemoveUser, TypeOK
<1>13. CASE UNCHANGED vars
  BY <1>13 DEF vars, TypeOK
<1> QED
  BY <1>1, <1>2, <1>3, <1>4, <1>5, <1>6, <1>7, <1>8, <1>9, <1>10, <1>11, <1>12, <1>13 DEF Next

(***************************************************************************)
(* A finished call and its tokens never change again.                      *)
(***************************************************************************)
LEMMA DoneKept ==
    ASSUME TypeOK, [Next]_vars, NEW i \in Issue, call[i] # None, call[i].phase = "done"
    PROVE  call'[i] = call[i] /\ token'[i] = token[i]
<1>1. ASSUME NEW j \in Issue, NEW p \in Process, NEW u \in User,
             \/ StartPair(j, p, u)
             \/ \E life \in Durations : StartAdmin(j, p, u, life)
             \/ CreateReset(j, p, u)
      PROVE  call'[i] = call[i] /\ token'[i] = token[i]
  <2>1. call[j] = None
    BY <1>1 DEF StartPair, StartAdmin, CreateReset, Open
  <2>2. i # j
    BY <2>1
  <2> QED BY <1>1, <2>2 DEF StartPair, StartAdmin, CreateReset, Open, TypeOK
<1>2. ASSUME NEW j \in Issue,
             \/ \E k \in Kinds : ReadIat(j, k) \/ Sign(j, k)
             \/ IssueFails(j) \/ StoreRefresh(j)
      PROVE  call'[i] = call[i] /\ token'[i] = token[i]
  <2>1. call[j].phase = "open"
    BY <1>2 DEF ReadIat, Sign, IssueFails, StoreRefresh, Busy
  <2>2. i # j
    BY <2>1
  <2>3. call'[i] = call[i]
    BY <1>2, <2>2 DEF ReadIat, Sign, IssueFails, StoreRefresh, TypeOK
  <2>4. token'[i] = token[i]
    BY <1>2, <2>2 DEF ReadIat, Sign, IssueFails, StoreRefresh, TypeOK
  <2> QED BY <2>3, <2>4
<1>3. CASE UNCHANGED <<call, token>>
  BY <1>3
<1>4. ASSUME NEW c \in Check,
             \/ \E p \in Process, via \in Vias, j \in Issue, k \in Kinds : Present(c, p, via, j, k)
             \/ validateRefreshToken(c) \/ LookUpUser(c)
      PROVE  UNCHANGED <<call, token>>
  BY <1>4 DEF Present, validateRefreshToken, LookUpUser
<1>5. ASSUME Tick \/ (\E u \in User : RemoveUser(u)) \/ UNCHANGED vars
      PROVE  UNCHANGED <<call, token>>
  BY <1>5 DEF Tick, RemoveUser, vars
<1> QED BY <1>1, <1>2, <1>3, <1>4, <1>5 DEF Next

(***************************************************************************)
(* What the claims of a token say stays true.                              *)
(***************************************************************************)
LEMMA TokenKept ==
    ASSUME TypeOK, time' \in Nat, time <= time', NEW i \in Issue, NEW k \in Kinds, TokenTrue(i, k),
           call'[i] = call[i], token'[i][k] = token[i][k]
    PROVE  TokenTrue(i, k)'
<1>1. CASE ~ Made(i, k)
  BY <1>1 DEF TokenTrue, Made
<1>2. CASE Made(i, k)
  <2>1. token[i][k] \in Token /\ time \in Nat
    BY Constants DEF TypeOK
  <2>2. token[i][k].begun \in Nat /\ token[i][k].signed \in Nat
    BY <2>1 DEF Token
  <2> QED BY <1>2, <2>1, <2>2 DEF TokenTrue, Made
<1> QED BY <1>1, <1>2

LEMMA TokenStep ==
    ASSUME IInv, [Next]_vars, NEW i \in Issue, NEW k \in Kinds
    PROVE  TokenTrue(i, k)'
<1>1. TypeOK /\ TokenTrue(i, k) /\ time' \in Nat /\ time <= time' /\ time \in Nat
  BY ClockStep, Constants DEF IInv, TypeOK
<1>2. CASE call'[i] = call[i] /\ token'[i][k] = token[i][k]
  BY <1>1, <1>2, TokenKept
<1>3. CASE UNCHANGED <<call, token>>
  BY <1>2, <1>3
<1>4. ASSUME NEW j \in Issue, NEW p \in Process, NEW u \in User, StartPair(j, p, u), i = j
      PROVE  TokenTrue(i, k)'
  <2>1. call'[i] = [makes |-> Pair, by |-> p, sub |-> u, phase |-> "open"]
    BY <1>1, <1>4 DEF StartPair, Open, TypeOK
  <2>2. k \in Pair => token'[i][k].stage = "asked" /\ token'[i][k].life <= MaxAge
    BY <1>1, <1>4, Constants DEF StartPair, Blank, Pair, TypeOK
  <2>3. call'[i].makes = Pair /\ call'[i].phase = "open"
    BY <2>1
  <2> QED BY <2>2, <2>3 DEF TokenTrue, Made, Pair
<1>5. ASSUME NEW j \in Issue, NEW p \in Process, NEW u \in User, NEW life \in Durations,
             StartAdmin(j, p, u, life), i = j
      PROVE  TokenTrue(i, k)'
  <2>1. call'[i] = [makes |-> {"admin"}, by |-> p, sub |-> u, phase |-> "open"]
    BY <1>1, <1>5 DEF StartAdmin, Open, TypeOK
  <2>2. token'[i]["admin"].stage = "asked" /\ token'[i]["admin"].life <= MaxAge
    BY <1>1, <1>5, Constants DEF StartAdmin, Blank, Durations, Kinds, TypeOK
  <2>3. call'[i].makes = {"admin"} /\ call'[i].phase = "open"
    BY <2>1
  <2> QED BY <2>2, <2>3 DEF TokenTrue, Made
<1>6. ASSUME NEW j \in Issue, NEW p \in Process, NEW u \in User, CreateReset(j, p, u), i = j
      PROVE  TokenTrue(i, k)'
  <2>1. call'[i] = [makes |-> {"reset"}, by |-> p, sub |-> u, phase |-> "done"]
    BY <1>1, <1>6 DEF CreateReset, TypeOK
  <2>2. token'[i]["reset"] =
          [stage |-> "signed", life |-> ResetLife, iat |-> Clock(p),
           exp |-> Clock(p) + ResetLife, begun |-> time, signed |-> time]
    BY <1>1, <1>6 DEF CreateReset, Kinds, TypeOK
  <2>3. call'[i].makes = {"reset"} /\ call'[i].by = p
    BY <2>1
  <2>4. Offset[p] \in Int /\ time' = time
    BY <1>6, Constants DEF CreateReset
  <2> QED BY <1>1, <2>2, <2>3, <2>4, Constants DEF TokenTrue, Made, Clock
<1>7. ASSUME NEW j \in Issue, NEW m \in Kinds, ReadIat(j, m), i = j, k = m
      PROVE  TokenTrue(i, k)'
  <2>1. Made(i, k) /\ call'[i] = call[i] /\ call[i].phase = "open" /\ time' = time
    BY <1>7 DEF ReadIat, Busy, Made
  <2>2. /\ token'[i][k].stage = "reading" /\ token'[i][k].life = token[i][k].life
        /\ token'[i][k].begun = time /\ token'[i][k].iat = time + Offset[call[i].by]
    BY <1>1, <1>7, ReadOK
  <2> QED BY <1>1, <2>1, <2>2 DEF TokenTrue, Made
<1>8. ASSUME NEW j \in Issue, NEW m \in Kinds, Sign(j, m), i = j, k = m
      PROVE  TokenTrue(i, k)'
  <2>1. Made(i, k) /\ time' = time /\ call[i] \in Call /\ token[i][k].stage = "reading"
    BY <1>1, <1>8, CallStep DEF Sign, Busy, Made
  <2>2. call'[i].by = call[i].by /\ call'[i].makes = call[i].makes /\ call'[i] # None
    BY <1>1, <1>8, <2>1, NoneAssumption DEF Sign, TypeOK, Call, Made
  <2>3. /\ token'[i][k].stage = "signed" /\ token'[i][k].life = token[i][k].life
        /\ token'[i][k].begun = token[i][k].begun /\ token'[i][k].iat = token[i][k].iat
        /\ token'[i][k].signed = time
        /\ token'[i][k].exp = time + Offset[call[i].by] + token[i][k].life
    BY <1>1, <1>8, SignOK
  <2> QED BY <1>1, <2>1, <2>2, <2>3 DEF TokenTrue, Made
<1>9. ASSUME NEW j \in Issue, NEW m \in Kinds, ReadIat(j, m) \/ Sign(j, m), i = j, k # m
      PROVE  TokenTrue(i, k)'
  <2>1. token'[i][k] = token[i][k]
    BY <1>1, <1>9 DEF ReadIat, Sign, TypeOK
  <2>2. Made(i, m) /\ call[i] \in Call
    BY <1>1, <1>9, CallStep DEF ReadIat, Sign, Busy, Made
  <2>3. CASE call'[i] = call[i]
    BY <1>1, <2>1, <2>3, TokenKept
  <2>4. CASE m = "admin" /\ Sign(j, m)
    <3>1. call[i].makes = {"admin"}
      BY <2>2, <2>4 DEF IInv, TokenTrue
    <3>2. call'[i].makes = {"admin"}
      BY <1>1, <1>9, <2>2, <2>4, <3>1 DEF Sign, TypeOK, Call
    <3> QED BY <1>9, <2>4, <3>2 DEF TokenTrue, Made
  <2> QED BY <1>9, <2>3, <2>4 DEF ReadIat, Sign
<1>10. ASSUME NEW j \in Issue, IssueFails(j), i = j PROVE TokenTrue(i, k)'
  <2>1. call[i] \in Call /\ call[i] # None
    BY <1>1, <1>10, CallStep DEF IssueFails
  <2>2. /\ call'[i].by = call[i].by /\ call'[i].makes = call[i].makes /\ call'[i].phase = "failed"
        /\ token' = token /\ time' = time
    BY <1>1, <1>10, <2>1 DEF IssueFails, TypeOK, Call
  <2> QED BY <1>1, <2>1, <2>2 DEF TokenTrue, Made
<1>11. ASSUME NEW j \in Issue, StoreRefresh(j), i = j PROVE TokenTrue(i, k)'
  <2>1. call[i] \in Call /\ call[i] # None
    BY <1>1, <1>11, CallStep DEF StoreRefresh
  <2>2. /\ call'[i].by = call[i].by /\ call'[i].makes = call[i].makes
        /\ token' = token /\ time' = time
    BY <1>1, <1>11, <2>1 DEF StoreRefresh, TypeOK, Call
  <2>3. call[i].makes = Pair /\ \A m \in Pair : token[i][m].stage = "signed"
    BY <1>11 DEF StoreRefresh
  <2> QED BY <1>1, <2>1, <2>2, <2>3 DEF TokenTrue, Made
<1>12. ASSUME NEW j \in Issue, i # j,
              \/ \E p \in Process, u \in User :
                    \/ StartPair(j, p, u)
                    \/ \E life \in Durations : StartAdmin(j, p, u, life)
                    \/ CreateReset(j, p, u)
              \/ \E m \in Kinds : ReadIat(j, m) \/ Sign(j, m)
              \/ IssueFails(j) \/ StoreRefresh(j)
       PROVE  TokenTrue(i, k)'
  <2>1. call'[i] = call[i]
    BY <1>1, <1>12 DEF StartPair, StartAdmin, CreateReset, Open, ReadIat, Sign, IssueFails,
       StoreRefresh, TypeOK
  <2>2. token'[i] = token[i]
    BY <1>1, <1>12 DEF StartPair, StartAdmin, CreateReset, ReadIat, Sign, IssueFails,
       StoreRefresh, TypeOK
  <2> QED BY <1>2, <2>1, <2>2
<1>13. ASSUME NEW c \in Check,
              \/ \E p \in Process, via \in Vias, j \in Issue, m \in Kinds : Present(c, p, via, j, m)
              \/ validateRefreshToken(c) \/ LookUpUser(c)
       PROVE  UNCHANGED <<call, token>>
  BY <1>13 DEF Present, validateRefreshToken, LookUpUser
<1>14. ASSUME Tick \/ (\E u \in User : RemoveUser(u)) \/ UNCHANGED vars
       PROVE  UNCHANGED <<call, token>>
  BY <1>14 DEF Tick, RemoveUser, vars
<1> QED
  BY <1>3, <1>4, <1>5, <1>6, <1>7, <1>8, <1>9, <1>10, <1>11, <1>12, <1>13, <1>14 DEF Next

(***************************************************************************)
(* What the verdicts rest on stays true.                                   *)
(***************************************************************************)
LEMMA CheckKept ==
    ASSUME IInv, [Next]_vars, NEW c \in Check, check'[c] = check[c]
    PROVE  CheckTrue(c)'
<1>1. CASE check[c] = None
  BY <1>1 DEF CheckTrue
<1>2. CASE check[c] # None
  <2> DEFINE v == check[c]
  <2>1. TypeOK /\ CheckTrue(c) /\ v \in Verification
    BY <1>2 DEF IInv, TypeOK
  <2>2. v.issue \in Issue /\ v.kind \in Kinds /\ v.decided \in Nat
    BY <2>1 DEF Verification
  <2>3. Made(v.issue, v.kind) /\ call[v.issue].phase = "done" /\ Passed(v, Shown(c), time)
    BY <1>2, <2>1 DEF CheckTrue
  <2>4. call'[v.issue] = call[v.issue] /\ token'[v.issue] = token[v.issue]
    BY <2>1, <2>2, <2>3, DoneKept DEF Made
  <2>5. time <= time' /\ time \in Nat /\ time' \in Nat
    BY <2>1, ClockStep, Constants DEF TypeOK
  <2>6. Shown(c)' = Shown(c) /\ Made(v.issue, v.kind)'
    BY <2>3, <2>4 DEF Shown, Made
  <2>7. Passed(v, Shown(c), time')
    BY <2>2, <2>3, <2>5 DEF Passed
  <2> QED BY <1>2, <2>3, <2>4, <2>6, <2>7 DEF CheckTrue
<1> QED BY <1>1, <1>2

LEMMA CheckStep ==
    ASSUME IInv, [Next]_vars, NEW c \in Check
    PROVE  CheckTrue(c)'
<1>1. TypeOK /\ time \in Nat
  BY Constants DEF IInv, TypeOK
<1>2. ASSUME NEW p \in Process, NEW via \in Vias, NEW i \in Issue, NEW k \in Kinds,
             Present(c, p, via, i, k)
      PROVE  CheckTrue(c)'
  <2> DEFINE v == check'[c]
             t == token[i][k]
  <2>1. /\ v \in Verification
        /\ v.why # {} => v.phase = "refused"
        /\ v.why = {} => v.phase = Following[via]
        /\ v.why = FirstFaults(t, k, via, Clock(p))
        /\ v.by = p /\ v.via = via /\ v.issue = i /\ v.kind = k
        /\ v.checked = time /\ v.decided = time
    BY <1>1, <1>2, PresentOK
  <2>2. /\ call[i] # None /\ call[i].phase = "done" /\ k \in call[i].makes
        /\ time' = time /\ call' = call /\ token' = token
    BY <1>2 DEF Present
  <2>3. t \in Token /\ t.exp \in Int /\ t.iat \in Int /\ Offset[p] \in Int
    BY <1>1, Constants DEF TypeOK, Token
  <2>9. t.begun <= time
    BY <2>2 DEF IInv, TokenTrue, Made
  <2>4. /\ "expired" \in v.why => t.exp <= time + Offset[p]
        /\ "future" \in v.why => time + Offset[p] + Tolerance < t.iat
        /\ "age" \in v.why => time + Offset[p] - t.iat > MaxAge
    BY <1>1, <2>1, <2>3, Constants
       DEF FirstFaults, jwtFaults, SchemaFaults, adminClaimFaults, claimFaults, TimeFaults, Clock
  <2>5. ASSUME v.phase # "refused"
        PROVE  /\ v.why = {} /\ v.phase = Following[via]
               /\ KeyOf(k) = KeyOf(via) /\ Required(via) \subseteq Claims(k)
               /\ time + Offset[p] < t.exp
               /\ via = "admin" => time + Offset[p] - t.iat <= MaxAge
    <3>1. v.why = {} /\ v.phase = Following[via]
      BY <2>1, <2>5
    <3>2. FirstFaults(t, k, via, Clock(p)) = {}
      BY <2>1, <3>1
    <3>3. jwtFaults(t, k, via, Clock(p)) = {} /\ SchemaFaults(k, via) = {}
      BY <3>2 DEF FirstFaults
    <3>4. via = "admin" => claimFaults(t, Clock(p)) = {}
      BY <3>2 DEF FirstFaults, adminClaimFaults
    <3>5. KeyOf(k) = KeyOf(via) /\ ~ (t.exp <= Clock(p))
      BY <3>3 DEF jwtFaults
    <3>6. Required(via) \subseteq Claims(k)
      BY <3>3 DEF SchemaFaults
    <3>7. via = "admin" => ~ (Clock(p) - t.iat > MaxAge)
      BY <3>4 DEF claimFaults, TimeFaults
    <3> QED BY <1>1, <2>3, <3>1, <3>5, <3>6, <3>7, Constants DEF Clock
  <2>6. v.phase \in {"held", "user", "accepted"} \/ v.phase = "refused"
    BY <2>1 DEF Verification
  <2>7. Passed(v, t, time)
    <3> HIDE DEF v, t
    <3>1. CASE v.phase = "refused"
      BY <1>1, <2>1, <2>4, <2>9, <3>1 DEF Passed
    <3>2. CASE v.phase # "refused"
      <4>1. v.phase = "held" => via = "refresh"
        BY <2>5, <3>2 DEF Following, Vias
      <4>2. v.phase = "user" => via = "session"
        BY <2>5, <3>2 DEF Following, Vias
      <4>3. v.phase = "accepted" => via \in {"reset", "admin"}
        BY <2>5, <3>2 DEF Following, Vias
      <4> QED BY <1>1, <2>1, <2>4, <2>5, <2>9, <3>2, <4>1, <4>2, <4>3 DEF Passed
    <3> QED BY <3>1, <3>2
  <2>8. Shown(c)' = t
    BY <2>1, <2>2 DEF Shown
  <2> QED BY <2>1, <2>2, <2>7, <2>8 DEF CheckTrue, Made
<1>3. ASSUME NEW phase \in {"user", "accepted", "refused"},
             NEW why \in SUBSET (TimeFaults \union {"key", "claims", "superseded", "user"}),
             check[c] # None, check[c].phase # "refused",
             Decide(c, phase, why), UNCHANGED <<time, call, token>>,
             LET v == check[c]
                 t == Shown(c)
             IN  /\ phase = "user" => v.via = "refresh" /\ v.kind = "refresh"
                 /\ phase = "accepted" =>
                       /\ v.via = "refresh" => v.kind = "refresh"
                       /\ time + Offset[v.by] - t.exp < Tolerance
                       /\ time + Offset[v.by] - t.iat <= MaxAge
                 /\ "expired" \in why => t.exp <= time + Offset[v.by]
                 /\ "future" \in why => time + Offset[v.by] + Tolerance < t.iat
                 /\ "age" \in why => time + Offset[v.by] - t.iat > MaxAge
      PROVE  CheckTrue(c)'
  <2> DEFINE v == check[c]
             w == check'[c]
  <2>1. /\ w \in Verification /\ w.phase = phase /\ w.why = why /\ w.decided = time
        /\ w.checked = v.checked /\ w.via = v.via /\ w.by = v.by /\ w.issue = v.issue
        /\ w.kind = v.kind
    BY <1>1, <1>3, DecideOK
  <2>2. /\ Made(v.issue, v.kind) /\ call[v.issue].phase = "done"
        /\ Passed(v, Shown(c), time)
    BY <1>3 DEF IInv, CheckTrue
  <2>3. v \in Verification /\ v.checked \in Nat /\ v.decided \in Nat
    BY <1>1, <1>3 DEF TypeOK, Verification
  <2>4. Passed(w, Shown(c), time)
    <3> HIDE DEF v, w
    <3> QED BY <1>1, <1>3, <2>1, <2>2, <2>3 DEF Passed, v
  <2>5. Shown(c)' = Shown(c)
    BY <1>3, <2>1 DEF Shown
  <2> QED BY <1>3, <2>1, <2>2, <2>4, <2>5 DEF CheckTrue, Made
<1>4. CASE validateRefreshToken(c)
  <2> DEFINE i == check[c].issue
             u == call[i].sub
  <2>1. check[c] # None /\ check[c].phase = "held" /\ UNCHANGED <<time, call, token>>
    BY <1>4 DEF validateRefreshToken, Waiting
  <2>2. CheckTrue(c) /\ check[c].via = "refresh" /\ check[c] \in Verification
    BY <1>1, <2>1 DEF IInv, CheckTrue, Passed, TypeOK
  <2>3. i \in Issue /\ call[i] \in Call /\ u \in User
    <3>1. i \in Issue
      BY <2>2 DEF Verification
    <3>2. call[i] \in Call
      BY <1>1, <2>1, <2>2, <3>1, CallStep DEF CheckTrue, Made
    <3> QED BY <3>1, <3>2 DEF Call
  <2>4. CASE u \in users /\ held[u] = <<i, check[c].kind>>
    <3>1. check[c].kind = "refresh"
      <4>1. check[c].kind \in Kinds
        BY <2>2 DEF Verification
      <4>2. held[u] \in (Issue \X {"refresh"}) \union {None}
        BY <1>1, <2>3 DEF TypeOK
      <4>3. held[u] # None
        BY <2>3, <2>4, <4>1, NoneAssumption
      <4> QED BY <2>4, <4>2, <4>3
    <3>2. Decide(c, "user", {})
      BY <1>4, <2>4 DEF validateRefreshToken
    <3> QED BY <1>3, <2>1, <2>2, <3>1, <3>2
  <2>5. CASE ~ (u \in users /\ held[u] = <<i, check[c].kind>>)
    <3>1. Decide(c, "refused", {"superseded"})
      BY <1>4, <2>5 DEF validateRefreshToken
    <3> QED BY <1>3, <2>1, <2>2, <3>1
  <2> QED BY <2>4, <2>5
<1>5. CASE LookUpUser(c)
  <2> DEFINE v == check[c]
             t == Shown(c)
             why == IF call[v.issue].sub \in users THEN claimFaults(t, Clock(v.by)) ELSE {"user"}
  <2>1. check[c] # None /\ check[c].phase = "user" /\ UNCHANGED <<time, call, token>>
    BY <1>5 DEF LookUpUser, Waiting
  <2>2. CheckTrue(c) /\ v \in Verification
    BY <1>1, <2>1 DEF IInv, TypeOK
  <2>3. v.by \in Process /\ v.issue \in Issue /\ v.kind \in Kinds
    BY <2>2 DEF Verification
  <2>4. t \in Token /\ t.exp \in Int /\ t.iat \in Int /\ Offset[v.by] \in Int
    BY <1>1, <2>3, Constants DEF TypeOK, Token, Shown
  <2>5. why \in SUBSET (TimeFaults \union {"key", "claims", "superseded", "user"})
    BY DEF claimFaults
  <2>6. Decide(c, IF why = {} THEN "accepted" ELSE "refused", why)
    BY <1>5 DEF LookUpUser, Shown
  <2>7. /\ "expired" \in why => t.exp <= time + Offset[v.by]
        /\ "future" \in why => time + Offset[v.by] + Tolerance < t.iat
        /\ "age" \in why => time + Offset[v.by] - t.iat > MaxAge
    BY <1>1, <2>4, Constants DEF claimFaults, TimeFaults, Clock
  <2>8. ASSUME why = {}
        PROVE  /\ time + Offset[v.by] - t.exp < Tolerance
               /\ time + Offset[v.by] - t.iat <= MaxAge
    <3>1. claimFaults(t, Clock(v.by)) = {}
      BY <2>8
    <3>2. ~ (t.exp <= Clock(v.by) - Tolerance) /\ ~ (Clock(v.by) - t.iat > MaxAge)
      BY <3>1 DEF claimFaults, TimeFaults
    <3> QED BY <1>1, <2>4, <3>2, Constants DEF Clock
  <2>9. v.via = "refresh" => v.kind = "refresh"
    BY <2>1, <2>2 DEF CheckTrue, Passed
  <2> HIDE DEF why, t, v
  <2>10. CASE why = {}
    <3>1. Decide(c, "accepted", why)
      BY <2>6, <2>10
    <3> QED BY <1>3, <2>1, <2>5, <2>7, <2>8, <2>9, <2>10, <3>1 DEF v, t
  <2>11. CASE why # {}
    <3>1. Decide(c, "refused", why)
      BY <2>6, <2>11
    <3> QED BY <1>3, <2>1, <2>5, <2>7, <3>1 DEF v, t
  <2> QED BY <2>10, <2>11
<1>6. CASE check'[c] = check[c]
  BY <1>6, CheckKept
<1>7. ASSUME NEW d \in Check, d # c,
             \/ \E p \in Process, via \in Vias, i \in Issue, k \in Kinds : Present(d, p, via, i, k)
             \/ validateRefreshToken(d) \/ LookUpUser(d)
      PROVE  check'[c] = check[c]
  <2>1. PICK v : check' = [check EXCEPT ![d] = v]
    BY <1>7 DEF Present, validateRefreshToken, LookUpUser, Decide
  <2> QED BY <1>1, <1>7, <2>1 DEF TypeOK
<1>8. ASSUME NEW i \in Issue,
             \/ \E p \in Process, u \in User :
                   \/ StartPair(i, p, u)
                   \/ \E life \in Durations : StartAdmin(i, p, u, life)
                   \/ CreateReset(i, p, u)
             \/ \E k \in Kinds : ReadIat(i, k) \/ Sign(i, k)
             \/ IssueFails(i) \/ StoreRefresh(i)
      PROVE  check' = check
  BY <1>8 DEF StartPair, StartAdmin, CreateReset, ReadIat, Sign, IssueFails, StoreRefresh
<1>9. ASSUME Tick \/ (\E u \in User : RemoveUser(u)) \/ UNCHANGED vars
      PROVE  check' = check
  BY <1>9 DEF Tick, RemoveUser, vars
<1> QED
  BY <1>2, <1>4, <1>5, <1>6, <1>7, <1>8, <1>9 DEF Next

LEMMA InvStep == IInv /\ [Next]_vars => IInv'
<1> SUFFICES ASSUME IInv, [Next]_vars PROVE IInv'
  OBVIOUS
<1>1. TypeOK'
  BY TypeStep DEF IInv
<1>2. \A i \in Issue, k \in Kinds : TokenTrue(i, k)'
  BY TokenStep
<1>3. \A c \in Check : CheckTrue(c)'
  BY CheckStep
<1> QED BY <1>1, <1>2, <1>3 DEF IInv

LEMMA Invariance == Spec => []IInv
<1>1. Init => IInv
  BY InitInv
<1>2. IInv /\ [Next]_vars => IInv'
  BY InvStep
<1> QED BY <1>1, <1>2, PTL DEF Spec

-----------------------------------------------------------------------------
\* What the invariant says of a request that has an answer, in numbers.
LEMMA Times ==
    ASSUME IInv, NEW c \in Check, check[c] # None
    PROVE  LET v == check[c]
               t == Shown(c)
           IN  /\ v \in Verification /\ Passed(v, t, time)
               /\ v.checked \in Nat /\ v.decided \in Nat /\ t.begun \in Nat /\ t.signed \in Nat
               /\ t.life \in Int /\ t.life <= MaxAge
               /\ Offset[v.by] \in Int /\ Ahead(c) \in Int
               /\ t.iat = t.begun + Ahead(c) + Offset[v.by]
               /\ t.exp = t.signed + Ahead(c) + Offset[v.by] + t.life
               /\ t.begun <= t.signed
<1> DEFINE v == check[c]
           i == v.issue
           t == token[i][v.kind]
           o == Offset[call[i].by]
<1>1. CheckTrue(c) /\ v \in Verification /\ TypeOK
  BY DEF IInv, TypeOK
<1>2. v.by \in Process /\ i \in Issue /\ v.kind \in Kinds /\ v.checked \in Nat /\ v.decided \in Nat
  BY <1>1 DEF Verification
<1>3. Made(i, v.kind) /\ call[i].phase = "done" /\ Passed(v, t, time)
  BY <1>1 DEF CheckTrue, Shown
<1>4. t \in Token /\ t.begun \in Nat /\ t.signed \in Nat /\ t.life \in Int
  BY <1>1, <1>2 DEF TypeOK, Token
<1>5. call[i] \in Call /\ call[i].by \in Process
  BY <1>1, <1>2, <1>3 DEF TypeOK, Made, Call
<1>6. o \in Int /\ Offset[v.by] \in Int
  BY <1>2, <1>5, Constants
<1>7. /\ t.life <= MaxAge /\ t.iat = t.begun + o
      /\ t.begun <= t.signed /\ t.exp = t.signed + o + t.life
  BY <1>2, <1>3 DEF IInv, TokenTrue
<1>8. Shown(c) = t /\ Ahead(c) = o - Offset[v.by]
  BY DEF Shown, Ahead
<1> HIDE DEF t, o
<1>9. /\ Ahead(c) \in Int /\ t.iat = t.begun + Ahead(c) + Offset[v.by]
      /\ t.exp = t.signed + Ahead(c) + Offset[v.by] + t.life
  BY <1>4, <1>6, <1>7, <1>8
<1> HIDE DEF v
<1> QED BY <1>1, <1>2, <1>3, <1>4, <1>6, <1>7, <1>8, <1>9 DEF v

\* Every reachable state is typed (the whole of TokenLife).
THEOREM TypeCorrect == Spec => []TypeOK
<1>1. IInv => TypeOK
  BY DEF IInv
<1> QED BY <1>1, Invariance, PTL

\* However slow the queries of a verification are and whatever the clocks say, a
\* token is accepted only within its life, up to the clocks' difference and, for
\* the answer, the tolerance of validateTokenClaims.
THEOREM LifeIsBounded == Spec => []LifeBounded
<1>1. IInv => LifeBounded
  <2> SUFFICES ASSUME IInv, NEW c \in Check, Waiting(c, "accepted")
               PROVE  /\ check[c].checked < Shown(c).signed + Shown(c).life + Ahead(c)
                      /\ check[c].decided < Shown(c).signed + Shown(c).life + Ahead(c) + Tolerance
                      /\ check[c].via # "reset" =>
                            check[c].decided <= Shown(c).begun + MaxAge + Ahead(c)
    BY DEF LifeBounded
  <2> DEFINE v == check[c]
             t == Shown(c)
  <2>1. check[c] # None /\ v.phase = "accepted"
    BY DEF Waiting
  <2>2. /\ Passed(v, t, time)
        /\ v.checked \in Nat /\ v.decided \in Nat /\ t.begun \in Nat /\ t.signed \in Nat
        /\ t.life \in Int /\ Offset[v.by] \in Int /\ Ahead(c) \in Int
        /\ t.iat = t.begun + Ahead(c) + Offset[v.by]
        /\ t.exp = t.signed + Ahead(c) + Offset[v.by] + t.life
    BY <2>1, Times
  <2> HIDE DEF v, t
  <2>3. /\ v.checked + Offset[v.by] < t.exp
        /\ v.decided + Offset[v.by] - t.exp < Tolerance \/ v.decided = v.checked
        /\ v.via # "reset" => v.decided + Offset[v.by] - t.iat <= MaxAge
    BY <2>1, <2>2 DEF Passed, v
  <2>4. /\ v.checked < t.signed + t.life + Ahead(c)
        /\ v.decided < t.signed + t.life + Ahead(c) + Tolerance
        /\ v.via # "reset" => v.decided <= t.begun + MaxAge + Ahead(c)
    BY <2>2, <2>3, Constants
  <2> QED BY <2>4 DEF v, t
<1> QED BY <1>1, Invariance, PTL

\* A token refused as expired or too old is past its life or the maximum age, up to the
\* difference of the clocks; one refused as from the future shows that the maker's clock
\* is ahead by more than the tolerance.
THEOREM RefusalsAreRight == Spec => []RefusedRightly
<1>1. IInv => RefusedRightly
  <2> SUFFICES ASSUME IInv, NEW c \in Check, Waiting(c, "refused")
               PROVE  /\ "expired" \in check[c].why
                            => check[c].decided >= Shown(c).signed + Shown(c).life + Ahead(c)
                      /\ "future" \in check[c].why => Ahead(c) > Tolerance
                      /\ "age" \in check[c].why
                            => check[c].decided > Shown(c).begun + MaxAge + Ahead(c)
    BY DEF RefusedRightly
  <2> DEFINE v == check[c]
             t == Shown(c)
  <2>1. check[c] # None /\ v.phase = "refused"
    BY DEF Waiting
  <2>2. /\ Passed(v, t, time)
        /\ v.checked \in Nat /\ v.decided \in Nat /\ t.begun \in Nat /\ t.signed \in Nat
        /\ t.life \in Int /\ Offset[v.by] \in Int /\ Ahead(c) \in Int
        /\ t.life <= MaxAge /\ t.begun <= t.signed
        /\ t.iat = t.begun + Ahead(c) + Offset[v.by]
        /\ t.exp = t.signed + Ahead(c) + Offset[v.by] + t.life
    BY <2>1, Times
  <2> HIDE DEF v, t
  <2>3. /\ "expired" \in v.why => t.exp <= v.decided + Offset[v.by]
        /\ "future" \in v.why => v.decided + Offset[v.by] + Tolerance < t.iat
        /\ "age" \in v.why => v.decided + Offset[v.by] - t.iat > MaxAge
        /\ t.begun <= v.decided
    BY <2>2 DEF Passed
  <2>4. /\ "expired" \in v.why => v.decided >= t.signed + t.life + Ahead(c)
        /\ "future" \in v.why => Ahead(c) > Tolerance
        /\ "age" \in v.why => v.decided > t.begun + MaxAge + Ahead(c)
    BY <2>2, <2>3, Constants
  <2> QED BY <2>4 DEF v, t
<1> QED BY <1>1, Invariance, PTL

\* Whatever the clocks and the order of steps, sessions are opened by the tokens of a pair
\* only, and refreshes, resets of passwords and administrators' requests each by their own
\* kind only: by the key pair, the claims and the stored hash.
THEOREM KindsStayApart == Spec => []KindsApart
<1>1. IInv => KindsApart
  <2> SUFFICES ASSUME IInv, NEW c \in Check, Waiting(c, "accepted")
               PROVE  IF check[c].via = "session" THEN check[c].kind \in Pair
                      ELSE check[c].kind = check[c].via
    BY DEF KindsApart
  <2> DEFINE v == check[c]
  <2>1. check[c] # None /\ v.phase = "accepted"
    BY DEF Waiting
  <2>2. /\ v.via \in Vias /\ v.kind \in Kinds
        /\ KeyOf(v.kind) = KeyOf(v.via)
        /\ Required(v.via) \subseteq Claims(v.kind)
        /\ v.via = "refresh" => v.kind = "refresh"
    <3>1. v \in Verification /\ Passed(v, Shown(c), time)
      BY <2>1, Times
    <3>2. v.via \in Vias /\ v.kind \in Kinds
      BY <3>1 DEF Verification
    <3> QED BY <2>1, <3>1, <3>2 DEF Passed
  <2> HIDE DEF v
  <2>3. CASE v.via = "session"
    <3>1. "sub" \in Claims(v.kind)
      BY <2>2, <2>3 DEF Required
    <3>2. v.kind # "reset"
      BY <3>1 DEF Claims, Pair
    <3>3. v.kind # "admin"
      BY <2>2, <2>3 DEF KeyOf
    <3> QED BY <2>2, <2>3, <3>2, <3>3 DEF Kinds, v
  <2>4. CASE v.via = "refresh"
    BY <2>2, <2>4 DEF v
  <2>5. CASE v.via = "reset"
    <3>1. "type" \in Claims(v.kind)
      BY <2>2, <2>5 DEF Required
    <3>2. v.kind \notin Pair /\ v.kind # "admin"
      BY <3>1 DEF Claims, Pair, AdminTokenPayload
    <3> QED BY <2>2, <2>5, <3>2 DEF Kinds, v
  <2>6. CASE v.via = "admin"
    <3>1. KeyOf(v.kind) = "admin_jws"
      BY <2>2, <2>6 DEF KeyOf
    <3>2. v.kind = "admin"
      BY <3>1 DEF KeyOf
    <3> QED BY <2>6, <3>2 DEF v
  <2> QED BY <2>2, <2>3, <2>4, <2>5, <2>6 DEF Vias
<1> QED BY <1>1, Invariance, PTL
=============================================================================
