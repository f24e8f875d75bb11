----------------------- MODULE RoutePermissions_proofs -----------------------
(***************************************************************************)
(* For any routes, requests, roles and permissions: the Maps hold what was *)
(* registered, the memo of PermissionService is never noticed, and lookups *)
(* find what the registered list says they should, so that the guard lets  *)
(* in exactly those entitled.                                              *)
(***************************************************************************)
EXTENDS Guards, WellFoundedInduction, TLAPS

\* The Maps are made of the routes registered so far.
MapsOK ==
    /\ config \in Configs
    /\ loaded \in 0..Len(config)
    /\ DOMAIN routePermissions = {KeyOf(i) : i \in Registered}
    /\ \A k \in DOMAIN routePermissions : \E i \in Registered :
            k = KeyOf(i) /\ routePermissions[k] = config[i]
    /\ pathPatterns \in Seq(DOMAIN routePermissions)

\* Every entry of the memo is of a role, and says what the role's table says.
MemoOK ==
    \A k \in DOMAIN permissionCache : \E x \in Roles : \E p :
        /\ k = CacheKey(x, p)
        /\ permissionCache[k] \in BOOLEAN
        /\ permissionCache[k] <=> p \in PermissionsOf[x]

AnswerOK == answer # None => answer.request \in Requests /\ answer.ok \in BOOLEAN

IInv == MapsOK /\ MemoOK /\ AnswerOK

(***************************************************************************)
(* With such a memo the service answers from the table, for a permission   *)
(* it remembers and for one it does not.                                   *)
(***************************************************************************)
LEMMA TableAnswers ==
    ASSUME MemoOK, NEW x \in Roles, NEW p
    PROVE  hasPermission(permissionCache, x, p) <=> p \in PermissionsOf[x]
<1>1. CASE CacheKey(x, p) \in DOMAIN permissionCache
    <2>1. PICK y, o : /\ CacheKey(x, p) = CacheKey(y, o)
                      /\ permissionCache[CacheKey(x, p)] <=> o \in PermissionsOf[y]
        BY <1>1, Zenon DEF MemoOK
    <2>2. x = y /\ p = o
        <3>1. CacheKey(x, p) = CacheKey(y, o)
            BY <2>1, Zenon
        <3> QED  BY <3>1 DEF CacheKey
    <2>3. hasPermission(permissionCache, x, p) = permissionCache[CacheKey(x, p)]
        BY <1>1, Zenon DEF hasPermission
    <2> QED  BY <2>1, <2>2, <2>3, Zenon
<1>2. CASE CacheKey(x, p) \notin DOMAIN permissionCache
    BY <1>2 DEF hasPermission
<1> QED  BY <1>1, <1>2

LEMMA TypeEnough == IInv => TypeOK
<1> SUFFICES ASSUME IInv PROVE TypeOK  OBVIOUS
<1>1. \A k \in DOMAIN permissionCache : permissionCache[k] \in BOOLEAN
    BY DEF IInv, MemoOK
<1> QED  BY <1>1 DEF IInv, MapsOK, AnswerOK, TypeOK

LEMMA InitInvariant == Init => IInv
<1> SUFFICES ASSUME Init PROVE IInv  OBVIOUS
<1>1. Len(config) \in Nat
    BY ConfigsAssumption DEF Init
<1>2. MapsOK
    BY <1>1 DEF Init, MapsOK, Registered
<1> QED  BY <1>2 DEF Init, IInv, MemoOK, AnswerOK

(***************************************************************************)
(* Registering adds the next route under its key, and no other changes.    *)
(***************************************************************************)
LEMMA RegisterKeeps == ASSUME MapsOK, Register PROVE MapsOK'
<1> DEFINE n == loaded + 1
           key == KeyOf(n)
<1>1. Len(config) \in Nat /\ loaded \in Nat
    BY ConfigsAssumption DEF MapsOK
<1>2. config' = config /\ loaded' = n /\ n \in 1..Len(config)
    BY <1>1 DEF Register
<1>3. Registered' = Registered \union {n}
    BY <1>1, <1>2 DEF Registered
<1>4. \A i : KeyOf(i)' = KeyOf(i)
    BY <1>2 DEF KeyOf
<1>5. routePermissions' = [k \in DOMAIN routePermissions \union {key} |->
                                IF k = key THEN config[n] ELSE routePermissions[k]]
    BY DEF Register, register, KeyOf
<1>6. DOMAIN routePermissions' = {KeyOf(i) : i \in Registered \union {n}}
    BY <1>5 DEF MapsOK
<1>7. \A k \in DOMAIN routePermissions' : \E i \in Registered \union {n} :
            k = KeyOf(i) /\ routePermissions'[k] = config[i]
    BY <1>5 DEF MapsOK
<1>8. pathPatterns' \in Seq(DOMAIN routePermissions')
    <2>1. pathPatterns' = pathPatterns \/ pathPatterns' = Append(pathPatterns, key)
        BY DEF Register, register, KeyOf
    <2>2. pathPatterns \in Seq(DOMAIN routePermissions')
        BY <1>5 DEF MapsOK
    <2> QED  BY <1>5, <2>1, <2>2
<1> QED  BY <1>1, <1>2, <1>3, <1>4, <1>6, <1>7, <1>8 DEF MapsOK

(***************************************************************************)
(* A decision by role adds to the memo only what it asked of that role.    *)
(***************************************************************************)
LEMMA DecideByRoleKeeps ==
    ASSUME MemoOK, NEW q \in Requests, DecideByRole(q)
    PROVE  MemoOK'
<1> DEFINE x == q.token.userType
           required == getRequiredPermissions(q)
           all == requiresAllPermissions(q)
<1>1. x \in Roles
    BY DEF DecideByRole, Asks, Authenticated, Payload
<1>2. permissionCache' = Remembered(permissionCache, x, required, all)
    BY DEF DecideByRole
<1> SUFFICES ASSUME NEW k \in DOMAIN permissionCache'
             PROVE  \E y \in Roles : \E p :
                        /\ k = CacheKey(y, p)
                        /\ permissionCache'[k] \in BOOLEAN
                        /\ permissionCache'[k] <=> p \in PermissionsOf[y]
    BY DEF MemoOK, CacheKey
<1>3. CASE k \in DOMAIN permissionCache
    <2>1. permissionCache'[k] = permissionCache[k]
        BY <1>2, <1>3 DEF Remembered
    <2> QED  BY <1>3, <2>1 DEF MemoOK
<1>4. CASE k \notin DOMAIN permissionCache
    <2> DEFINE asked == {i \in DOMAIN required :
                            \A j \in Stops(permissionCache, x, required, all) : i <= j}
    <2>1. k \in {CacheKey(x, required[i]) : i \in asked}
        BY <1>2, <1>4 DEF Remembered
    <2> DEFINE has == \E i \in asked : k = CacheKey(x, required[i])
                                        /\ required[i] \in PermissionsOf[x]
    <2>2. permissionCache'[k] = has
        BY <1>2, <1>4, Zenon DEF Remembered
    <2>3. PICK i \in asked : k = CacheKey(x, required[i])
        BY <2>1
    <2>4. \A j : CacheKey(x, required[j]) = CacheKey(x, required[i]) => required[j] = required[i]
        BY DEF CacheKey
    <2>5. has <=> required[i] \in PermissionsOf[x]
        BY <2>3, <2>4
    <2>6. permissionCache'[k] \in BOOLEAN /\ (permissionCache'[k] <=> has)
        BY <2>2, Zenon
    <2> QED  BY <1>1, <2>3, <2>5, <2>6
<1> QED  BY <1>3, <1>4

LEMMA NextInvariant == IInv /\ [Next]_vars => IInv'
<1> SUFFICES ASSUME IInv, [Next]_vars PROVE IInv'  OBVIOUS
<1> USE DEF IInv
<1>1. CASE Register
    <2>1. MapsOK'  BY <1>1, RegisterKeeps
    <2>2. UNCHANGED <<permissionCache, answer>>  BY <1>1 DEF Register
    <2> QED  BY <2>1, <2>2 DEF MemoOK, AnswerOK, CacheKey
<1>2. ASSUME NEW q \in Requests, DecideByToken(q) PROVE IInv'
    <2>1. UNCHANGED <<config, loaded, routePermissions, pathPatterns, permissionCache>>
        BY <1>2 DEF DecideByToken
    <2>2. AnswerOK'  BY <1>2 DEF DecideByToken, Answer, Admits, AnswerOK
    <2>3. MapsOK'  BY <2>1 DEF MapsOK, Registered, KeyOf
    <2>4. MemoOK'  BY <2>1 DEF MemoOK
    <2> QED  BY <2>2, <2>3, <2>4
<1>3. ASSUME NEW q \in Requests, DecideByRole(q) PROVE IInv'
    <2>1. UNCHANGED <<config, loaded, routePermissions, pathPatterns>>
        BY <1>3 DEF DecideByRole
    <2>2. MapsOK'  BY <2>1 DEF MapsOK, Registered, KeyOf
    <2>3. MemoOK'  BY <1>3, DecideByRoleKeeps
    <2>4. AnswerOK'  BY <1>3 DEF DecideByRole, Answer, Admits, AnswerOK
    <2> QED  BY <2>2, <2>3, <2>4
<1>4. CASE ClearCache
    <2>1. UNCHANGED <<config, loaded, routePermissions, pathPatterns, answer>>
        BY <1>4 DEF ClearCache
    <2>2. MapsOK' /\ AnswerOK'
        BY <2>1 DEF MapsOK, AnswerOK, Registered, KeyOf
    <2>3. MemoOK'
        BY <1>4 DEF ClearCache, MemoOK
    <2> QED  BY <2>2, <2>3
<1>5. CASE UNCHANGED vars
    <2>1. MapsOK' /\ AnswerOK'
        BY <1>5 DEF vars, MapsOK, AnswerOK, Registered, KeyOf
    <2>2. MemoOK'
        BY <1>5 DEF vars, MemoOK
    <2> QED  BY <2>1, <2>2
<1> QED  BY <1>1, <1>2, <1>3, <1>4, <1>5 DEF Next

LEMMA Invariant == Spec => []IInv
<1>1. Init => IInv  BY InitInvariant
<1>2. IInv /\ [Next]_vars => IInv'  BY NextInvariant
<1> QED  BY <1>1, <1>2, PTL DEF Spec

(***************************************************************************)
(* The keys of the Maps are those of the registered routes, and a pattern  *)
(* always has its route.                                                   *)
(***************************************************************************)
THEOREM TypeCorrect == Spec => []TypeOK
<1>1. IInv => TypeOK  BY TypeEnough
<1> QED  BY <1>1, Invariant, PTL

(***************************************************************************)
(* Flags count for the merged guard where their decorators would count.    *)
(***************************************************************************)
LEMMA FlagsDecorate == \A q, flag : Flagged(q, flag) <=> flag \in Decorated(q)
BY Zenon DEF Flagged, Decorated

LEMMA MergedAlike ==
    ASSUME NEW q \in Requests, Expressible(q)
    PROVE  RouterPermissionsGuard(q) = FormerGuards(q)
<1> DEFINE marks == Decorated(q)
           required == getRequiredPermissions(q)
           user == q.token
           granted == Granted(permissionCache, user.userType, required, FALSE)
           opened == "isPublic" \in marks \/ "isAdmin" \in marks
           settled == /\ user \in Payload
                      /\ "isTwoFactorVerify" \in marks \/ ~user.enabled \/ user.verified
<1>2. "isRefreshToken" \notin marks /\ "isPublicWithUser" \notin marks
    BY DEF Expressible, Flags, Skips
<1>3. Skipped(q) <=> opened
    BY <1>2, FlagsDecorate DEF Skipped, Skips
<1>4. Authenticated(q) <=> settled
    BY FlagsDecorate DEF Authenticated
<1>5. required # <<>> => ~requiresAllPermissions(q)
    BY DEF Expressible
<1>6. "isAdmin" \in marks => required = <<>>
    BY DEF Expressible
<1>7. settled => user # None
    BY NoneAssumption
<1>8. CASE opened
    <2>1. RouterPermissionsGuard(q) = Pass(None)
        BY <1>3, <1>8 DEF RouterPermissionsGuard, Admits
    <2>2. JwtAuthGuard(marks, user) = Pass(None)
        BY <1>8 DEF JwtAuthGuard
    <2>3. AnyPermissionGuard(marks, required, None) = Pass(None)
        BY <1>6, <1>8 DEF AnyPermissionGuard
    <2> QED  BY <2>1, <2>2, <2>3 DEF FormerGuards, Pass
<1>9. CASE ~opened /\ ~settled
    <2>1. RouterPermissionsGuard(q) = Refuse
        BY <1>3, <1>4, <1>9 DEF RouterPermissionsGuard, Admits, Asks
    <2>2. JwtAuthGuard(marks, user) = Refuse
        BY <1>2, <1>9 DEF JwtAuthGuard
    <2> QED  BY <2>1, <2>2 DEF FormerGuards, Refuse
<1>10. CASE ~opened /\ settled
    <2>1. JwtAuthGuard(marks, user) = Pass(user)
        BY <1>10 DEF JwtAuthGuard
    <2>2. FormerGuards(q) = AnyPermissionGuard(marks, required, user)
        BY <2>1 DEF FormerGuards, Pass
    <2>3. ~Skipped(q) /\ Authenticated(q)
        BY <1>3, <1>4, <1>10, Zenon
    <2>4. user # None
        BY <1>7, <1>10, Zenon
    <2>5. CASE required = <<>>
        <3>1. RouterPermissionsGuard(q) = Pass(user)
            BY <2>3, <2>5, Zenon DEF RouterPermissionsGuard, Admits
        <3>2. AnyPermissionGuard(marks, required, user) = Pass(user)
            BY <2>5, Zenon DEF AnyPermissionGuard
        <3> QED  BY <2>2, <3>1, <3>2, Zenon
    <2>6. CASE required # <<>>
        <3>1. requiresAllPermissions(q) \in BOOLEAN
            BY Zenon DEF requiresAllPermissions
        <3>2. requiresAllPermissions(q) = FALSE
            BY <1>5, <2>6, <3>1, Zenon
        <3>3. Asks(q) <=> user.userType # None
            BY <2>3, <2>6, Zenon DEF Asks
        <3>4. Admits(q) <=> user.userType # None /\ granted
            BY <2>3, <2>6, <3>2, <3>3, Zenon DEF Admits
        <3>5. RouterPermissionsGuard(q) =
                    IF user.userType # None /\ granted THEN Pass(user) ELSE Refuse
            BY <2>3, <3>4, Zenon DEF RouterPermissionsGuard
        <3>6. AnyPermissionGuard(marks, required, user) =
                    IF user.userType # None /\ granted THEN Pass(user) ELSE Refuse
            BY <1>10, <2>4, <2>6, Zenon DEF AnyPermissionGuard
        <3> QED  BY <2>2, <3>5, <3>6, Zenon
    <2> QED  BY <2>5, <2>6
<1> QED  BY <1>8, <1>9, <1>10

(***************************************************************************)
(* At every moment, whatever is registered and remembered, the merged      *)
(* guard decides as the two guards it replaced.                            *)
(***************************************************************************)
THEOREM MergedCorrect == Spec => []MergedAsBefore
<1>1. MergedAsBefore  BY MergedAlike DEF MergedAsBefore
<1> QED  BY <1>1, PTL

-----------------------------------------------------------------------------
(* Handlers and those they are meant for *)

\* One of a handler's own guards is asked, unless an earlier one has thrown.
AskGuard(local, handler, visit, guard, sofar) ==
    IF ~sofar.ok THEN sofar
    ELSE IF guard = "RefreshTokenGuard"
         THEN RefreshTokenGuard(handler.marks, visit.refresh, sofar.user)
         ELSE RecaptchaGuard(local, handler.marks, visit.captcha, sofar.user)

\* The fold over a handler's guards, for the two lengths there are.
LEMMA NoGuard ==
    ASSUME NEW local, NEW handler, NEW visit, NEW user, handler.guards = <<>>
    PROVE  OwnGuards(local, handler, visit, user) = Pass(user)
<1> DEFINE G(f) == [s \in SUBSET (DOMAIN handler.guards) |->
                        IF s = {} THEN Pass(user)
                        ELSE LET x == Max(s)
                             IN AskGuard(local, handler, visit, handler.guards[x], f[s \ {x}])]
           F == CHOOSE f : f = G(f)
<1>1. OwnGuards(local, handler, visit, user) = F[DOMAIN handler.guards]
  BY DEF OwnGuards, FoldLeft, MapThenFoldSet, AskGuard
<1>2. DOMAIN handler.guards = {}
  OBVIOUS
<1>3. \E f : f = G(f)
  <2> DEFINE w == [s \in SUBSET {} |-> Pass(user)]
  <2>1. w = G(w)
    BY <1>2
  <2> QED BY <2>1
<1>4. F = G(F)
  BY <1>3
<1> QED BY <1>1, <1>2, <1>4

LEMMA OneGuard ==
    ASSUME NEW local, NEW handler, NEW visit, NEW user, NEW guard, handler.guards = <<guard>>
    PROVE  OwnGuards(local, handler, visit, user)
                = AskGuard(local, handler, visit, guard, Pass(user))
<1> DEFINE Ask(a) == AskGuard(local, handler, visit, guard, a)
           G(f) == [s \in SUBSET (DOMAIN handler.guards) |->
                        IF s = {} THEN Pass(user)
                        ELSE LET x == Max(s)
                             IN AskGuard(local, handler, visit, handler.guards[x], f[s \ {x}])]
           F == CHOOSE f : f = G(f)
<1>1. OwnGuards(local, handler, visit, user) = F[DOMAIN handler.guards]
  BY DEF OwnGuards, FoldLeft, MapThenFoldSet, AskGuard
<1>2. DOMAIN handler.guards = {1} /\ handler.guards[1] = guard
  OBVIOUS
<1>3. Max({1}) = 1 /\ {1} \ {1} = {}
  BY DEF Max
<1>4. \A f : G(f) = [s \in SUBSET {1} |-> IF s = {} THEN Pass(user) ELSE Ask(f[{}])]
  <2> TAKE f
  <2> DEFINE old(s) == IF s = {} THEN Pass(user)
                       ELSE LET x == Max(s)
                            IN AskGuard(local, handler, visit, handler.guards[x], f[s \ {x}])
             new(s) == IF s = {} THEN Pass(user) ELSE Ask(f[{}])
  <2>1. old({1}) = new({1})
    BY <1>2, <1>3
  <2>2. \A s \in SUBSET {1} : s = {} \/ s = {1}
    OBVIOUS
  <2>3. \A s \in SUBSET {1} : old(s) = new(s)
    BY <2>1, <2>2
  <2>4. G(f) = [s \in SUBSET {1} |-> old(s)]
    BY <1>2
  <2> HIDE DEF old, new
  <2>5. G(f) = [s \in SUBSET {1} |-> new(s)]
    BY <2>3, <2>4
  <2> QED BY <2>5 DEF new
<1>5. \E f : f = G(f)
  <2> DEFINE w == [s \in SUBSET {1} |-> IF s = {} THEN Pass(user) ELSE Ask(Pass(user))]
  <2>1. w[{}] = Pass(user)
    OBVIOUS
  <2>2. w = [s \in SUBSET {1} |-> IF s = {} THEN Pass(user) ELSE Ask(w[{}])]
    BY <2>1
  <2>3. w = G(w)
    BY <1>4, <2>2
  <2> QED BY <2>3
<1>6. F = G(F)
  BY <1>5
<1> HIDE DEF F, G
<1>7. F = [s \in SUBSET {1} |-> IF s = {} THEN Pass(user) ELSE Ask(F[{}])]
  BY <1>4, <1>6
<1>8. F[{}] = Pass(user) /\ F[{1}] = Ask(F[{}])
  BY <1>7
<1> QED BY <1>1, <1>2, <1>8

\* Whether the router's guard leaves a visit to the others.
StepsBack(h, way) ==
    h.marks = {"isPublic"} \/ (h.guards = <<"RefreshTokenGuard">> /\ way = AsWritten(h))

\* What the router's guard makes of a visit to a handler the registry agrees on.
LEMMA RoutedAs ==
    ASSUME NEW h, NEW v, Conventional(h), Agrees(h), NEW way \in Ways(h),
           NEW q, q = Called(h, way, v)
    PROVE  /\ q.marks = h.marks /\ q.token = v.token
           /\ StepsBack(h, way) => RouterPermissionsGuard(q) = Pass(None)
           /\ ~StepsBack(h, way)
                => RouterPermissionsGuard(q) = IF Authenticated(q) THEN Pass(v.token) ELSE Refuse
           /\ Flagged(q, "isTwoFactorVerify") <=> "isTwoFactorVerify" \in h.marks
<1>1. /\ q.path = way[1] /\ q.method = way[2] /\ q.marks = h.marks /\ q.token = v.token
      /\ RouteOf(q) = getRoutePermission(way[1], way[2])
  BY DEF RouteOf, Called
<1>2. "RefreshTokenGuard" \in ToSet(h.guards) <=> h.guards = <<"RefreshTokenGuard">>
  BY DEF Conventional, ToSet
<1>3. CASE way = AsWritten(h)
  <2>1. way[1] = h.path /\ way[2] = h.method
    BY <1>3 DEF AsWritten
  <2>2. RouteOf(q) = RouteOf(h) /\ RouteOf(q) = getRoutePermission(h.path, h.method)
    BY <1>1, <2>1 DEF RouteOf
  <2>3. getRequiredPermissions(q) = <<>>
    BY <2>2 DEF Agrees, getRequiredPermissions
  <2>4. h.marks \union (IF h.guards = <<"RefreshTokenGuard">> THEN {"isRefreshToken"} ELSE {})
          = IF RouteOf(q) = None THEN {} ELSE RouteOf(q).flags
    BY <1>2, <2>2 DEF Agrees
  <2>5. Skipped(q) <=> StepsBack(h, way)
    BY <1>1, <1>3, <2>4 DEF Skipped, Flagged, Skips, Conventional, StepsBack
  <2>6. Admits(q) <=> Skipped(q) \/ Authenticated(q)
    BY <2>3 DEF Admits, Asks
  <2>7. Flagged(q, "isTwoFactorVerify") <=> "isTwoFactorVerify" \in h.marks
    BY <1>1, <2>4 DEF Flagged
  <2> QED BY <1>1, <2>5, <2>6, <2>7 DEF RouterPermissionsGuard
<1>4. CASE way # AsWritten(h)
  <2>1. RouteOf(q) = None
    BY <1>1, <1>4 DEF Agrees
  <2>2. getRequiredPermissions(q) = <<>>
    BY <2>1 DEF getRequiredPermissions
  <2>3. Skipped(q) <=> StepsBack(h, way)
    BY <1>1, <1>4, <2>1 DEF Skipped, Flagged, Skips, Conventional, StepsBack
  <2>4. Admits(q) <=> Skipped(q) \/ Authenticated(q)
    BY <2>2 DEF Admits, Asks
  <2>5. Flagged(q, "isTwoFactorVerify") <=> "isTwoFactorVerify" \in h.marks
    BY <1>1, <2>1 DEF Flagged
  <2> QED BY <1>1, <2>3, <2>4, <2>5 DEF RouterPermissionsGuard
<1> QED BY <1>3, <1>4

(***************************************************************************)
(* Where decorators and registry agree, and handlers are written in the    *)
(* three ways, each is reached, however its path is spelt, only by visits  *)
(* it is meant for, by all of those that TurnedAway does not name, and     *)
(* with the user it goes on to use: for any routes, memo, handlers and     *)
(* visits.  Flags of the registry, RefreshTokenGuard, RecaptchaGuard and   *)
(* AuthToken leave no gap between them.                                    *)
(***************************************************************************)
THEOREM ReachedAsMeant ==
    ASSUME NEW handlers, NEW visits, \A h \in handlers : Conventional(h) /\ Agrees(h)
    PROVE  ReachedRightly(handlers, visits)
<1> SUFFICES ASSUME NEW h \in handlers, NEW v \in visits, NEW local \in BOOLEAN,
                    NEW way \in Ways(h)
             PROVE  /\ Reaches(local, h, way, v).ok
                          <=> Meant(local, h, v) /\ ~TurnedAway(h, way, v)
                    /\ Reaches(local, h, way, v).ok
                          => Reaches(local, h, way, v).user = Bearer(h, v)
  BY DEF ReachedRightly
<1> DEFINE q == Called(h, way, v)
           routed == RouterPermissionsGuard(q)
           own == OwnGuards(local, h, v, routed.user)
<1>0. Conventional(h) /\ Agrees(h)
  OBVIOUS
<1>1. Reaches(local, h, way, v)
        = IF routed.ok /\ own.ok THEN Taken(h.takes, own.user) ELSE Refuse
  BY DEF Reaches
<1>2. /\ q.marks = h.marks /\ q.token = v.token
      /\ StepsBack(h, way) => routed = Pass(None)
      /\ ~StepsBack(h, way) => routed = IF Authenticated(q) THEN Pass(v.token) ELSE Refuse
      /\ Flagged(q, "isTwoFactorVerify") <=> "isTwoFactorVerify" \in h.marks
  BY <1>0, RoutedAs
<1>3. \A guard : guard \in ToSet(h.guards) <=> h.guards = <<guard>>
  BY <1>0 DEF Conventional, ToSet
<1>4. h.guards = <<>> => own = Pass(routed.user)
  BY NoGuard
<1>5. \A guard : h.guards = <<guard>> =>
            own = AskGuard(local, h, v, guard, Pass(routed.user))
  BY OneGuard
<1>9. "RefreshTokenGuard" \in ToSet(h.guards) <=> h.guards = <<"RefreshTokenGuard">>
  BY <1>3
<1> HIDE DEF own, q
<1>6. CASE h.marks = {"isPublic"} /\ h.takes = "nothing"
           /\ h.guards \in {<<>>, <<"RecaptchaGuard">>}
  <2>1. routed = Pass(None)
    BY <1>2, <1>6 DEF StepsBack
  <2>2. h.guards # <<"RefreshTokenGuard">> /\ ~TurnedAway(h, way, v)
    BY <1>6, <1>9 DEF TurnedAway
  <2>3. Bearer(h, v) = None
    BY <1>3, <1>6, <2>2 DEF Bearer
  <2>4. Taken(h.takes, None) = Pass(None)
    BY <1>6 DEF Taken
  <2>5. CASE h.guards = <<>>
    <3>1. own = Pass(None)
      BY <1>4, <2>1, <2>5 DEF Pass
    <3>2. Meant(local, h, v)
      BY <1>3, <1>6, <2>5 DEF Meant
    <3> QED BY <1>1, <2>1, <2>2, <2>3, <2>4, <3>1, <3>2 DEF Pass
  <2>6. CASE h.guards = <<"RecaptchaGuard">>
    <3>1. own = IF local \/ v.captcha = "accepted" THEN Pass(None) ELSE Refuse
      BY <1>5, <1>6, <2>1, <2>6 DEF AskGuard, RecaptchaGuard, verify, Pass
    <3>2. Meant(local, h, v) <=> local \/ v.captcha = "accepted"
      BY <1>3, <1>6, <2>6 DEF Meant
    <3> QED BY <1>1, <2>1, <2>2, <2>3, <2>4, <3>1, <3>2 DEF Pass, Refuse
  <2> QED BY <1>6, <2>5, <2>6
<1>7. CASE h.marks = {} /\ h.takes = "AuthToken" /\ h.guards = <<"RefreshTokenGuard">>
  <2>1. /\ ~TurnedAway(h, way, v) => routed.ok
        /\ TurnedAway(h, way, v) => routed = Refuse
    <3>1. CASE way = AsWritten(h)
      BY <1>2, <1>7, <3>1 DEF TurnedAway, Pass, StepsBack
    <3>2. CASE way # AsWritten(h)
      <4>1. Authenticated(q) <=> ~TurnedAway(h, way, v)
        <5>1. Authenticated(q) <=> v.token \in Payload /\ (~v.token.enabled \/ v.token.verified)
          BY <1>2, <1>7 DEF Authenticated
        <5> QED BY <1>7, <1>9, <3>2, <5>1 DEF TurnedAway
      <4>2. ~StepsBack(h, way)
        BY <1>7, <3>2 DEF StepsBack
      <4> QED BY <1>2, <4>1, <4>2 DEF Pass
    <3> QED BY <3>1, <3>2
  <2>2. own = IF v.refresh \in Payload THEN Pass(v.refresh) ELSE Refuse
    BY <1>5, <1>7 DEF AskGuard, RefreshTokenGuard, Pass
  <2>3. Bearer(h, v) = v.refresh
    BY <1>3, <1>7 DEF Bearer
  <2>4. Meant(local, h, v) <=> v.refresh \in Payload
    BY <1>3, <1>7, <2>3 DEF Meant
  <2>5. v.refresh \in Payload => Taken(h.takes, v.refresh) = Pass(v.refresh)
    BY NoneAssumption DEF Taken
  <2> QED BY <1>1, <2>1, <2>2, <2>3, <2>4, <2>5 DEF Pass, Refuse
<1>8. CASE h.marks \subseteq {"isTwoFactorVerify"} /\ h.guards = <<>>
           /\ h.takes \in {"AuthToken", "CurrentUser", "UserId"}
  <2>1. routed = IF Authenticated(q) THEN Pass(v.token) ELSE Refuse
    <3>1. h.marks # {"isPublic"}
      BY <1>8
    <3>2. h.guards # <<"RefreshTokenGuard">>
      BY <1>8
    <3> QED BY <1>2, <3>1, <3>2 DEF StepsBack
  <2>2. own = Pass(routed.user)
    BY <1>4, <1>8
  <2>3. "RefreshTokenGuard" \notin ToSet(h.guards) /\ ~TurnedAway(h, way, v)
    BY <1>8, <1>9 DEF TurnedAway
  <2>4. Bearer(h, v) = v.token
    BY <1>8, <2>3 DEF Bearer
  <2>5. Meant(local, h, v) <=> Authenticated(q)
    <3>1. v.token \in Payload => v.token.enabled \in BOOLEAN /\ v.token.verified \in BOOLEAN
      BY DEF Payload
    <3> QED BY <1>2, <1>8, <2>3, <2>4, <3>1 DEF Meant, Authenticated
  <2>6. Authenticated(q) => Taken(h.takes, v.token) = Pass(v.token)
    BY <1>2, NoneAssumption DEF Taken, Authenticated
  <2> QED BY <1>1, <2>1, <2>2, <2>3, <2>4, <2>5, <2>6 DEF Pass, Refuse
<1> QED BY <1>0, <1>6, <1>7, <1>8 DEF Conventional

-----------------------------------------------------------------------------
(* The invariant of the lookup adds the order of things: the route under a *)
(* key is the newest of that key, and pathPatterns lists every key with a  *)
(* parameter, in the order of their eldest routes.                         *)

\* The newest and the eldest of the registered routes with its key.
Newest(i) == \A j \in Registered : KeyOf(j) = KeyOf(i) => j <= i
Eldest(i) == \A j \in Registered : KeyOf(j) = KeyOf(i) => i <= j

\* Whether a key was first registered before another.
Before(k, l) ==
    \E i \in Registered : KeyOf(i) = k /\ \A j \in Registered : KeyOf(j) = l => i < j

RoutesNewest ==
    \A k \in DOMAIN routePermissions : \E i \in Registered :
        KeyOf(i) = k /\ Newest(i) /\ routePermissions[k] = config[i]

KeysAged == \A k \in DOMAIN routePermissions : \E i \in Registered : KeyOf(i) = k /\ Eldest(i)

PatternsListed ==
    \A i \in Registered :
        HasParam(config[i].path) => \E x \in DOMAIN pathPatterns : pathPatterns[x] = KeyOf(i)

PatternsOrdered ==
    /\ \A x \in DOMAIN pathPatterns : HasParam(pathPatterns[x][2])
    /\ \A x, y \in DOMAIN pathPatterns : x < y => Before(pathPatterns[x], pathPatterns[y])

OrderOK == RoutesNewest /\ KeysAged /\ PatternsListed /\ PatternsOrdered

-----------------------------------------------------------------------------
(* Registration keeps the order *)

\* One registration, the n-th, in terms of the numbers of routes.
Step(n) ==
    /\ n \in Nat /\ \A i \in Registered : i \in Nat /\ i < n
    /\ Registered' = Registered \union {n}
    /\ config' = config /\ \A i : KeyOf(i)' = KeyOf(i)
    /\ routePermissions' = [k \in DOMAIN routePermissions \union {KeyOf(n)} |->
                                IF k = KeyOf(n) THEN config[n] ELSE routePermissions[k]]
    /\ pathPatterns' = IF HasParam(config[n].path) /\ ~Contains(pathPatterns, KeyOf(n))
                       THEN Append(pathPatterns, KeyOf(n)) ELSE pathPatterns

LEMMA RegisterStep == ASSUME MapsOK, Register PROVE \E n : Step(n)
<1> PICK n : n = loaded + 1  OBVIOUS
<1>1. Len(config) \in Nat /\ loaded \in Nat
    BY ConfigsAssumption DEF MapsOK
<1>2. config' = config /\ loaded' = n
    BY DEF Register
<1>3. n \in Nat /\ \A i \in Registered : i \in Nat /\ i < n
    BY <1>1 DEF Registered
<1>4. Registered' = Registered \union {n}
    BY <1>1, <1>2 DEF Registered
<1>5. \A i : KeyOf(i)' = KeyOf(i)
    BY <1>2 DEF KeyOf
<1> QED  BY <1>2, <1>3, <1>4, <1>5 DEF Step, Register, register, KeyOf

LEMMA RoutesNewestKept == ASSUME RoutesNewest, NEW n, Step(n) PROVE RoutesNewest'
<1> USE DEF Step
<1> SUFFICES ASSUME NEW k \in DOMAIN routePermissions'
             PROVE  \E i \in Registered' :
                        KeyOf(i)' = k /\ Newest(i)' /\ routePermissions'[k] = config'[i]
    BY DEF RoutesNewest
<1>1. CASE k = KeyOf(n)
    <2>1. Newest(n)'
        BY DEF Newest
    <2> QED  BY <1>1, <2>1
<1>2. CASE k # KeyOf(n)
    <2>1. PICK i \in Registered : KeyOf(i) = k /\ Newest(i) /\ routePermissions[k] = config[i]
        BY <1>2 DEF RoutesNewest
    <2>2. Newest(i)'
        BY <1>2, <2>1 DEF Newest
    <2> QED  BY <1>2, <2>1, <2>2
<1> QED  BY <1>1, <1>2

LEMMA KeysAgedKept == ASSUME MapsOK, KeysAged, NEW n, Step(n) PROVE KeysAged'
<1> USE DEF Step
<1> SUFFICES ASSUME NEW k \in DOMAIN routePermissions'
             PROVE  \E i \in Registered' : KeyOf(i)' = k /\ Eldest(i)'
    BY DEF KeysAged
<1>1. CASE k \in DOMAIN routePermissions
    <2>1. PICK i \in Registered : KeyOf(i) = k /\ Eldest(i)
        BY <1>1 DEF KeysAged
    <2>2. Eldest(i)'
        BY <2>1 DEF Eldest
    <2> QED  BY <2>1, <2>2
<1>2. CASE k \notin DOMAIN routePermissions
    <2>1. k = KeyOf(n)
        BY <1>2
    <2>2. \A j \in Registered : KeyOf(j) # k
        BY <1>2 DEF MapsOK
    <2>3. Eldest(n)'
        BY <2>1, <2>2 DEF Eldest
    <2> QED  BY <2>1, <2>3
<1> QED  BY <1>1, <1>2

\* A key is listed when its first route has come, or was before.
LEMMA PatternsListedKept == ASSUME MapsOK, PatternsListed, NEW n, Step(n) PROVE PatternsListed'
<1> USE DEF Step
<1>1. Len(pathPatterns) \in Nat /\ DOMAIN pathPatterns = 1..Len(pathPatterns)
    BY DEF MapsOK
<1>2. \A x \in DOMAIN pathPatterns : x \in DOMAIN pathPatterns' /\ pathPatterns'[x] = pathPatterns[x]
    BY <1>1 DEF MapsOK
<1> SUFFICES ASSUME NEW i \in Registered', HasParam(config[i].path)
             PROVE  \E x \in DOMAIN pathPatterns' : pathPatterns'[x] = KeyOf(i)
    BY DEF PatternsListed, HasParam
<1>3. CASE i \in Registered
    BY <1>2, <1>3 DEF PatternsListed
<1>4. CASE i = n /\ Contains(pathPatterns, KeyOf(n))
    BY <1>1, <1>2, <1>4 DEF Contains
<1>5. CASE i = n /\ ~Contains(pathPatterns, KeyOf(n))
    <2>1. pathPatterns' = Append(pathPatterns, KeyOf(n))
        BY <1>5
    <2>2. /\ Len(pathPatterns) + 1 \in DOMAIN pathPatterns'
          /\ pathPatterns'[Len(pathPatterns) + 1] = KeyOf(n)
        BY <1>1, <2>1 DEF MapsOK
    <2> QED  BY <1>5, <2>2
<1> QED  BY <1>3, <1>4, <1>5

LEMMA PatternsOrderedKept ==
    ASSUME MapsOK, PatternsListed, PatternsOrdered, NEW n, Step(n)
    PROVE  PatternsOrdered'
<1> USE DEF Step
<1>1. Len(pathPatterns) \in Nat /\ DOMAIN pathPatterns = 1..Len(pathPatterns)
    BY DEF MapsOK
<1>2. ASSUME NEW k, NEW l, Before(k, l) PROVE Before(k, l)'
    BY <1>2 DEF Before
<1>3. CASE pathPatterns' = pathPatterns
    BY <1>2, <1>3 DEF PatternsOrdered, HasParam
<1>4. CASE pathPatterns' # pathPatterns
    <2>1. /\ HasParam(config[n].path) /\ ~Contains(pathPatterns, KeyOf(n))
          /\ pathPatterns' = Append(pathPatterns, KeyOf(n))
        BY <1>4
    <2>2. /\ DOMAIN pathPatterns' = 1..(Len(pathPatterns) + 1)
          /\ \A x \in DOMAIN pathPatterns : pathPatterns'[x] = pathPatterns[x]
          /\ pathPatterns'[Len(pathPatterns) + 1] = KeyOf(n)
        BY <1>1, <2>1 DEF MapsOK
    <2>3. \A j \in Registered : KeyOf(j) # KeyOf(n)
        BY <1>1, <2>1 DEF PatternsListed, Contains, KeyOf
    <2>4. \A x \in DOMAIN pathPatterns : Before(pathPatterns[x], KeyOf(n))'
        <3> SUFFICES ASSUME NEW x \in DOMAIN pathPatterns
                     PROVE  Before(pathPatterns[x], KeyOf(n))'
            OBVIOUS
        <3>1. PICK i \in Registered : KeyOf(i) = pathPatterns[x]
            BY DEF MapsOK
        <3> QED  BY <2>2, <2>3, <3>1 DEF Before
    <2> QED  BY <1>1, <1>2, <2>1, <2>2, <2>4 DEF PatternsOrdered, HasParam, KeyOf
<1> QED  BY <1>3, <1>4

-----------------------------------------------------------------------------
(* The reference, in terms of the order of registration *)

LEMMA MinIs ==
    ASSUME NEW S \in SUBSET Nat, NEW m \in S, \A y \in S : m <= y
    PROVE  Min(S) = m
<1>1. \A x \in S : (\A y \in S : x <= y) => x = m
    BY SMT
<1> QED  BY <1>1 DEF Min

\* A set of natural numbers that is not empty has a least one.
LEMMA LeastOf ==
    ASSUME NEW S \in SUBSET Nat, S # {}
    PROVE  \E m \in S : \A y \in S : m <= y
<1>1. \E m \in S : \A y \in S : ~(<<y, m>> \in OpToRel(<, Nat))
    BY NatLessThanWellFounded, WFMin, Zenon
<1>2. \A m, y \in Nat : ~(<<y, m>> \in OpToRel(<, Nat)) => m <= y
    BY DEF OpToRel
<1> QED  BY <1>1, <1>2

LEMMA Numbers == ASSUME MapsOK PROVE Registered \in SUBSET Nat
BY ConfigsAssumption DEF MapsOK, Registered

LEMMA AgeIs ==
    ASSUME MapsOK, NEW i \in Registered, Eldest(i),
           NEW j \in Registered, KeyOf(j) = KeyOf(i)
    PROVE  Age(j) = i
<1> DEFINE S == {l \in Registered : KeyOf(l) = KeyOf(j)}
<1>1. S \in SUBSET Nat /\ i \in S
    BY Numbers
<1>2. \A l \in S : i <= l
    BY DEF Eldest
<1>3. Min(S) = i
    BY <1>1, <1>2, MinIs
<1> QED  BY <1>3 DEF Age

\* The age of a route is that of its key.
LEMMA AgeOfKey ==
    ASSUME MapsOK, KeysAged, NEW j \in Registered
    PROVE  \E i \in Registered : KeyOf(i) = KeyOf(j) /\ Eldest(i) /\ Age(j) = i
<1>1. PICK i \in Registered : KeyOf(i) = KeyOf(j) /\ Eldest(i)
    BY DEF MapsOK, KeysAged
<1> QED  BY <1>1, AgeIs

LEMMA AgeBefore ==
    ASSUME MapsOK, KeysAged, NEW i \in Registered, NEW j \in Registered,
           Before(KeyOf(i), KeyOf(j))
    PROVE  Age(i) < Age(j)
<1>1. PICK a \in Registered : KeyOf(a) = KeyOf(i) /\ Eldest(a) /\ Age(i) = a
    BY AgeOfKey
<1>2. PICK b \in Registered : KeyOf(b) = KeyOf(j) /\ Eldest(b) /\ Age(j) = b
    BY AgeOfKey
<1>3. PICK c \in Registered : KeyOf(c) = KeyOf(i) /\ \A l \in Registered : KeyOf(l) = KeyOf(j) => c < l
    BY DEF Before
<1>4. a <= c /\ c < b
    BY <1>1, <1>2, <1>3 DEF Eldest
<1> QED  BY <1>1, <1>2, <1>4, Numbers

\* No two routes are better than each other.
LEMMA BetterOneWay ==
    ASSUME MapsOK, KeysAged, NEW path, NEW i \in Registered, NEW j \in Registered,
           Better(i, j, path)
    PROVE  ~Better(j, i, path)
<1>1. PICK a \in Registered : KeyOf(a) = KeyOf(i) /\ Eldest(a) /\ Age(i) = a
    BY AgeOfKey
<1>2. PICK b \in Registered : KeyOf(b) = KeyOf(j) /\ Eldest(b) /\ Age(j) = b
    BY AgeOfKey
<1>3. a \in Nat /\ b \in Nat /\ i \in Nat /\ j \in Nat
    BY Numbers
<1>4. Class(i, path) \in Nat /\ Class(j, path) \in Nat
    BY DEF Class
<1>5. KeyOf(i) = KeyOf(j) => Class(i, path) = Class(j, path) /\ a = b
    <2>1. KeyOf(i) = KeyOf(j) => Class(i, path) = Class(j, path)
        BY DEF KeyOf, Class
    <2>2. KeyOf(i) = KeyOf(j) => a <= b /\ b <= a
        BY <1>1, <1>2 DEF Eldest
    <2> QED  BY <1>3, <2>1, <2>2
<1> QED  BY <1>1, <1>2, <1>3, <1>4, <1>5 DEF Better

-----------------------------------------------------------------------------
(* What a lookup finds *)

\* Registered paths are sequences.
LEMMA Paths ==
    ASSUME MapsOK, NEW i \in Registered
    PROVE  /\ config[i].path \in Seq(ToSet(config[i].path))
           /\ KeyOf(i) = <<config[i].method, config[i].path>>
<1>1. i \in DOMAIN config
    BY ConfigsAssumption DEF MapsOK, Registered
<1>2. IsRoute(config[i])
    BY <1>1, ConfigsAssumption DEF MapsOK, ToSet
<1> QED  BY <1>2, Zenon DEF IsRoute, KeyOf

LEMMA SameLength == ASSUME NEW m \in Nat, NEW n \in Nat, 1..m = 1..n PROVE m = n
<1>1. m # 0 => m \in 1..n
    OBVIOUS
<1>2. n # 0 => n \in 1..m
    OBVIOUS
<1> QED  BY <1>1, <1>2

\* A path is an instance of a pattern when its regular expression matches.
LEMMA InstanceMatches ==
    ASSUME NEW path, path \in Seq(ToSet(path)), NEW pattern, pattern \in Seq(ToSet(pattern))
    PROVE  Instance(path, pattern) <=> Matches(pattern, path)
<1> DEFINE filled(word) == [i \in DOMAIN pattern |->
                                IF pattern[i] \in Params THEN word[i] ELSE pattern[i]]
<1>1. /\ Len(path) \in Nat /\ DOMAIN path = 1..Len(path)
      /\ Len(pattern) \in Nat /\ DOMAIN pattern = 1..Len(pattern)
    OBVIOUS
<1>2. ASSUME Instance(path, pattern) PROVE Matches(pattern, path)
    <2>1. PICK word \in [DOMAIN pattern -> ToSet(path)] : path = filled(word)
        BY <1>2 DEF Instance
    <2>2. DOMAIN path = DOMAIN pattern
        BY <2>1
    <2>3. Len(path) = Len(pattern)
        BY <1>1, <2>2, SameLength
    <2>4. \A i \in DOMAIN pattern : pattern[i] \in Params \/ pattern[i] = path[i]
        BY <2>1
    <2> QED  BY <2>3, <2>4 DEF Matches
<1>3. ASSUME Matches(pattern, path) PROVE Instance(path, pattern)
    <2>1. DOMAIN path = DOMAIN pattern
        BY <1>1, <1>3 DEF Matches
    <2>2. path \in [DOMAIN pattern -> ToSet(path)]
        <3> DEFINE T == ToSet(path)
        <3>1. path \in Seq(T)
            OBVIOUS
        <3> HIDE DEF T
        <3>2. path \in [1..Len(path) -> T]
            BY <3>1
        <3> QED  BY <1>1, <2>1, <3>2 DEF T
    <2>3. path = filled(path)
        BY <1>3, <2>1, <2>2 DEF Matches
    <2> QED  BY <2>2, <2>3 DEF Instance
<1> QED  BY <1>2, <1>3

\* A route fits a path that is written as its own, or that its pattern matches.
Suits(i, path) ==
    \/ config[i].path = path
    \/ HasParam(config[i].path) /\ Matches(config[i].path, path)

LEMMA FitsSuits ==
    ASSUME MapsOK, NEW i \in Registered, NEW path, path \in Seq(ToSet(path)), NEW method
    PROVE  Fits(i, path, method) <=> config[i].method \in {method, ALL} /\ Suits(i, path)
<1> DEFINE pattern == config[i].path
<1>1. pattern \in Seq(ToSet(pattern))
    BY Paths
<1> HIDE DEF pattern
<1>2. Instance(path, pattern) <=> Matches(pattern, path)
    BY <1>1, InstanceMatches
<1>3. pattern = path => Matches(pattern, path)
    BY DEF Matches
<1>4. Matches(pattern, path) /\ ~HasParam(pattern) => pattern = path
    BY <1>1 DEF Matches, HasParam
<1> QED  BY <1>2, <1>3, <1>4 DEF pattern, Fits, Suits

\* A registered route under a key, the one that the Map holds.
Held(i) == Newest(i) /\ routePermissions[KeyOf(i)] = config[i]

LEMMA ExactHit ==
    ASSUME MapsOK, RoutesNewest, NEW path, NEW m, ExactKey(path, m) # {}
    PROVE  \E i \in Registered :
                /\ ExactKey(path, m) = {KeyOf(i)} /\ Held(i)
                /\ config[i].method = m /\ config[i].path = path
<1>1. <<m, path>> \in DOMAIN routePermissions /\ ExactKey(path, m) = {<<m, path>>}
    BY DEF ExactKey
<1>2. PICK i \in Registered : KeyOf(i) = <<m, path>> /\ Held(i)
    BY <1>1 DEF RoutesNewest, Held
<1> QED  BY <1>1, <1>2 DEF KeyOf

LEMMA ExactMiss ==
    ASSUME MapsOK, NEW path, NEW m, ExactKey(path, m) = {},
           NEW j \in Registered, config[j].method = m
    PROVE  config[j].path # path
BY DEF MapsOK, ExactKey, KeyOf

\* Among the patterns of a method the one found has the eldest key.
LEMMA PatternHit ==
    ASSUME MapsOK, OrderOK, NEW path, NEW m, ExactKey(path, m) = {}, PatternKey(path, m) # {}
    PROVE  \E i \in Registered :
                /\ PatternKey(path, m) = {KeyOf(i)} /\ Held(i)
                /\ config[i].method = m /\ config[i].path # path /\ Suits(i, path)
                /\ \A j \in Registered :
                        config[j].method = m /\ Suits(j, path) /\ KeyOf(j) # KeyOf(i)
                            => Age(i) < Age(j)
<1> USE DEF OrderOK
<1> DEFINE hits == {x \in DOMAIN pathPatterns :
                        pathPatterns[x][1] = m /\ Matches(pathPatterns[x][2], path)}
<1>1. hits \in SUBSET Nat /\ hits # {}
    BY DEF PatternKey, MapsOK
<1>2. PICK x \in hits : \A y \in hits : x <= y
    BY <1>1, LeastOf
<1>3. {y \in hits : \A z \in hits : y <= z} = {x}
    BY <1>1, <1>2
<1>4. PatternKey(path, m) = {pathPatterns[y] : y \in {j \in hits : \A k \in hits : j <= k}}
    BY DEF PatternKey
<1>5. PatternKey(path, m) = {pathPatterns[x]}
    BY <1>3, <1>4
<1>6. PICK i \in Registered : KeyOf(i) = pathPatterns[x] /\ Held(i)
    <2>1. pathPatterns[x] \in DOMAIN routePermissions
        BY DEF MapsOK
    <2>2. RoutesNewest
        OBVIOUS
    <2> HIDE DEF OrderOK, hits
    <2>3. PICK i \in Registered :
                KeyOf(i) = pathPatterns[x] /\ Newest(i) /\ routePermissions[pathPatterns[x]] = config[i]
        BY <2>1, <2>2 DEF RoutesNewest
    <2> QED  BY <2>3 DEF Held
<1>7. /\ config[i].method = m /\ Suits(i, path) /\ config[i].path # path
    <2>1. config[i].method = m /\ Matches(config[i].path, path) /\ HasParam(config[i].path)
        BY <1>6 DEF KeyOf, PatternsOrdered
    <2> QED  BY <2>1, ExactMiss DEF Suits
<1>8. ASSUME NEW j \in Registered, config[j].method = m, Suits(j, path), KeyOf(j) # KeyOf(i)
      PROVE  Age(i) < Age(j)
    <2>1. HasParam(config[j].path) /\ Matches(config[j].path, path)
        BY <1>8, ExactMiss DEF Suits
    <2>2. PICK y \in DOMAIN pathPatterns : pathPatterns[y] = KeyOf(j)
        BY <2>1 DEF PatternsListed
    <2>3. y \in hits /\ x # y
        BY <1>6, <1>8, <2>1, <2>2 DEF KeyOf
    <2>4. x < y
        BY <1>1, <1>2, <2>3
    <2>5. Before(KeyOf(i), KeyOf(j))
        BY <1>6, <2>2, <2>4 DEF PatternsOrdered
    <2> QED  BY <2>5, AgeBefore
<1> QED  BY <1>5, <1>6, <1>7, <1>8

LEMMA Miss ==
    ASSUME MapsOK, OrderOK, NEW path, NEW m, ExactKey(path, m) = {}, PatternKey(path, m) = {},
           NEW j \in Registered, config[j].method = m
    PROVE  ~Suits(j, path)
<1> USE DEF OrderOK
<1> SUFFICES ASSUME Suits(j, path) PROVE FALSE  OBVIOUS
<1> DEFINE hits == {x \in DOMAIN pathPatterns :
                        pathPatterns[x][1] = m /\ Matches(pathPatterns[x][2], path)}
<1>1. HasParam(config[j].path) /\ Matches(config[j].path, path)
    BY ExactMiss DEF Suits
<1>2. PICK y \in DOMAIN pathPatterns : pathPatterns[y] = KeyOf(j)
    BY <1>1 DEF PatternsListed
<1>3. y \in hits
    BY <1>1, <1>2 DEF KeyOf
<1>4. hits \in SUBSET Nat
    BY DEF MapsOK
<1>5. PICK x \in hits : \A z \in hits : x <= z
    BY <1>3, <1>4, LeastOf
<1>6. pathPatterns[x] \in PatternKey(path, m)
    BY <1>5 DEF PatternKey
<1> QED  BY <1>6

\* What Best chooses, without the choice.
IsBest(r, path, method) ==
    \/ r = None /\ \A i \in Registered : ~Fits(i, path, method)
    \/ \E i \in Registered :
            /\ r = config[i] /\ Fits(i, path, method)
            /\ \A j \in Registered : Fits(j, path, method) /\ j # i => Better(i, j, path)

LEMMA BestUnique ==
    ASSUME MapsOK, KeysAged, NEW r, NEW path, NEW method, IsBest(r, path, method)
    PROVE  Best(path, method) = r
<1> DEFINE fitting == {j \in Registered : Fits(j, path, method)}
<1>1. CASE \A i \in Registered : ~Fits(i, path, method)
    <2>1. fitting = {} /\ r = None
        BY <1>1 DEF IsBest
    <2> QED  BY <2>1, Zenon DEF Best
<1>2. CASE ~\A i \in Registered : ~Fits(i, path, method)
    <2>1. PICK i \in fitting : r = config[i] /\ \A j \in fitting \ {i} : Better(i, j, path)
        BY <1>2 DEF IsBest
    <2>2. \A j \in fitting : (\A k \in fitting \ {j} : Better(j, k, path)) => j = i
        BY <2>1, BetterOneWay
    <2>3. (CHOOSE j \in fitting : \A k \in fitting \ {j} : Better(j, k, path)) = i
        BY <2>1, <2>2
    <2>4. fitting # {}
        BY <2>1
    <2> QED  BY <2>1, <2>3, <2>4, Zenon DEF Best
<1> QED  BY <1>1, <1>2

\* The newest route of a key, better than those that fit under other keys, is the best.
LEMMA BestIs ==
    ASSUME MapsOK, NEW path, NEW method,
           NEW i \in Registered, Fits(i, path, method), Newest(i),
           \A j \in Registered : Fits(j, path, method) /\ KeyOf(j) # KeyOf(i) => Better(i, j, path)
    PROVE  IsBest(config[i], path, method)
<1>1. \A j \in Registered : Fits(j, path, method) /\ j # i => Better(i, j, path)
    <2> SUFFICES ASSUME NEW j \in Registered, Fits(j, path, method), j # i
                 PROVE  Better(i, j, path)
        OBVIOUS
    <2>1. CASE KeyOf(j) = KeyOf(i)
        BY <2>1, Numbers DEF Newest, Better
    <2> QED  BY <2>1
<1> QED  BY <1>1 DEF IsBest

\* What there is to try first decides.
LEMMA FirstTried ==
    ASSUME NEW path, NEW method
    PROVE  LET a == ExactKey(path, method)  b == PatternKey(path, method)
               c == ExactKey(path, ALL)     d == PatternKey(path, ALL)
               found(S) == routePermissions[CHOOSE k \in S : TRUE]
           IN  getRoutePermission(path, method) =
                IF a # {} THEN found(a) ELSE IF b # {} THEN found(b)
                ELSE IF c # {} THEN found(c) ELSE IF d # {} THEN found(d) ELSE None
<1> DEFINE a == ExactKey(path, method)
           b == PatternKey(path, method)
           c == ExactKey(path, ALL)
           d == PatternKey(path, ALL)
           tried == <<a, b, c, d>>
           hits == {i \in DOMAIN tried : tried[i] # {}}
           first == IF a # {} THEN 1 ELSE IF b # {} THEN 2 ELSE IF c # {} THEN 3 ELSE 4
<1>1. getRoutePermission(path, method) =
            IF hits = {} THEN None ELSE routePermissions[CHOOSE k \in tried[Min(hits)] : TRUE]
    BY Zenon DEF getRoutePermission, Tried
<1> HIDE DEF a, b, c, d
<1>2. hits \in SUBSET (1..4) /\ hits \in SUBSET Nat
    OBVIOUS
<1>3. CASE hits # {}
    <2>1. first \in hits /\ \A y \in hits : first <= y
        BY <1>2, <1>3
    <2>2. Min(hits) = first
        BY <1>2, <2>1, MinIs
    <2>3. getRoutePermission(path, method) = routePermissions[CHOOSE k \in tried[first] : TRUE]
        BY <1>1, <1>3, <2>2
    <2>4. ~(a = {} /\ b = {} /\ c = {} /\ d = {})
        BY <2>1
    <2> QED  BY <2>3, <2>4 DEF a, b, c, d
<1>4. CASE hits = {}
    <2>1. a = {} /\ b = {} /\ c = {} /\ d = {}
        BY <1>4
    <2> QED  BY <1>1, <1>4, <2>1 DEF a, b, c, d
<1> QED  BY <1>3, <1>4

\* A key that is found alone gives the route that is held under it.
LEMMA FoundIs ==
    ASSUME NEW i, Held(i), NEW S, S = {KeyOf(i)}
    PROVE  routePermissions[CHOOSE k \in S : TRUE] = config[i]
<1>1. (CHOOSE k \in S : TRUE) = KeyOf(i)
    OBVIOUS
<1> QED  BY <1>1 DEF Held

(***************************************************************************)
(* The four things a lookup tries, in this order, are the four classes of  *)
(* routes that fit.                                                        *)
(***************************************************************************)
LEMMA LookupRight ==
    ASSUME MapsOK, OrderOK, NEW path, path \in Seq(ToSet(path)), NEW method, method # ALL
    PROVE  IsBest(getRoutePermission(path, method), path, method)
<1> DEFINE a == ExactKey(path, method)
           b == PatternKey(path, method)
           c == ExactKey(path, ALL)
           d == PatternKey(path, ALL)
           found(S) == routePermissions[CHOOSE k \in S : TRUE]
<1>1. getRoutePermission(path, method) =
            IF a # {} THEN found(a) ELSE IF b # {} THEN found(b)
            ELSE IF c # {} THEN found(c) ELSE IF d # {} THEN found(d) ELSE None
    BY FirstTried
<1>2. \A j \in Registered :
            Fits(j, path, method) <=> config[j].method \in {method, ALL} /\ Suits(j, path)
    BY FitsSuits
<1>3. \A j \in Registered : KeyOf(j) = <<config[j].method, config[j].path>>
    BY DEF KeyOf
<1>4. RoutesNewest /\ KeysAged
    BY DEF OrderOK
<1>5. ASSUME NEW i, Held(i), NEW S, S = {KeyOf(i)} PROVE found(S) = config[i]
    BY <1>5, FoundIs
<1> HIDE DEF a, b, c, d, found
<1>6. CASE a # {}
    <2>1. PICK i \in Registered : /\ a = {KeyOf(i)} /\ Held(i)
                                 /\ config[i].method = method /\ config[i].path = path
        BY <1>4, <1>6, ExactHit DEF a
    <2>2. Fits(i, path, method)
        BY <1>2, <2>1 DEF Suits
    <2>3. ASSUME NEW j \in Registered, Fits(j, path, method), KeyOf(j) # KeyOf(i)
          PROVE  Better(i, j, path)
        BY <1>2, <1>3, <2>1, <2>3 DEF Better, Class
    <2>4. found(a) = config[i]
        BY <1>5, <2>1
    <2>5. IsBest(config[i], path, method)
        BY <1>4, <2>1, <2>2, <2>3, BestIs DEF Held
    <2> QED  BY <1>1, <1>6, <2>4, <2>5
<1>7. CASE a = {} /\ b # {}
    <2>1. PICK i \in Registered :
                /\ b = {KeyOf(i)} /\ Held(i)
                /\ config[i].method = method /\ config[i].path # path /\ Suits(i, path)
                /\ \A j \in Registered :
                        config[j].method = method /\ Suits(j, path) /\ KeyOf(j) # KeyOf(i)
                            => Age(i) < Age(j)
        BY <1>7, PatternHit DEF a, b
    <2>2. Fits(i, path, method)
        BY <1>2, <2>1
    <2>3. ASSUME NEW j \in Registered, Fits(j, path, method), KeyOf(j) # KeyOf(i)
          PROVE  Better(i, j, path)
        <3>1. CASE config[j].method = method
            <4>1. config[j].path # path
                BY <1>7, <3>1, ExactMiss DEF a
            <4> QED  BY <1>2, <2>1, <2>3, <3>1, <4>1 DEF Better, Class
        <3>2. CASE config[j].method # method
            BY <1>2, <2>1, <2>3, <3>2 DEF Better, Class
        <3> QED  BY <3>1, <3>2
    <2>4. found(b) = config[i]
        BY <1>5, <2>1
    <2>5. IsBest(config[i], path, method)
        BY <1>4, <2>1, <2>2, <2>3, BestIs DEF Held
    <2> QED  BY <1>1, <1>7, <2>4, <2>5
<1>8. CASE a = {} /\ b = {}
    <2>1. \A j \in Registered :
                Fits(j, path, method) <=> config[j].method = ALL /\ Suits(j, path)
        BY <1>2, <1>8, Miss DEF a, b
    <2>2. CASE c # {}
        <3>1. PICK i \in Registered : /\ c = {KeyOf(i)} /\ Held(i)
                                     /\ config[i].method = ALL /\ config[i].path = path
            BY <1>4, <2>2, ExactHit DEF c
        <3>2. Fits(i, path, method)
            BY <2>1, <3>1 DEF Suits
        <3>3. ASSUME NEW j \in Registered, Fits(j, path, method), KeyOf(j) # KeyOf(i)
              PROVE  Better(i, j, path)
            BY <1>3, <2>1, <3>1, <3>3 DEF Better, Class
        <3>4. found(c) = config[i]
            BY <1>5, <3>1
        <3>5. IsBest(config[i], path, method)
            BY <1>4, <3>1, <3>2, <3>3, BestIs DEF Held
        <3> QED  BY <1>1, <1>8, <2>2, <3>4, <3>5
    <2>3. CASE c = {} /\ d # {}
        <3>1. PICK i \in Registered :
                    /\ d = {KeyOf(i)} /\ Held(i)
                    /\ config[i].method = ALL /\ config[i].path # path /\ Suits(i, path)
                    /\ \A j \in Registered :
                            config[j].method = ALL /\ Suits(j, path) /\ KeyOf(j) # KeyOf(i)
                                => Age(i) < Age(j)
            BY <2>3, PatternHit DEF c, d
        <3>2. Fits(i, path, method)
            BY <2>1, <3>1
        <3>3. ASSUME NEW j \in Registered, Fits(j, path, method), KeyOf(j) # KeyOf(i)
              PROVE  Better(i, j, path)
            <4>1. config[j].path # path
                BY <2>1, <2>3, <3>3, ExactMiss DEF c
            <4> QED  BY <2>1, <3>1, <3>3, <4>1 DEF Better, Class
        <3>4. found(d) = config[i]
            BY <1>5, <3>1
        <3>5. IsBest(config[i], path, method)
            BY <1>4, <3>1, <3>2, <3>3, BestIs DEF Held
        <3> QED  BY <1>1, <1>8, <2>3, <3>4, <3>5
    <2>4. CASE c = {} /\ d = {}
        <3>1. \A j \in Registered : ~Fits(j, path, method)
            BY <2>1, <2>4, Miss DEF c, d
        <3>2. IsBest(None, path, method)
            BY <3>1 DEF IsBest
        <3> QED  BY <1>1, <1>8, <2>4, <3>2
    <2> QED  BY <2>2, <2>3, <2>4
<1> QED  BY <1>6, <1>7, <1>8

-----------------------------------------------------------------------------
(* Theorems *)

\* The invariant of RoutePermissions_proofs with the order, and answers as they
\* should be, which come only once everything is registered.
RightBy(r) ==
    /\ IsBest(r, answer.request.path, answer.request.method)
    /\ answer.ok <=> EntitledBy(r, answer.request)

AnswerRight == answer # None => loaded = Len(config) /\ \E r : RightBy(r)

LInv == IInv /\ OrderOK /\ AnswerRight

LEMMA RouteIsBest ==
    ASSUME IInv, OrderOK, NEW q \in Requests
    PROVE  IsBest(RouteOf(q), q.path, q.method)
<1>1. q.path \in Seq(ToSet(q.path)) /\ q.method # ALL
    BY RequestsAssumption, Zenon DEF IsRequest
<1> QED  BY <1>1, LookupRight DEF IInv, RouteOf

LEMMA LookupEnough == ASSUME IInv, OrderOK PROVE LookupIsBest
<1> SUFFICES ASSUME NEW q \in Requests
             PROVE  getRoutePermission(q.path, q.method) = Best(q.path, q.method)
    BY DEF LookupIsBest, Asked
<1> QED  BY RouteIsBest, BestUnique DEF IInv, OrderOK, RouteOf

\* every and some over the table, as sets.
LEMMA GrantedAsSets ==
    ASSUME MemoOK, NEW x \in Roles, NEW required, NEW all \in BOOLEAN
    PROVE  Granted(permissionCache, x, required, all) <=>
                IF all THEN ToSet(required) \subseteq PermissionsOf[x]
                ELSE ToSet(required) \intersect PermissionsOf[x] # {}
<1> DEFINE has(p) == hasPermission(permissionCache, x, p)
<1>1. \A p : has(p) \in BOOLEAN /\ (has(p) <=> p \in PermissionsOf[x])
    <2> SUFFICES ASSUME NEW p PROVE has(p) \in BOOLEAN /\ (has(p) <=> p \in PermissionsOf[x])
        OBVIOUS
    <2>1. has(p) <=> p \in PermissionsOf[x]
        BY TableAnswers
    <2>2. has(p) \in BOOLEAN
        <3>1. CASE CacheKey(x, p) \in DOMAIN permissionCache
            <4>1. has(p) = permissionCache[CacheKey(x, p)]
                BY <3>1, Zenon DEF hasPermission
            <4>2. permissionCache[CacheKey(x, p)] \in BOOLEAN
                BY <3>1, Zenon DEF MemoOK
            <4> HIDE DEF has
            <4> QED  BY <4>1, <4>2, Zenon
        <3>2. CASE CacheKey(x, p) \notin DOMAIN permissionCache
            <4>1. (p \in PermissionsOf[x]) \in BOOLEAN
                OBVIOUS
            <4> QED  BY <3>2, <4>1, Zenon DEF hasPermission
        <3> QED  BY <3>1, <3>2
    <2> QED  BY <2>1, <2>2
<1> HIDE DEF has
<1>2. Stops(permissionCache, x, required, all) = {i \in DOMAIN required : has(required[i]) # all}
    BY Zenon DEF Stops, has
<1>3. CASE all = TRUE
    <2>1. Stops(permissionCache, x, required, all) = {} <=>
                \A i \in DOMAIN required : required[i] \in PermissionsOf[x]
        BY <1>1, <1>2, <1>3
    <2> QED  BY <1>3, <2>1 DEF Granted, ToSet
<1>4. CASE all = FALSE
    <2>1. Stops(permissionCache, x, required, all) # {} <=>
                \E i \in DOMAIN required : required[i] \in PermissionsOf[x]
        BY <1>1, <1>2, <1>4
    <2> QED  BY <1>4, <2>1 DEF Granted, ToSet
<1> QED  BY <1>3, <1>4

(***************************************************************************)
(* The guard goes by the route it looks up, and the memo does not matter.  *)
(***************************************************************************)
LEMMA AdmitsEntitled ==
    ASSUME MemoOK, NEW q \in Requests
    PROVE  Admits(q) <=> EntitledBy(RouteOf(q), q)
<1> DEFINE route == RouteOf(q)
           required == getRequiredPermissions(q)
           all == requiresAllPermissions(q)
           flags == q.marks \union (IF route = None THEN {} ELSE route.flags)
           role == q.token.userType
<1>1. Skipped(q) <=> flags \intersect Skips # {}
    BY DEF Skipped, Flagged
<1>2. Authenticated(q) <=>
            /\ q.token \in Payload
            /\ q.token.enabled => q.token.verified \/ "isTwoFactorVerify" \in flags
    BY DEF Authenticated, Flagged
<1>3. required = IF route = None THEN <<>>
                 ELSE IF route.permissions # None THEN route.permissions
                 ELSE IF route.group # None THEN route.group ELSE <<>>
    BY DEF getRequiredPermissions
<1>4. required # <<>> => (all <=> route.requireAll # FALSE) /\ all \in BOOLEAN
    BY <1>3, Zenon DEF requiresAllPermissions
<1>5. Authenticated(q) /\ role # None /\ required # <<>> =>
            (Granted(permissionCache, role, required, all) <=>
                IF route.requireAll = FALSE THEN ToSet(required) \intersect PermissionsOf[role] # {}
                ELSE ToSet(required) \subseteq PermissionsOf[role])
    <2> SUFFICES ASSUME Authenticated(q), role # None, required # <<>>
                 PROVE  Granted(permissionCache, role, required, all) <=>
                            IF route.requireAll = FALSE
                            THEN ToSet(required) \intersect PermissionsOf[role] # {}
                            ELSE ToSet(required) \subseteq PermissionsOf[role]
        OBVIOUS
    <2>1. role \in Roles
        BY DEF Authenticated, Payload
    <2>2. Granted(permissionCache, role, required, all) <=>
                IF all THEN ToSet(required) \subseteq PermissionsOf[role]
                ELSE ToSet(required) \intersect PermissionsOf[role] # {}
        BY <1>4, <2>1, GrantedAsSets
    <2> QED  BY <1>4, <2>2
<1> DEFINE entitled(wanted) ==
        \/ flags \intersect Skips # {}
        \/ /\ q.token \in Payload
           /\ q.token.enabled => q.token.verified \/ "isTwoFactorVerify" \in flags
           /\ \/ wanted = <<>>
              \/ /\ role # None
                 /\ IF route.requireAll = FALSE THEN ToSet(wanted) \intersect PermissionsOf[role] # {}
                    ELSE ToSet(wanted) \subseteq PermissionsOf[role]
<1>6. EntitledBy(route, q) <=> entitled(required)
    <2>1. EntitledBy(route, q) <=>
                entitled(IF route = None THEN <<>>
                         ELSE IF route.permissions # None THEN route.permissions
                         ELSE IF route.group # None THEN route.group ELSE <<>>)
        BY Zenon DEF EntitledBy
    <2> HIDE DEF entitled, required
    <2> QED  BY <1>3, <2>1, Zenon
<1> HIDE DEF route, required, all, flags, role
<1>7. Admits(q) <=>
        \/ Skipped(q)
        \/ Authenticated(q) /\ required = <<>>
        \/ /\ ~Skipped(q) /\ Authenticated(q) /\ required # <<>> /\ role # None
           /\ Granted(permissionCache, role, required, all)
    BY Zenon DEF Admits, Asks, required, all, role
<1> QED  BY <1>1, <1>2, <1>5, <1>6, <1>7 DEF route

LEMMA InitLookup == Init => LInv
<1> SUFFICES ASSUME Init PROVE LInv  OBVIOUS
<1>1. loaded = 0 /\ routePermissions = <<>> /\ pathPatterns = <<>> /\ answer = None
    BY DEF Init
<1>2. Registered = {} /\ DOMAIN routePermissions = {} /\ DOMAIN pathPatterns = {}
    BY <1>1 DEF Registered
<1>3. OrderOK
    BY <1>2 DEF OrderOK, RoutesNewest, KeysAged, PatternsListed, PatternsOrdered
<1> QED  BY <1>1, <1>3, InitInvariant DEF LInv, AnswerRight

\* A best route stays the best while nothing is registered.
LEMMA BestKept ==
    ASSUME UNCHANGED <<config, loaded>>, NEW r, NEW path, NEW method, IsBest(r, path, method)
    PROVE  IsBest(r, path, method)'
<1>1. Registered' = Registered /\ config' = config
    BY DEF Registered
<1>2. \A i : KeyOf(i)' = KeyOf(i)
    BY DEF KeyOf
<1>3. \A i : Age(i)' = Age(i)
    <2> SUFFICES ASSUME NEW i PROVE Age(i)' = Age(i)  OBVIOUS
    <2>1. {j \in Registered : KeyOf(j) = KeyOf(i)}' = {j \in Registered : KeyOf(j) = KeyOf(i)}
        BY <1>1, <1>2
    <2> QED  BY <2>1, Zenon DEF Age
<1>4. \A i : Class(i, path)' = Class(i, path)
    BY <1>1 DEF Class
<1>5. \A i, j : Better(i, j, path)' <=> Better(i, j, path)
    BY <1>2, <1>3, <1>4 DEF Better
<1>6. \A i : Fits(i, path, method)' <=> Fits(i, path, method)
    BY <1>1 DEF Fits
<1> QED  BY <1>1, <1>5, <1>6 DEF IsBest

\* The order is kept by what leaves the Maps alone.
LEMMA OrderKept ==
    ASSUME OrderOK, UNCHANGED <<config, loaded, routePermissions, pathPatterns>>
    PROVE  OrderOK'
<1>1. Registered' = Registered
    BY DEF Registered
<1>2. \A i : KeyOf(i)' = KeyOf(i)
    BY DEF KeyOf
<1>3. \A i : (Newest(i)' <=> Newest(i)) /\ (Eldest(i)' <=> Eldest(i))
    BY <1>1, <1>2 DEF Newest, Eldest
<1>4. \A k, l : Before(k, l)' <=> Before(k, l)
    BY <1>1, <1>2 DEF Before
<1>5. RoutesNewest' /\ KeysAged'
    BY <1>1, <1>2, <1>3 DEF OrderOK, RoutesNewest, KeysAged
<1>6. PatternsListed' /\ PatternsOrdered'
    BY <1>1, <1>2, <1>4 DEF OrderOK, PatternsListed, PatternsOrdered
<1> QED  BY <1>5, <1>6 DEF OrderOK

LEMMA DecisionKeeps ==
    ASSUME LInv, NEW q \in Requests, DecideByToken(q) \/ DecideByRole(q)
    PROVE  OrderOK' /\ AnswerRight'
<1>1. /\ loaded = Len(config) /\ answer' = [request |-> q, ok |-> Admits(q)]
      /\ UNCHANGED <<config, loaded, routePermissions, pathPatterns>>
    BY DEF DecideByToken, DecideByRole, Answer
<1>2. IsBest(RouteOf(q), q.path, q.method)
    BY RouteIsBest DEF LInv
<1>3. PICK r : r = RouteOf(q)
    OBVIOUS
<1>4. IsBest(r, q.path, q.method)'
    BY <1>1, <1>2, <1>3, BestKept
<1>5. Admits(q) <=> EntitledBy(r, q)
    BY <1>3, AdmitsEntitled DEF LInv, IInv
<1>6. answer'.request = q /\ (answer'.ok <=> EntitledBy(r, q))
    <2>1. answer'.request = q /\ answer'.ok = Admits(q)
        BY <1>1, Zenon
    <2> QED  BY <1>5, <2>1, Zenon
<1>7. AnswerRight'
    BY <1>1, <1>4, <1>6 DEF AnswerRight, RightBy
<1> QED  BY <1>1, <1>7, OrderKept DEF LInv

LEMMA NextLookup == LInv /\ [Next]_vars => LInv'
<1> SUFFICES ASSUME LInv, [Next]_vars PROVE LInv'  OBVIOUS
<1>1. IInv'
    BY NextInvariant DEF LInv
<1>2. CASE Register
    <2>1. answer = None
        BY <1>2 DEF LInv, AnswerRight, Register, IInv, MapsOK
    <2>2. PICK n : Step(n)
        BY <1>2, RegisterStep DEF LInv, IInv
    <2>3. OrderOK'
        BY <2>2, RoutesNewestKept, KeysAgedKept, PatternsListedKept, PatternsOrderedKept
           DEF LInv, IInv, OrderOK
    <2>4. AnswerRight'
        BY <1>2, <2>1 DEF Register, AnswerRight
    <2> QED  BY <1>1, <2>3, <2>4 DEF LInv
<1>3. ASSUME NEW q \in Requests, DecideByToken(q) \/ DecideByRole(q) PROVE LInv'
    BY <1>1, <1>3, DecisionKeeps DEF LInv
<1>4. ASSUME UNCHANGED <<config, loaded, routePermissions, pathPatterns, answer>> PROVE LInv'
    <2>1. OrderOK'
        BY <1>4, OrderKept DEF LInv
    <2>2. AnswerRight'
        <3> SUFFICES ASSUME answer # None PROVE loaded = Len(config) /\ \E r : RightBy(r)'
            BY <1>4 DEF AnswerRight
        <3>1. loaded = Len(config)
            BY DEF LInv, AnswerRight
        <3>2. PICK r : RightBy(r)
            BY DEF LInv, AnswerRight
        <3>3. PICK path, method : path = answer.request.path /\ method = answer.request.method
            OBVIOUS
        <3>4. IsBest(r, path, method)'
            BY <1>4, <3>2, <3>3, BestKept DEF RightBy
        <3>5. answer' = answer
            BY <1>4
        <3>6. IsBest(r, answer.request.path, answer.request.method)'
            BY <3>3, <3>4, <3>5
        <3>7. RightBy(r)'
            BY <3>2, <3>5, <3>6, Zenon DEF RightBy
        <3> QED  BY <3>1, <3>7
    <2> QED  BY <1>1, <2>1, <2>2 DEF LInv
<1> QED  BY <1>2, <1>3, <1>4 DEF Next, ClearCache, vars

LEMMA LookupInvariant == Spec => []LInv
<1>1. Init => LInv  BY InitLookup
<1>2. LInv /\ [Next]_vars => LInv'  BY NextLookup
<1> QED  BY <1>1, <1>2, PTL DEF Spec

(***************************************************************************)
(* Whatever routes are registered in whatever order, getRoutePermission    *)
(* finds the one that the registered list says a request should be judged  *)
(* by.                                                                     *)
(***************************************************************************)
THEOREM LookupCorrect == Spec => []LookupIsBest
<1>1. LInv => LookupIsBest  BY LookupEnough DEF LInv
<1> QED  BY <1>1, LookupInvariant, PTL

(***************************************************************************)
(* RouterPermissionsGuard lets in those requests, and only those, that the *)
(* registered list and the table of roles entitle to it.                   *)
(***************************************************************************)
THEOREM AnswersCorrect == Spec => []AnswersRight
<1>1. LInv => AnswersRight
    <2> SUFFICES ASSUME LInv, answer # None PROVE answer.ok <=> Entitled(answer.request)
        BY DEF AnswersRight
    <2>1. PICK r : RightBy(r)
        BY DEF LInv, AnswerRight
    <2>2. Best(answer.request.path, answer.request.method) = r
        BY <2>1, BestUnique DEF LInv, IInv, OrderOK, RightBy
    <2> QED  BY <2>1, <2>2, Zenon DEF Entitled, RightBy
<1> QED  BY <1>1, LookupInvariant, PTL
=============================================================================
