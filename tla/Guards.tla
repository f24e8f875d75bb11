-------------------------------- MODULE Guards --------------------------------
(***************************************************************************)
(* The guards a request passes on its way to a handler: the router's guard *)
(* first, which is provided for the whole application, then the handler's  *)
(* own, and last the decorators that take the user from the request.       *)
(* JwtAuthGuard and AnyPermissionGuard are the two that the router's guard *)
(* was merged from; the program still exports them.                        *)
(*                                                                         *)
(* A visit is what a client sends: its bearer token, as verifyToken sees   *)
(* it when asked for any user's token (token) and for a live refresh token *)
(* (refresh), and what becomes of its captcha.  A refresh token is both.   *)
(***************************************************************************)
EXTENDS RoutePermissions

Captchas == {"absent", "accepted", "rejected", "unanswered"}

\* What a guard makes of a request: it lets it in, with a user or with none, or
\* throws.
Pass(user) == [ok |-> TRUE, user |-> user]
Refuse == [ok |-> FALSE, user |-> None]

\* RouterPermissionsGuard, which puts the payload of the token on the request.
RouterPermissionsGuard(q) ==
    IF ~Admits(q) THEN Refuse ELSE Pass(IF Skipped(q) THEN None ELSE q.token)

JwtAuthGuard(marks, token) ==
    IF marks \intersect {"isPublic", "isAdmin"} # {} THEN Pass(None)
    ELSE IF /\ token \in Payload
            /\ "isTwoFactorVerify" \in marks \/ ~token.enabled \/ token.verified
         THEN Pass(token)
    ELSE IF "isPublicWithUser" \in marks THEN Pass(None) ELSE Refuse

AnyPermissionGuard(marks, required, user) ==
    IF "isPublic" \in marks \/ required = <<>> THEN Pass(user)
    ELSE IF user # None /\ user.userType # None
              /\ Granted(permissionCache, user.userType, required, FALSE)
         THEN Pass(user) ELSE Refuse

\* A mutated form of RefreshTokenGuard: it checks and forgets the payload.
RefreshTokenGuardSilent(marks, refresh, user) ==
    IF "isPublic" \in marks \/ refresh \in Payload THEN Pass(user) ELSE Refuse

RefreshTokenGuard(marks, refresh, user) ==
    IF "isPublic" \in marks THEN Pass(user)
    ELSE IF refresh \in Payload THEN Pass(refresh) ELSE Refuse

\* verify throws when there is no answer to be had.
verify(captcha) == captcha = "accepted"

\* Captchas are for public routes, and for none while local.
RecaptchaGuard(local, marks, captcha, user) ==
    IF local \/ "isPublic" \notin marks \/ verify(captcha) THEN Pass(user) ELSE Refuse

\* AuthToken throws without a user, UserId and CurrentUser hand out none.
Taken(takes, user) == IF takes = "AuthToken" /\ user = None THEN Refuse ELSE Pass(user)

-----------------------------------------------------------------------------
\* The guards in the order they are asked; the first to throw is the last asked.
OwnGuards(local, handler, visit, user) ==
    FoldLeft(LAMBDA sofar, guard :
                IF ~sofar.ok THEN sofar
                ELSE IF guard = "RefreshTokenGuard"
                     THEN RefreshTokenGuard(handler.marks, visit.refresh, sofar.user)
                     ELSE RecaptchaGuard(local, handler.marks, visit.captcha, sofar.user),
             Pass(user), handler.guards)

\* The paths and methods that Express takes for a handler's: it overlooks a slash at
\* the end (and the case of letters, which to the registry is the same kind of path, one
\* that it does not know), and it answers HEAD where there is GET.
AsWritten(handler) == <<handler.path, handler.method>>
Ways(handler) ==
    {handler.path, Append(handler.path, "")}
        \X ({handler.method} \union (IF handler.method = "GET" THEN {"HEAD"} ELSE {}))

\* The router's guard looks at the path and the method of the request.
Called(handler, way, visit) ==
    [path |-> way[1], method |-> way[2], marks |-> handler.marks, token |-> visit.token]

Reaches(local, handler, way, visit) ==
    LET routed == RouterPermissionsGuard(Called(handler, way, visit))
        own == OwnGuards(local, handler, visit, routed.user)
    IN  IF routed.ok /\ own.ok THEN Taken(handler.takes, own.user) ELSE Refuse

\* Whom a handler is for, said of it alone: the owner of the user it takes.
Bearer(handler, visit) ==
    CASE "RefreshTokenGuard" \in ToSet(handler.guards) -> visit.refresh
      [] handler.takes = "nothing" -> None
      [] OTHER -> visit.token
Meant(local, handler, visit) ==
    IF handler.takes = "nothing"
    THEN "RecaptchaGuard" \in ToSet(handler.guards) => local \/ visit.captcha = "accepted"
    ELSE LET user == Bearer(handler, visit) IN
         /\ user \in Payload
         /\ \/ "RefreshTokenGuard" \in ToSet(handler.guards)
            \/ "isTwoFactorVerify" \in handler.marks
            \/ user.enabled => user.verified

\* The ways handlers are written: open to everyone, for a refresh token, and
\* for a user.
Conventional(handler) ==
    \/ /\ handler.marks = {"isPublic"} /\ handler.takes = "nothing"
       /\ handler.guards \in {<<>>, <<"RecaptchaGuard">>}
    \/ /\ handler.marks = {} /\ handler.takes = "AuthToken"
       /\ handler.guards = <<"RefreshTokenGuard">>
    \/ /\ handler.marks \subseteq {"isTwoFactorVerify"}
       /\ handler.takes \in {"AuthToken", "CurrentUser", "UserId"}
       /\ handler.guards = <<>>

\* The registry says of a handler what its decorators say, marks it if it has a
\* guard for refresh tokens, and asks for no permissions; of the other ways to
\* call the handler it knows nothing.
Agrees(handler) ==
    LET route == getRoutePermission(handler.path, handler.method)
        own == IF "RefreshTokenGuard" \in ToSet(handler.guards) THEN {"isRefreshToken"} ELSE {}
    IN  /\ handler.marks \union own = IF route = None THEN {} ELSE route.flags
        /\ getRequiredPermissions(handler) = <<>>
        /\ \A way \in Ways(handler) \ {AsWritten(handler)} :
                getRoutePermission(way[1], way[2]) = None

\* Called in another way, a handler with RefreshTokenGuard is not known to be one: the
\* router's guard does not step back, and wants the second factor passed.
TurnedAway(handler, way, visit) ==
    /\ "RefreshTokenGuard" \in ToSet(handler.guards)
    /\ way # AsWritten(handler)
    /\ visit.token \notin Payload \/ (visit.token.enabled /\ ~visit.token.verified)

\* In whatever way they are called, handlers are reached by those only that they are
\* meant for, by all of them who are not turned away, and have the user they go on to use.
ReachedRightly(handlers, visits) ==
    \A h \in handlers, v \in visits, local \in BOOLEAN :
        \A way \in Ways(h) :
            LET reached == Reaches(local, h, way, v) IN
            /\ reached.ok <=> Meant(local, h, v) /\ ~TurnedAway(h, way, v)
            /\ reached.ok => reached.user = Bearer(h, v)

-----------------------------------------------------------------------------
\* What the merged guard asks of a request, as decorators of its handler.
Decorated(q) == q.marks \union (IF RouteOf(q) = None THEN {} ELSE RouteOf(q).flags)

\* The routes on which the two can agree: the old pair knows nothing of refresh
\* tokens, asks permissions of an administrator's request too, and one
\* permission is enough for it; the merged guard has no optional users.
Expressible(q) ==
    /\ Decorated(q) \subseteq Flags \ {"isRefreshToken"}
    /\ "isAdmin" \in Decorated(q) => getRequiredPermissions(q) = <<>>
    /\ getRequiredPermissions(q) # <<>> => ~requiresAllPermissions(q)

\* JwtAuthGuard and then AnyPermissionGuard.
FormerGuards(q) ==
    LET jwt == JwtAuthGuard(Decorated(q), q.token)
    IN  IF jwt.ok THEN AnyPermissionGuard(Decorated(q), getRequiredPermissions(q), jwt.user)
        ELSE Refuse

(***************************************************************************)
(* The merged guard decides as the pair it replaced would, with the        *)
(* registry's entries written as decorators, and hands on the same user.   *)
(***************************************************************************)
MergedAsBefore ==
    \A q \in Requests : Expressible(q) => RouterPermissionsGuard(q) = FormerGuards(q)
=============================================================================
