-------------------------- MODULE MCRoutePermissions --------------------------
(***************************************************************************)
(* The routes of the program, and small trees of routes that overlap: one  *)
(* path under several patterns, under a method and ALL, and twice.         *)
(***************************************************************************)
EXTENDS Guards

CONSTANT MaxNodes

INSTANCE RouteConfig

\* An entry that asks for permissions, alone or as a group, and all or some.
Asking(method, permissions, group, all) ==
    [Entry(method, {}) EXCEPT !.permissions = permissions, !.group = group, !.requireAll = all]

Children == {
    Config(<<":id">>, <<Asking("GET", <<"view:profile", "view:listing">>, None, None)>>, <<>>),
    Config(<<":name">>, <<Entry("GET", {"isTwoFactorVerify"}), Entry("ALL", {"isPublic"})>>, <<>>),
    Config(<<"me">>, <<Asking("ALL", None, <<"view:listing", "view:profile">>, FALSE)>>, <<>>),
    Config(<<":id">>, <<Entry("GET", {"isAdmin"})>>,
           <<Config(<<"me">>, <<Asking("ALL", <<"manage:users">>, None, FALSE)>>, <<>>)>>)}

Program == authRoutes \o healthRoutes
Trees == {<<Config(<<"users">>, <<Entry("GET", {})>>, c)>> : c \in BoundedSeq(Children, MaxNodes)}
            \union {Program}
Flat == [t \in Trees |-> flattenRoutes(t, <<>>)]

MCConfigs == {Flat[t] : t \in Trees}
MCParams == {":id", ":name"}

Tokens == {None, Invalid}
    \union [userType: {"customer", "landlord", None}, enabled: {FALSE}, verified: {FALSE}]
    \union [userType: {"landlord"}, enabled: {TRUE}, verified: BOOLEAN]

UserRequests ==
    [path: {<<"users">>, <<"users", "me">>, <<"users", "me", "me">>}, method: {"GET", "POST"},
     marks: {{}}, token: Tokens]

\* One handler of each kind.
HandlerRequests ==
    {[path |-> h.path, method |-> h.method, marks |-> h.marks,
      token |-> [userType |-> "customer", enabled |-> TRUE, verified |-> FALSE]] :
        h \in {x \in Handlers : Last(x.path) \in {"login", "refresh", "verify", "enable"}}}

\* A live refresh token passes both checks with the same claims; another token passes
\* the first check only, or neither.
Visits == [token: Tokens, refresh: {Invalid}, captcha: Captchas]
    \union {[token |-> t, refresh |-> t, captcha |-> "absent"] : t \in Tokens}

MCRequests == UserRequests \union HandlerRequests

(***************************************************************************)
(* flattenRoutes lists what is written, with full paths and in its order.  *)
(***************************************************************************)
FlattenRight == \A t \in Trees : config = Flat[t] => InOrder(t, config)

(***************************************************************************)
(* The program's handlers are written in one of three ways, and once its   *)
(* routes are registered, the registry says of each what its decorators    *)
(* say: none is open by one of them only, and the router's guard steps     *)
(* back for RefreshTokenGuard where it is used and nowhere else.           *)
(***************************************************************************)
HandlersAgree ==
    /\ \A h \in Handlers : Conventional(h)
    /\ config = Flat[Program] /\ loaded = Len(config) => \A h \in Handlers : Agrees(h)

(***************************************************************************)
(* Through the registry, the router's guard, the handler's own guards and  *)
(* the decorator that takes the user, a handler is reached only by visits  *)
(* it is meant for, and never without the user it goes on to use, even if  *)
(* the request spells its path in a way the registry does not know.  All   *)
(* such visits reach it, save that a refresh under another spelling also   *)
(* waits for the second factor.                                            *)
(***************************************************************************)
HandlersReached ==
    config = Flat[Program] /\ loaded = Len(config) => ReachedRightly(Handlers, Visits)
=============================================================================
