------------------------------ MODULE RouteConfig ------------------------------
(***************************************************************************)
(* The routes as they are written down: nested configurations and their    *)
(* flattening into the list that is registered, and beside it what the     *)
(* decorators in the controllers say of each handler.                      *)
(***************************************************************************)
EXTENDS Naturals, Sequences, FiniteSets, SequencesExt

CONSTANT None

\* An entry of "methods": what it leaves out is undefined.
Entry(method, flags) ==
    [method |-> method, flags |-> flags, permissions |-> None, group |-> None, requireAll |-> None]

\* A route configuration with its methods, in their order, and its children.
Config(path, methods, children) == [path |-> path, methods |-> methods, children |-> children]

Routed(path, entry) ==
    [path |-> path, method |-> entry.method, flags |-> entry.flags,
     permissions |-> entry.permissions, group |-> entry.group, requireAll |-> entry.requireAll]

\* A mutated form of flattenRoutes: children are not below their parent.
RECURSIVE flattenApart(_, _)
flattenApart(configs, basePath) ==
    FlattenSeq([i \in DOMAIN configs |->
        LET fullPath == basePath \o configs[i].path
        IN  [k \in DOMAIN configs[i].methods |-> Routed(fullPath, configs[i].methods[k])]
            \o flattenApart(configs[i].children, basePath)])

RECURSIVE flattenRoutes(_, _)
flattenRoutes(configs, basePath) ==
    FlattenSeq([i \in DOMAIN configs |->
        LET fullPath == basePath \o configs[i].path
        IN  [k \in DOMAIN configs[i].methods |-> Routed(fullPath, configs[i].methods[k])]
            \o flattenRoutes(configs[i].children, fullPath)])

-----------------------------------------------------------------------------
(* The routes of this program *)

Leaf(path, method, flags) == Config(path, <<Entry(method, flags)>>, <<>>)

\* A mutated form of authRoutes: the second factor's routes are forgotten.
authRoutesShort == <<
    Config(<<"auth">>, <<Entry("POST", {"isPublic"})>>, <<
        Leaf(<<"refresh">>, "POST", {"isRefreshToken"}),
        Leaf(<<"signup">>, "POST", {"isPublic"}),
        Leaf(<<"login">>, "POST", {"isPublic"})>>)>>

authRoutes == <<
    Config(<<"auth">>, <<Entry("POST", {"isPublic"})>>, <<
        Leaf(<<"refresh">>, "POST", {"isRefreshToken"}),
        Leaf(<<"signup">>, "POST", {"isPublic"}),
        Leaf(<<"login">>, "POST", {"isPublic"}),
        Leaf(<<"facebook">>, "POST", {"isPublic"}),
        Leaf(<<"password-reset", "initiate">>, "POST", {"isPublic"}),
        Leaf(<<"password-reset", "verify">>, "POST", {"isPublic"}),
        Leaf(<<"password-reset", "complete">>, "POST", {"isPublic"}),
        Leaf(<<"2fa", "verify">>, "POST", {"isTwoFactorVerify"}),
        Leaf(<<"2fa", "verify", "resend-code">>, "POST", {"isTwoFactorVerify"})>>)>>

healthRoutes == <<
    Config(<<"health">>, <<>>, <<
        Leaf(<<"db">>, "GET", {"isPublic"}),
        Leaf(<<"http">>, "GET", {"isPublic"}),
        Leaf(<<"redis">>, "GET", {"isPublic"}),
        Leaf(<<"test">>, "GET", {"isPublic"})>>)>>

\* The handlers: what their decorators say, the guards of their own, in their
\* order, and what they take from the request.
Handler(path, method, marks, guards, takes) ==
    [path |-> path, method |-> method, marks |-> marks, guards |-> guards, takes |-> takes]

Open == {"isPublic"}

AuthController == {
    Handler(<<"auth", "signup">>, "POST", Open, <<"RecaptchaGuard">>, "nothing"),
    Handler(<<"auth", "login">>, "POST", Open, <<"RecaptchaGuard">>, "nothing"),
    Handler(<<"auth", "refresh">>, "POST", {}, <<"RefreshTokenGuard">>, "AuthToken"),
    Handler(<<"auth", "verify-email-code">>, "POST", {}, <<>>, "CurrentUser"),
    Handler(<<"auth", "resend-verification-code">>, "POST", {}, <<>>, "AuthToken"),
    Handler(<<"auth", "password-reset", "initiate">>, "POST", Open, <<"RecaptchaGuard">>, "nothing"),
    Handler(<<"auth", "password-reset", "verify">>, "POST", Open, <<>>, "nothing"),
    Handler(<<"auth", "password-reset", "complete">>, "POST", Open, <<"RecaptchaGuard">>, "nothing"),
    Handler(<<"auth", "facebook">>, "POST", Open, <<>>, "nothing"),
    Handler(<<"auth", "2fa", "verify">>, "POST", {"isTwoFactorVerify"}, <<>>, "CurrentUser"),
    Handler(<<"auth", "2fa", "verify", "resend-code">>, "POST", {"isTwoFactorVerify"}, <<>>, "CurrentUser"),
    Handler(<<"auth", "2fa", "resend-code">>, "POST", {}, <<>>, "CurrentUser"),
    Handler(<<"auth", "2fa", "enable">>, "POST", {}, <<>>, "CurrentUser"),
    Handler(<<"auth", "2fa", "confirm">>, "POST", {}, <<>>, "CurrentUser"),
    Handler(<<"auth", "2fa", "disable">>, "POST", {}, <<>>, "CurrentUser"),
    Handler(<<"auth", "update-user-role">>, "POST", {}, <<>>, "UserId")}

HealthCheckController == {
    Handler(<<"health", check>>, "GET", Open, <<>>, "nothing") : check \in {"db", "http", "redis"}}

Handlers == AuthController \union HealthCheckController

\* The permissions, one for all that the same roles have.
UserType == {"landlord", "real_estate_agent", "customer"}
Permission == {"view:profile", "view:listing", "manage:users"}
ROLE_PERMISSIONS == [x \in UserType |->
    IF x = "customer" THEN {"view:profile"} ELSE {"view:profile", "view:listing"}]

-----------------------------------------------------------------------------
(* Nodes by the places they have among their siblings *)

RECURSIVE NodeAt(_, _)
NodeAt(configs, place) ==
    IF Len(place) = 1 THEN configs[place[1]]
    ELSE NodeAt(configs[place[1]].children, Tail(place))

RECURSIVE Places(_)
Places(configs) ==
    UNION {{<<i>>} \union {<<i>> \o p : p \in Places(configs[i].children)} : i \in DOMAIN configs}

PathTo(configs, place) ==
    FlattenSeq([n \in DOMAIN place |-> NodeAt(configs, SubSeq(place, 1, n)).path])

\* The methods of all nodes, and which of two is written first.
Written(configs) ==
    {<<p, k>> \in Places(configs) \X (1..3) : k \in DOMAIN NodeAt(configs, p).methods}
Before(m, n) ==
    \/ m[1] = n[1] /\ m[2] < n[2]
    \/ m[1] # n[1] /\ IsPrefix(m[1], n[1])
    \/ \E i \in DOMAIN m[1] \intersect DOMAIN n[1] :
            m[1][i] < n[1][i] /\ SubSeq(m[1], 1, i - 1) = SubSeq(n[1], 1, i - 1)

\* The list is what is written, with full paths and in the order of writing.
InOrder(configs, routes) ==
    /\ Len(routes) = Cardinality(Written(configs))
    /\ \A m \in Written(configs) :
            routes[1 + Cardinality({n \in Written(configs) : Before(n, m)})] =
                Routed(PathTo(configs, m[1]), NodeAt(configs, m[1]).methods[m[2]])
=============================================================================
