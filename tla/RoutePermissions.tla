--------------------------- MODULE RoutePermissions ---------------------------
(***************************************************************************)
(* Who may call a route: RoutePermissionsRegistry, filled once at start,   *)
(* RouterPermissionsGuard, which asks it about every request, and the memo *)
(* of PermissionService, which remembers what it has been asked.           *)
(*                                                                         *)
(* A path is the sequence of its segments; a segment of a registered path  *)
(* is a word or a parameter.  What verifyToken makes of the Authorization  *)
(* header is an input.  After it everything runs without an await, so one  *)
(* request is one step.                                                    *)
(***************************************************************************)
EXTENDS Naturals, Sequences, FiniteSets, SequencesExt, FiniteSetsExt

CONSTANTS
    Configs,        \* the lists of routes that may be configured
    Params,         \* the segments written ":name"
    ALL,            \* the method that stands for any
    Requests,       \* the requests clients make
    Roles,
    Permissions,
    PermissionsOf,  \* the permissions of each role
    Invalid,        \* a token that verifyToken rejects
    None

Skips == {"isPublic", "isAdmin", "isRefreshToken"}
Flags == Skips \union {"isTwoFactorVerify"}

Payload == [userType: Roles \union {None}, enabled: BOOLEAN, verified: BOOLEAN]

\* A permission group is given by the permissions it stands for.
IsRoute(p) ==
    /\ DOMAIN p = {"path", "method", "flags", "permissions", "group", "requireAll"}
    /\ p.path \in Seq(ToSet(p.path))
    /\ p.flags \subseteq Flags
    /\ p.permissions # None => p.permissions \in Seq(Permissions)
    /\ p.group # None => p.group \in Seq(Permissions)
    /\ p.requireAll \in BOOLEAN \union {None}

\* marks are the decorators of the handler that the request is routed to.
IsRequest(q) ==
    /\ DOMAIN q = {"path", "method", "marks", "token"}
    /\ q.path \in Seq(ToSet(q.path))
    /\ q.method # ALL
    /\ q.marks \subseteq Flags
    /\ q.token \in Payload \union {Invalid, None}

ASSUME NoneAssumption == None \notin Payload
ASSUME RolesAssumption == PermissionsOf \in [Roles -> SUBSET Permissions]
ASSUME ConfigsAssumption ==
    \A c \in Configs : c \in Seq(ToSet(c)) /\ \A p \in ToSet(c) : IsRoute(p)
ASSUME RequestsAssumption == \A q \in Requests : IsRequest(q)

VARIABLES
    config,             \* the routes of this deployment
    loaded,             \* how many of them are registered
    routePermissions,   \* the Map from keys to routes
    pathPatterns,       \* the keys with a pattern, in the order of their Map
    permissionCache,    \* what PermissionService remembers
    answer              \* the last request and whether it was let in

vars == <<config, loaded, routePermissions, pathPatterns, permissionCache, answer>>

Init ==
    /\ config \in Configs
    /\ loaded = 0
    /\ routePermissions = <<>>
    /\ pathPatterns = <<>>
    /\ permissionCache = <<>>
    /\ answer = None

-----------------------------------------------------------------------------
(* The registry *)

\* The regular expression of a path: a parameter is any one segment.
Matches(pattern, path) ==
    /\ Len(pattern) = Len(path)
    /\ \A i \in DOMAIN pattern : pattern[i] \in Params \/ pattern[i] = path[i]

HasParam(path) == \E i \in DOMAIN path : path[i] \in Params

\* A mutated form of register: a route with a parameter has a pattern only.
registerPattern(p) ==
    LET key == <<p.method, p.path>> IN
    /\ routePermissions' =
            [k \in DOMAIN routePermissions \union (IF HasParam(p.path) THEN {} ELSE {key}) |->
                IF k = key THEN p ELSE routePermissions[k]]
    /\ pathPatterns' = IF HasParam(p.path) /\ ~Contains(pathPatterns, key)
                       THEN Append(pathPatterns, key) ELSE pathPatterns

\* A key that is registered again keeps its place.
register(p) ==
    LET key == <<p.method, p.path>> IN
    /\ routePermissions' =
            [k \in DOMAIN routePermissions \union {key} |->
                IF k = key THEN p ELSE routePermissions[k]]
    /\ pathPatterns' = IF HasParam(p.path) /\ ~Contains(pathPatterns, key)
                       THEN Append(pathPatterns, key) ELSE pathPatterns

Register ==
    /\ loaded < Len(config)
    /\ register(config[loaded + 1])
    /\ loaded' = loaded + 1
    /\ UNCHANGED <<config, permissionCache, answer>>

\* The keys to try for a method: the exact one, or else the first pattern.
ExactKey(path, method) == {<<method, path>>} \intersect DOMAIN routePermissions
PatternKey(path, method) ==
    LET hits == {i \in DOMAIN pathPatterns :
                    pathPatterns[i][1] = method /\ Matches(pathPatterns[i][2], path)}
    IN  {pathPatterns[i] : i \in {j \in hits : \A k \in hits : j <= k}}

\* A mutated form of Tried: ALL is tried before patterns.
TriedAllFirst(path, method) ==
    <<ExactKey(path, method), ExactKey(path, ALL),
      PatternKey(path, method), PatternKey(path, ALL)>>

Tried(path, method) ==
    <<ExactKey(path, method), PatternKey(path, method),
      ExactKey(path, ALL), PatternKey(path, ALL)>>

getRoutePermission(path, method) ==
    LET tried == Tried(path, method)
        hits == {i \in DOMAIN tried : tried[i] # {}}
    IN  IF hits = {} THEN None
        ELSE routePermissions[CHOOSE k \in tried[Min(hits)] : TRUE]

\* The route of a request, as the registry has it.
RouteOf(q) == getRoutePermission(q.path, q.method)

getRequiredPermissions(q) ==
    CASE RouteOf(q) = None -> <<>>
      [] RouteOf(q) # None /\ RouteOf(q).permissions # None -> RouteOf(q).permissions
      [] OTHER -> IF RouteOf(q).group # None THEN RouteOf(q).group ELSE <<>>

requiresAllPermissions(q) == RouteOf(q) = None \/ RouteOf(q).requireAll # FALSE

-----------------------------------------------------------------------------
(* The permission service *)

\* A mutated form of CacheKey: one entry for a permission, whatever the role.
CacheKeyShared(role, permission) == <<permission>>

CacheKey(role, permission) == <<role, permission>>

hasPermission(cache, role, permission) ==
    IF CacheKey(role, permission) \in DOMAIN cache THEN cache[CacheKey(role, permission)]
    ELSE permission \in PermissionsOf[role]

\* every stops at the first permission the role lacks, some at the first it has.
Stops(cache, role, required, all) ==
    {i \in DOMAIN required : hasPermission(cache, role, required[i]) # all}

Granted(cache, role, required, all) == all <=> Stops(cache, role, required, all) = {}

\* The cache after the permissions up to there were asked for.
Remembered(cache, role, required, all) ==
    LET stops == Stops(cache, role, required, all)
        asked == {i \in DOMAIN required : \A j \in stops : i <= j}
        new   == {CacheKey(role, required[i]) : i \in asked}
    IN  [k \in DOMAIN cache \union new |->
            IF k \in DOMAIN cache THEN cache[k]
            ELSE \E i \in asked : k = CacheKey(role, required[i])
                                  /\ required[i] \in PermissionsOf[role]]

\* clearCache has no caller at present; it may be called at any time.
ClearCache ==
    /\ permissionCache' = <<>>
    /\ UNCHANGED <<config, loaded, routePermissions, pathPatterns, answer>>

-----------------------------------------------------------------------------
(* The guard *)

\* Flagged by the decorators of the handler or in the registry.
Flagged(q, flag) ==
    \/ flag \in q.marks
    \/ RouteOf(q) # None /\ flag \in RouteOf(q).flags

Skipped(q) == \E flag \in Skips : Flagged(q, flag)

\* A mutated form of Authenticated: every route waits for the second factor.
AuthenticatedFully(q) ==
    /\ q.token \in Payload
    /\ ~q.token.enabled \/ q.token.verified

Authenticated(q) ==
    /\ q.token \in Payload
    /\ Flagged(q, "isTwoFactorVerify") \/ ~q.token.enabled \/ q.token.verified

\* Whether the permission service is asked about a request.
Asks(q) ==
    /\ ~Skipped(q)
    /\ Authenticated(q)
    /\ getRequiredPermissions(q) # <<>>
    /\ q.token.userType # None

\* What canActivate returns; it throws where it does not return true.
Admits(q) ==
    \/ Skipped(q)
    \/ Authenticated(q) /\ getRequiredPermissions(q) = <<>>
    \/ Asks(q) /\ Granted(permissionCache, q.token.userType, getRequiredPermissions(q),
                          requiresAllPermissions(q))

Answer(q) == answer' = [request |-> q, ok |-> Admits(q)]

\* canActivate decides by the flags and the token alone.
DecideByToken(q) ==
    /\ loaded = Len(config)
    /\ ~Asks(q)
    /\ Answer(q)
    /\ UNCHANGED <<config, loaded, routePermissions, pathPatterns, permissionCache>>

\* canActivate decides by the permissions of the role.
DecideByRole(q) ==
    /\ loaded = Len(config)
    /\ Asks(q)
    /\ Answer(q)
    /\ permissionCache' = Remembered(permissionCache, q.token.userType,
                                     getRequiredPermissions(q), requiresAllPermissions(q))
    /\ UNCHANGED <<config, loaded, routePermissions, pathPatterns>>

Next ==
    \/ Register
    \/ \E q \in Requests : DecideByToken(q) \/ DecideByRole(q)
    \/ ClearCache

Spec == Init /\ [][Next]_vars

-----------------------------------------------------------------------------
Registered == 1..loaded
KeyOf(i) == <<config[i].method, config[i].path>>

TypeOK ==
    /\ config \in Configs /\ loaded \in 0..Len(config)
    /\ DOMAIN routePermissions = {KeyOf(i) : i \in Registered}
    /\ \A k \in DOMAIN routePermissions : \E i \in Registered :
            k = KeyOf(i) /\ routePermissions[k] = config[i]
    /\ pathPatterns \in Seq(DOMAIN routePermissions)
    /\ \A k \in DOMAIN permissionCache : permissionCache[k] \in BOOLEAN
    /\ answer # None => answer.request \in Requests /\ answer.ok \in BOOLEAN

\* What is looked up.
Asked == {<<q.path, q.method>> : q \in Requests}

\* What lookups should find, said of the list that was registered: routes that
\* fit the request are compared by method, then by how they fit, then by age.
Instance(path, pattern) ==
    \E word \in [DOMAIN pattern -> ToSet(path)] :
        path = [i \in DOMAIN pattern |-> IF pattern[i] \in Params THEN word[i] ELSE pattern[i]]
Fits(i, path, method) ==
    config[i].method \in {method, ALL} /\ Instance(path, config[i].path)
Class(i, path) ==
    (IF config[i].method = ALL THEN 2 ELSE 0) + (IF config[i].path = path THEN 0 ELSE 1)
Age(i) == Min({j \in Registered : KeyOf(j) = KeyOf(i)})
Better(i, j, path) ==
    \/ Class(i, path) < Class(j, path)
    \/ Class(i, path) = Class(j, path) /\ Age(i) < Age(j)
    \/ KeyOf(i) = KeyOf(j) /\ i > j
Best(path, method) ==
    LET fitting == {i \in Registered : Fits(i, path, method)}
    IN  IF fitting = {} THEN None
        ELSE config[CHOOSE i \in fitting : \A j \in fitting \ {i} : Better(i, j, path)]

(***************************************************************************)
(* The two Maps answer like the list that was registered: the more         *)
(* specific route wins, then the one whose key came first, and of routes   *)
(* with one key the last.                                                  *)
(***************************************************************************)
LookupIsBest ==
    \A a \in Asked : getRoutePermission(a[1], a[2]) = Best(a[1], a[2])

\* Who should be let in by a route, said without the Maps and the memo.
EntitledBy(route, q) ==
    LET flags == q.marks \union (IF route = None THEN {} ELSE route.flags)
        required == IF route = None THEN <<>>
                    ELSE IF route.permissions # None THEN route.permissions
                    ELSE IF route.group # None THEN route.group ELSE <<>>
    IN  \/ flags \intersect Skips # {}
        \/ /\ q.token \in Payload
           /\ q.token.enabled => q.token.verified \/ "isTwoFactorVerify" \in flags
           /\ \/ required = <<>>
              \/ /\ q.token.userType # None
                 /\ LET has == PermissionsOf[q.token.userType] IN
                    IF route.requireAll = FALSE THEN ToSet(required) \intersect has # {}
                    ELSE ToSet(required) \subseteq has

Entitled(q) == EntitledBy(Best(q.path, q.method), q)

(***************************************************************************)
(* The guard lets in exactly the requests that are entitled to it, in      *)
(* whatever order requests and the memo's shortcuts come.                  *)
(***************************************************************************)
AnswersRight == answer # None => (answer.ok <=> Entitled(answer.request))
=============================================================================
