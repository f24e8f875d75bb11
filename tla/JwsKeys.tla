-------------------------------- MODULE JwsKeys --------------------------------
(***************************************************************************)
(* The signing keys of TokenService and AdminTokenService.  Each service   *)
(* object keeps the promise of its key pair in jwsKeysPromise: the first   *)
(* call of getJwsKeys starts loadOrGenerateKeys, later calls await the     *)
(* same promise.  A load reads the pair from Redis; when there is none it  *)
(* generates one and stores it there with a time to live, for the other    *)
(* processes and for its own next life.  The reads and writes of several   *)
(* processes interleave, a load may fail at any of its awaits, Redis drops *)
(* the pair when its time is up, and a process may crash and start again.  *)
(*                                                                         *)
(* The two services run the same code under different key names; a name    *)
(* here is either of them.  Key pairs are numbers, each generated once.    *)
(***************************************************************************)
EXTENDS Naturals, FiniteSets

CONSTANTS
    Procs,       \* server processes
    Names,       \* JWS_KEYS_NAME and ADMIN_JWS_KEYS_NAME
    Callers,     \* the calls of getJwsKeys that may be under way
    Home(_),     \* the process a caller runs in
    Name(_),     \* the key name of the service a caller uses
    TTL,         \* ttlInDays of setAuthKeys, in ticks
    None,
    Failure,     \* the ConflictException a failed load rejects with
    MaxKeys,     \* bound on the key pairs generated
    MaxTime      \* bound on the clock

ASSUME CallersAssumption == \A c \in Callers : Home(c) \in Procs /\ Name(c) \in Names
ASSUME TTLAssumption == TTL \in Nat \ {0}
ASSUME BoundsAssumption == MaxKeys \in Nat /\ MaxTime \in Nat

VARIABLES
    now,       \* the clock Redis expires keys by
    slot,      \* slot[n]: the pair Redis keeps under name n and when it was stored
    writes,    \* writes[n]: how often name n was written
    keys,      \* the number of pairs generated so far
    memo,      \* memo[x]: jwsKeysPromise of service object x: the caller whose
               \* load it is, or None
    load,      \* load[c]: how far the load that caller c started has come
    pair,      \* pair[c]: the pair that load has read or generated
    saw,       \* saw[c]: writes[Name(c)] when that load read Redis
    waits,     \* waits[c]: the caller whose load c awaits, or None
    out,       \* out[c]: the last answer c got in this life of its process
    signed,    \* the pairs that callers have been given, to sign tokens with
    expired    \* the pairs Redis has dropped because their time was up

loadVars == <<load, pair, saw>>
vars == <<now, slot, writes, keys, memo, load, pair, saw, waits, out, signed, expired>>

Pairs == 1..MaxKeys
Slot == [key: Pairs, born: 0..MaxTime, number: Nat]
Services == Procs \X Names
ServiceOf(c) == <<Home(c), Name(c)>>

ASSUME NoneAssumption == None \notin Slot \union Pairs \union Callers \union {Failure}
ASSUME FailureAssumption == Failure \notin Pairs

Init ==
    /\ now = 0
    /\ slot = [n \in Names |-> None]
    /\ writes = [n \in Names |-> 0]
    /\ keys = 0
    /\ memo = [x \in Services |-> None]
    /\ load = [c \in Callers |-> "none"]
    /\ pair = [c \in Callers |-> None]
    /\ saw = [c \in Callers |-> 0]
    /\ waits = [c \in Callers |-> None]
    /\ out = [c \in Callers |-> None]
    /\ signed = {}
    /\ expired = {}

-----------------------------------------------------------------------------
(* getJwsKeys *)

\* A mutated form of StartLoad: the promise is not kept.
StartUnkept(c) ==
    /\ waits[c] = None
    /\ waits' = [waits EXCEPT ![c] = c]
    /\ load' = [load EXCEPT ![c] = "get"]
    /\ UNCHANGED <<now, slot, writes, keys, memo, pair, saw, out, signed, expired>>

\* The first call of a life starts a load and keeps its promise.
StartLoad(c) ==
    /\ waits[c] = None
    /\ memo[ServiceOf(c)] = None
    /\ memo' = [memo EXCEPT ![ServiceOf(c)] = c]
    /\ waits' = [waits EXCEPT ![c] = c]
    /\ load' = [load EXCEPT ![c] = "get"]
    /\ UNCHANGED <<now, slot, writes, keys, pair, saw, out, signed, expired>>

\* Later calls await the promise that is there.
JoinLoad(c) ==
    /\ waits[c] = None
    /\ memo[ServiceOf(c)] # None
    /\ waits' = [waits EXCEPT ![c] = memo[ServiceOf(c)]]
    /\ UNCHANGED <<now, slot, writes, keys, memo, loadVars, out, signed, expired>>

Outcome(d) == IF load[d] = "ready" THEN pair[d] ELSE Failure

\* A mutated form of Resume: a rejection is not passed on.
ResumeReady(c) ==
    /\ waits[c] # None
    /\ load[waits[c]] = "ready"
    /\ out' = [out EXCEPT ![c] = Outcome(waits[c])]
    /\ signed' = signed \union {Outcome(waits[c])}
    /\ waits' = [waits EXCEPT ![c] = None]
    /\ UNCHANGED <<now, slot, writes, keys, memo, loadVars, expired>>

\* The promise that caller c awaits is settled.
Resume(c) ==
    /\ waits[c] # None
    /\ load[waits[c]] \in {"ready", "failed"}
    /\ out' = [out EXCEPT ![c] = Outcome(waits[c])]
    /\ signed' = signed \union ({Outcome(waits[c])} \ {Failure})
    /\ waits' = [waits EXCEPT ![c] = None]
    /\ UNCHANGED <<now, slot, writes, keys, memo, loadVars, expired>>

-----------------------------------------------------------------------------
(* loadOrGenerateKeys *)

\* A mutated form of Read: generate a pair whatever Redis holds.
ReadNothing(c) ==
    /\ load[c] = "get"
    /\ saw' = [saw EXCEPT ![c] = writes[Name(c)]]
    /\ load' = [load EXCEPT ![c] = "generate"]
    /\ UNCHANGED <<pair, now, slot, writes, keys, memo, waits, out, signed, expired>>

\* A mutated form of Read: one name for both services.
ReadAnyName(c) ==
    /\ load[c] = "get"
    /\ saw' = [saw EXCEPT ![c] = writes[Name(c)]]
    /\ \/ \E n \in Names :
            /\ slot[n] # None
            /\ pair' = [pair EXCEPT ![c] = slot[n].key]
            /\ load' = [load EXCEPT ![c] = "ready"]
       \/ /\ \A n \in Names : slot[n] = None
          /\ load' = [load EXCEPT ![c] = "generate"]
          /\ UNCHANGED pair
    /\ UNCHANGED <<now, slot, writes, keys, memo, waits, out, signed, expired>>

\* getAuthKeys answers: with a pair, which is imported and used, or with null.
Read(c) ==
    /\ load[c] = "get"
    /\ saw' = [saw EXCEPT ![c] = writes[Name(c)]]
    /\ \/ /\ slot[Name(c)] # None
          /\ pair' = [pair EXCEPT ![c] = slot[Name(c)].key]
          /\ load' = [load EXCEPT ![c] = "ready"]
       \/ /\ slot[Name(c)] = None
          /\ load' = [load EXCEPT ![c] = "generate"]
          /\ UNCHANGED pair
    /\ UNCHANGED <<now, slot, writes, keys, memo, waits, out, signed, expired>>

\* A mutated form of Generate: the pair is not assigned to the caller's field.
GenerateUnassigned(c) ==
    /\ load[c] = "generate"
    /\ keys < MaxKeys
    /\ keys' = keys + 1
    /\ load' = [load EXCEPT ![c] = "store"]
    /\ UNCHANGED <<pair, now, slot, writes, memo, saw, waits, out, signed, expired>>

\* generateKeyPair and the two exports.
Generate(c) ==
    /\ load[c] = "generate"
    /\ keys < MaxKeys
    /\ keys' = keys + 1
    /\ pair' = [pair EXCEPT ![c] = keys + 1]
    /\ load' = [load EXCEPT ![c] = "store"]
    /\ UNCHANGED <<now, slot, writes, memo, saw, waits, out, signed, expired>>

\* SETEX takes effect, over whatever is stored by now.
Written(c) ==
    /\ writes' = [writes EXCEPT ![Name(c)] = @ + 1]
    /\ slot' = [slot EXCEPT ![Name(c)] =
                    [key |-> pair[c], born |-> now, number |-> writes[Name(c)] + 1]]

\* setAuthKeys is acknowledged and the load is done.
Store(c) ==
    /\ load[c] = "store"
    /\ Written(c)
    /\ load' = [load EXCEPT ![c] = "ready"]
    /\ UNCHANGED <<now, keys, memo, pair, saw, waits, out, signed, expired>>

\* A mutated form of LoadFails: a failed load is forgotten.
LoadFailsOnce(c) ==
    /\ load[c] \in {"get", "generate", "store"}
    /\ load' = [load EXCEPT ![c] = "failed"]
    /\ \/ load[c] = "store" /\ Written(c)
       \/ UNCHANGED <<slot, writes>>
    /\ memo' = [memo EXCEPT ![ServiceOf(c)] = None]
    /\ UNCHANGED <<now, keys, pair, saw, waits, out, signed, expired>>

\* One of the awaits throws: the promise is rejected, and it stays in
\* jwsKeysPromise.  A SETEX may have taken effect although it threw.
LoadFails(c) ==
    /\ load[c] \in {"get", "generate", "store"}
    /\ load' = [load EXCEPT ![c] = "failed"]
    /\ \/ load[c] = "store" /\ Written(c)
       \/ UNCHANGED <<slot, writes>>
    /\ UNCHANGED <<now, keys, memo, pair, saw, waits, out, signed, expired>>

-----------------------------------------------------------------------------
(* The environment *)

PastTTL(n) == slot[n] # None /\ slot[n].born + TTL <= now + 1

\* Time passes; Redis drops the pairs whose time to live is over.
Tick ==
    /\ now < MaxTime
    /\ now' = now + 1
    /\ slot' = [n \in Names |-> IF PastTTL(n) THEN None ELSE slot[n]]
    /\ expired' = expired \union {slot[n].key : n \in {m \in Names : PastTTL(m)}}
    /\ UNCHANGED <<writes, keys, memo, loadVars, waits, out, signed>>

\* A process dies and starts again; what it kept in memory is lost.
Crash(p) ==
    /\ memo' = [x \in Services |-> IF x[1] = p THEN None ELSE memo[x]]
    /\ load' = [c \in Callers |-> IF Home(c) = p THEN "none" ELSE load[c]]
    /\ pair' = [c \in Callers |-> IF Home(c) = p THEN None ELSE pair[c]]
    /\ saw' = [c \in Callers |-> IF Home(c) = p THEN 0 ELSE saw[c]]
    /\ waits' = [c \in Callers |-> IF Home(c) = p THEN None ELSE waits[c]]
    /\ out' = [c \in Callers |-> IF Home(c) = p THEN None ELSE out[c]]
    /\ UNCHANGED <<now, slot, writes, keys, signed, expired>>

-----------------------------------------------------------------------------
Load(c) == Read(c) \/ Generate(c) \/ Store(c) \/ LoadFails(c)

Next ==
    \/ \E c \in Callers : StartLoad(c) \/ JoinLoad(c) \/ Resume(c) \/ Load(c)
    \/ \E p \in Procs : Crash(p)
    \/ Tick

Spec == Init /\ [][Next]_vars

\* Every command to Redis ends, with an answer or, after the retries of the
\* client library, with an error; the event loop runs what is ready to run.
FairSpec == Spec /\ \A c \in Callers : WF_vars(Load(c)) /\ WF_vars(Resume(c))

-----------------------------------------------------------------------------
TypeOK ==
    /\ now \in 0..MaxTime
    /\ slot \in [Names -> Slot \union {None}]
    /\ writes \in [Names -> Nat]
    /\ keys \in 0..MaxKeys
    /\ memo \in [Services -> Callers \union {None}]
    /\ load \in [Callers -> {"none", "get", "generate", "store", "ready", "failed"}]
    /\ pair \in [Callers -> Pairs \union {None}]
    /\ saw \in [Callers -> Nat]
    /\ waits \in [Callers -> Callers \union {None}]
    /\ out \in [Callers -> Pairs \union {Failure, None}]
    /\ signed \subseteq Pairs
    /\ expired \subseteq Pairs
    /\ \A c \in Callers : load[c] \in {"store", "ready"} => pair[c] \in Pairs

(***************************************************************************)
(* In one life of a process a service has one outcome: everyone who asks   *)
(* it for its keys gets the same pair, or everyone gets the failure.  In   *)
(* particular the access and the refresh token of one createTokens, which  *)
(* are signed concurrently, are signed with the same pair, and a service   *)
(* whose load failed stays without keys until its process is restarted.    *)
(***************************************************************************)
OneOutcomePerLife ==
    \A c, d \in Callers :
        ServiceOf(c) = ServiceOf(d) /\ out[c] # None /\ out[d] # None => out[c] = out[d]

(***************************************************************************)
(* A load generates and stores a pair over another one only if that other  *)
(* one was written after the load had read Redis: a pair that a load could *)
(* see when it started is never replaced by it.                            *)
(***************************************************************************)
ReplacesOnlyInRace ==
    \A c \in Callers :
        load[c] \in {"generate", "store"} /\ slot[Name(c)] # None =>
            slot[Name(c)].number > saw[c]

(***************************************************************************)
(* Users' tokens and administrators' tokens are never signed with the same *)
(* pair, whatever fails and whoever restarts.                              *)
(***************************************************************************)
NamesApart ==
    \A c, d \in Callers : Name(c) # Name(d) /\ load[c] = "ready" /\ load[d] = "ready"
        => pair[c] # pair[d]

(***************************************************************************)
(* With one process (and one name), the tokens that were signed stay       *)
(* verifiable across restarts: the pair of a completed load is the pair    *)
(* every token was signed with, unless Redis has dropped that one for age. *)
(***************************************************************************)
TokensSurviveRestart ==
    \A c \in Callers : load[c] = "ready" => signed \subseteq expired \union {pair[c]}

(***************************************************************************)
(* Whoever awaits the keys is answered, with them or with the failure.     *)
(***************************************************************************)
CallersAnswered == \A c \in Callers : waits[c] # None ~> waits[c] = None

\* The outcome service object x has settled on, if it has.
Settled(x) ==
    IF memo[x] # None /\ load[memo[x]] \in {"ready", "failed"}
    THEN Outcome(memo[x]) ELSE None

Once == INSTANCE OnceCell WITH
    Cells <- Services, CellOf <- ServiceOf, Outcomes <- Pairs \union {Failure},
    cell <- [x \in Services |-> Settled(x)]

(***************************************************************************)
(* The memoised promise implements a cell that is settled once in a life.  *)
(***************************************************************************)
OnceSpec == Once!Spec
=============================================================================
