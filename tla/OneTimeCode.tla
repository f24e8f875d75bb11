------------------------------ MODULE OneTimeCode ------------------------------
(***************************************************************************)
(* The confirmation codes RedisService keeps: sign-up e-mail codes,        *)
(* password-reset codes, two-factor login codes and two-factor enabling    *)
(* codes.  A code is written with SET ... EX, which replaces the code that *)
(* was there, and is checked with a GET, a comparison in the process and a *)
(* DEL.  Each of the three is a round trip, and those of any number of     *)
(* requests interleave.                                                    *)
(*                                                                         *)
(* A stored entry carries, beside the code, what the properties need to    *)
(* know of it: the number of its issue, for whom it was meant, and when it *)
(* was stored.  The digits are drawn at random, so two issues may have the *)
(* same code.                                                              *)
(***************************************************************************)
EXTENDS Naturals

CONSTANTS
    Types,       \* EmailCodeType and TwoFactorCodeType
    Subjects,    \* e-mail addresses and user ids
    Codes,       \* the codes a generator may draw
    Clients,     \* the requests in flight at once
    TTL,         \* redisConfig.ttl, in ticks
    None,        \* what GET answers for an absent key
    MaxTime,     \* bound on the clock
    MaxIssues    \* bound on the number of codes stored

ASSUME TTLAssumption == TTL \in Nat \ {0}
ASSUME BoundsAssumption == MaxTime \in Nat /\ MaxIssues \in Nat

VARIABLES
    now,         \* the clock Redis expires keys by
    store,       \* Redis: the entry under each key, or None
    last,        \* the number of the last issue stored
    latest,      \* latest[t][s]: the last issue stored of type t for subject s
    pc,          \* pc[c]: the round trip request c is waiting for
    arg,         \* arg[c]: the type, subject and code of request c's call
    seen,        \* seen[c]: the entry request c's GET matched, before its DEL
    uses         \* uses[i]: how many verifications issue i has satisfied

vars == <<now, store, last, latest, pc, arg, seen, uses>>

Issues == 1..MaxIssues
Entry == [id: Issues, type: Types, subject: Subjects, code: Codes, born: 0..MaxTime]
Argument == [type: Types, subject: Subjects, code: Codes]
Key == Types \X Subjects

ASSUME NoneAssumption == None \notin Entry \union Argument

-----------------------------------------------------------------------------
\* A mutated form of getKey: one prefix for all types.
SharedPrefix(type, subject) == <<CHOOSE t \in Types : TRUE, subject>>

\* The key a code is kept under: a prefix for its type, then its subject.
getKey(type, subject) == <<type, subject>>

KeyOf(c) == getKey(arg[c].type, arg[c].subject)

Init ==
    /\ now = 0
    /\ store = [k \in Key |-> None]
    /\ last = 0
    /\ latest = [t \in Types |-> [s \in Subjects |-> 0]]
    /\ pc = [c \in Clients |-> "idle"]
    /\ arg = [c \in Clients |-> None]
    /\ seen = [c \in Clients |-> None]
    /\ uses = [i \in Issues |-> 0]

\* The call of request c is over; its caller has an answer or an exception.
Finish(c) ==
    /\ pc' = [pc EXCEPT ![c] = "idle"]
    /\ arg' = [arg EXCEPT ![c] = None]
    /\ seen' = [seen EXCEPT ![c] = None]

Call(c, t, s, d, round) ==
    /\ pc[c] = "idle"
    /\ pc' = [pc EXCEPT ![c] = round]
    /\ arg' = [arg EXCEPT ![c] = [type |-> t, subject |-> s, code |-> d]]
    /\ UNCHANGED <<now, store, last, latest, seen, uses>>

-----------------------------------------------------------------------------
(* Storing a code: save, set2FACode *)

\* A code d is drawn for subject s and sent to Redis.
Generate(c, t, s, d) == Call(c, t, s, d, "set")

NewEntry(c) ==
    [id |-> last + 1, type |-> arg[c].type, subject |-> arg[c].subject,
     code |-> arg[c].code, born |-> now]

\* A mutated form of Stored: SET ... NX leaves an older code in place.
StoredIfAbsent(c) ==
    /\ store' = [store EXCEPT ![KeyOf(c)] = IF @ = None THEN NewEntry(c) ELSE @]
    /\ last' = last + 1
    /\ latest' = [latest EXCEPT ![arg[c].type][arg[c].subject] = last + 1]

\* The SET takes effect: whatever was under the key is replaced and the
\* time to live starts again.
Stored(c) ==
    /\ store' = [store EXCEPT ![KeyOf(c)] = NewEntry(c)]
    /\ last' = last + 1
    /\ latest' = [latest EXCEPT ![arg[c].type][arg[c].subject] = last + 1]

\* Redis stores the code; the caller gets its answer or, when the reply is
\* lost, an exception.
Save(c) ==
    /\ pc[c] = "set"
    /\ last < MaxIssues
    /\ Stored(c)
    /\ Finish(c)
    /\ UNCHANGED <<now, uses>>

\* The SET fails before it takes effect.
SaveFails(c) ==
    /\ pc[c] = "set"
    /\ Finish(c)
    /\ UNCHANGED <<now, store, last, latest, uses>>

-----------------------------------------------------------------------------
(* Checking a code: verify, verify2FACode *)

\* A request asks whether d is the code of type t for subject s.
Submit(c, t, s, d) == Call(c, t, s, d, "get")

Matches(c) ==
    /\ store[KeyOf(c)] # None
    /\ store[KeyOf(c)].code = arg[c].code

\* A mutated form of Match: what was read is not kept.
MatchBlind(c) ==
    /\ pc[c] = "get"
    /\ Matches(c)
    /\ pc' = [pc EXCEPT ![c] = "del"]
    /\ UNCHANGED <<now, store, last, latest, arg, seen, uses>>

\* The GET answers with the code that was submitted.
Match(c) ==
    /\ pc[c] = "get"
    /\ Matches(c)
    /\ pc' = [pc EXCEPT ![c] = "del"]
    /\ seen' = [seen EXCEPT ![c] = store[KeyOf(c)]]
    /\ UNCHANGED <<now, store, last, latest, arg, uses>>

\* A mutated form of Mismatch: a wrong guess uses the code up.
MismatchDeletes(c) ==
    /\ pc[c] = "get"
    /\ ~Matches(c)
    /\ store' = [store EXCEPT ![KeyOf(c)] = None]
    /\ Finish(c)
    /\ UNCHANGED <<now, last, latest, uses>>

\* The GET answers with nothing or with another code: verify is false.
Mismatch(c) ==
    /\ pc[c] = "get"
    /\ ~Matches(c)
    /\ Finish(c)
    /\ UNCHANGED <<now, store, last, latest, uses>>

\* The GET fails; the caller sees an exception.
GetFails(c) ==
    /\ pc[c] = "get"
    /\ Finish(c)
    /\ UNCHANGED <<now, store, last, latest, uses>>

\* A mutated form of Deleted: the code is deleted under the prefix of
\* another type.
DeletedElsewhere(c) ==
    store' = [k \in Key |-> IF k[1] # arg[c].type /\ k[2] = arg[c].subject
                            THEN None ELSE store[k]]

\* The DEL removes whatever is under the key by now.
Deleted(c) == store' = [store EXCEPT ![KeyOf(c)] = None]

\* The DEL is acknowledged: verify is true.
Accept(c) ==
    /\ pc[c] = "del"
    /\ Deleted(c)
    /\ uses' = [uses EXCEPT ![seen[c].id] = @ + 1]
    /\ Finish(c)
    /\ UNCHANGED <<now, last, latest>>

\* The DEL fails, before or after it took effect: the caller sees an
\* exception although the code was right.
DelFails(c) ==
    /\ pc[c] = "del"
    /\ Deleted(c) \/ UNCHANGED store
    /\ Finish(c)
    /\ UNCHANGED <<now, last, latest, uses>>

-----------------------------------------------------------------------------
(* Time: Redis *)

\* A mutated form of Expired: an entry outlives its time by a tick.
ExpiredLate(e, t) == e.born + TTL < t

\* Entry e is past its time to live at time t.
Expired(e, t) == e.born + TTL <= t

\* Redis drops the entries whose time is up.
Expire ==
    store' = [k \in Key |-> IF store[k] # None /\ Expired(store[k], now + 1)
                            THEN None ELSE store[k]]

Tick ==
    /\ now < MaxTime
    /\ now' = now + 1
    /\ Expire
    /\ UNCHANGED <<last, latest, pc, arg, seen, uses>>

-----------------------------------------------------------------------------
Round(c) ==
    \/ Save(c) \/ SaveFails(c)
    \/ Match(c) \/ Mismatch(c) \/ GetFails(c)
    \/ Accept(c) \/ DelFails(c)

Next ==
    \/ \E c \in Clients : Round(c)
    \/ \E c \in Clients, t \in Types, s \in Subjects, d \in Codes :
            Generate(c, t, s, d) \/ Submit(c, t, s, d)
    \/ Tick

Spec == Init /\ [][Next]_vars

-----------------------------------------------------------------------------
StoreOK ==
    /\ now \in 0..MaxTime
    /\ store \in [Key -> Entry \union {None}]
    /\ last \in 0..MaxIssues
    /\ latest \in [Types -> [Subjects -> 0..MaxIssues]]
    /\ uses \in [Issues -> Nat]

CallOK ==
    /\ pc \in [Clients -> {"idle", "set", "get", "del"}]
    /\ arg \in [Clients -> Argument \union {None}]
    /\ seen \in [Clients -> Entry \union {None}]
    /\ \A c \in Clients : pc[c] # "idle" => arg[c] \in Argument
    /\ \A c \in Clients : pc[c] = "del" => seen[c] \in Entry

TypeOK == StoreOK /\ CallOK

(***************************************************************************)
(* A verification is about to succeed only on a code that was issued for   *)
(* the purpose and the subject it asks about: a two-factor login code never *)
(* confirms the enabling of two-factor, nor one user's code another user.  *)
(***************************************************************************)
MatchesItsIssue ==
    \A c \in Clients : pc[c] = "del" =>
        /\ seen[c].type = arg[c].type
        /\ seen[c].subject = arg[c].subject
        /\ seen[c].code = arg[c].code

(***************************************************************************)
(* Once a verification has succeeded on an issue, that issue is no longer  *)
(* in Redis, so no verification that starts afterwards can succeed on it.  *)
(***************************************************************************)
SpentIsGone == \A k \in Key : store[k] # None => uses[store[k].id] = 0

(***************************************************************************)
(* Sending a new code withdraws the one sent before: what Redis holds for  *)
(* a type and a subject is the last code stored for them.                  *)
(***************************************************************************)
OnlyLatest ==
    \A k \in Key : store[k] # None =>
        store[k].id = latest[store[k].type][store[k].subject]

(***************************************************************************)
(* A code is matched only while it is younger than the time to live that   *)
(* redisConfig gives it.                                                   *)
(***************************************************************************)
MatchedInTime ==
    [][\A c \in Clients : pc[c] = "get" /\ pc'[c] = "del" =>
            now < seen'[c].born + TTL]_vars

(***************************************************************************)
(* Nobody loses a code to a wrong guess.  A code that is neither replaced  *)
(* nor past its time leaves Redis only by the DEL of a verification whose  *)
(* GET had matched it, or an older code of the same type and subject: the  *)
(* DEL removes whatever is under the key by then, so a code sent between   *)
(* the two is lost to the one before it, and to nothing else.              *)
(***************************************************************************)
LostToMatchOnly ==
    [][\A k \in Key : store[k] # None /\ store'[k] = None /\ ~Expired(store[k], now') =>
            \E c \in Clients :
                /\ pc[c] = "del" /\ pc'[c] = "idle"
                /\ seen[c].type = store[k].type /\ seen[c].subject = store[k].subject
                /\ seen[c].id <= store[k].id]_vars

\* What CodeLifecycle sees of the service: an issue is live while an entry
\* has it, and is held by the verifications between their GET and their DEL.
PhaseOf(i) ==
    IF i > last THEN "unborn"
    ELSE IF \E k \in Key : store[k] # None /\ store[k].id = i THEN "live" ELSE "gone"
Pending(i) == {c \in Clients : pc[c] = "del" /\ seen[c].id = i}

phaseMap == [i \in Issues |-> PhaseOf(i)]
holdersMap == [i \in Issues |-> Pending(i)]

Lifecycle == INSTANCE CodeLifecycle WITH phase <- phaseMap, holders <- holdersMap

(***************************************************************************)
(* The service keeps the promise of CodeLifecycle: issues are born, live   *)
(* and are gone for good, and a verification succeeds only on an issue it  *)
(* saw live.                                                               *)
(***************************************************************************)
LifecycleSpec == Lifecycle!Spec
=============================================================================
