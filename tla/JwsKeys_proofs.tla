---------------------------- MODULE JwsKeys_proofs ----------------------------
(***************************************************************************)
(* Proofs about JwsKeys, for any numbers of processes, key names, callers  *)
(* and key pairs: what is signed with what, and that callers are answered. *)
(***************************************************************************)
EXTENDS JwsKeys, TLAPS

\* The promise of a service object is the load of one of its own callers.
MemoOwned ==
    \A x \in Services : memo[x] # None => ServiceOf(memo[x]) = x /\ load[memo[x]] # "none"

\* There is no load, and nobody waits for one, but the kept promise's.
OnlyKept ==
    \A c \in Callers :
        /\ load[c] # "none" => memo[ServiceOf(c)] = c
        /\ waits[c] # None => memo[ServiceOf(c)] = waits[c]

\* Every answer given in this life is the outcome of the kept promise.
Answers == \A c \in Callers : out[c] # None => out[c] = Settled(ServiceOf(c))

IInv == TypeOK /\ MemoOwned /\ OnlyKept /\ Answers

-----------------------------------------------------------------------------
LEMMA ServiceOK == ASSUME NEW c \in Callers PROVE ServiceOf(c) \in Services
  BY CallersAssumption DEF ServiceOf, Services

(***************************************************************************)
(* Initially no promise is kept.                                           *)
(***************************************************************************)
LEMMA InitInv == Init => IInv
  BY BoundsAssumption DEF Init, IInv, TypeOK, MemoOwned, OnlyKept, Answers

(***************************************************************************)
(* Every step preserves the types.                                         *)
(***************************************************************************)
LEMMA TypeStep == TypeOK /\ [Next]_vars => TypeOK'
<1> SUFFICES ASSUME TypeOK, [Next]_vars PROVE TypeOK'
  OBVIOUS
<1>1. ASSUME NEW c \in Callers, StartLoad(c) PROVE TypeOK'
  BY <1>1 DEF StartLoad, TypeOK
<1>2. ASSUME NEW c \in Callers, JoinLoad(c) PROVE TypeOK'
  BY <1>2, ServiceOK DEF JoinLoad, TypeOK, loadVars
<1>3. ASSUME NEW c \in Callers, Resume(c) PROVE TypeOK'
  <2>1. waits[c] \in Callers
    BY <1>3 DEF Resume, TypeOK
  <2>2. Outcome(waits[c]) \in Pairs \union {Failure}
    BY <1>3, <2>1 DEF Resume, Outcome, TypeOK
  <2> QED BY <1>3, <2>2 DEF Resume, TypeOK, loadVars
<1>4. ASSUME NEW c \in Callers, Read(c) PROVE TypeOK'
  <2>1. Name(c) \in Names /\ writes[Name(c)] \in Nat
    BY CallersAssumption DEF TypeOK
  <2>2. CASE slot[Name(c)] # None
    <3>1. slot[Name(c)].key \in Pairs
      BY <2>1, <2>2 DEF TypeOK, Slot
    <3> QED BY <1>4, <2>1, <2>2, <3>1 DEF Read, TypeOK
  <2>3. CASE slot[Name(c)] = None
    BY <1>4, <2>1, <2>3 DEF Read, TypeOK
  <2> QED BY <2>2, <2>3
<1>5. ASSUME NEW c \in Callers, Generate(c) PROVE TypeOK'
  <2>1. keys + 1 \in Pairs /\ keys + 1 \in 0..MaxKeys
    BY <1>5, BoundsAssumption DEF Generate, TypeOK, Pairs
  <2> QED BY <1>5, <2>1 DEF Generate, TypeOK
<1>6. ASSUME NEW c \in Callers, load[c] = "store", Written(c)
      PROVE  slot' \in [Names -> Slot \union {None}] /\ writes' \in [Names -> Nat]
  <2>1. Name(c) \in Names /\ writes[Name(c)] \in Nat /\ pair[c] \in Pairs /\ now \in 0..MaxTime
    BY <1>6, CallersAssumption DEF TypeOK
  <2>2. [key |-> pair[c], born |-> now, number |-> writes[Name(c)] + 1] \in Slot
    BY <2>1 DEF Slot
  <2>3. \A n \in Names : writes[n] + 1 \in Nat
    BY DEF TypeOK
  <2> QED BY <1>6, <2>2, <2>3 DEF Written, TypeOK
<1>7. ASSUME NEW c \in Callers, Store(c) PROVE TypeOK'
  BY <1>6, <1>7 DEF Store, TypeOK
<1>8. ASSUME NEW c \in Callers, LoadFails(c) PROVE TypeOK'
  <2>1. slot' \in [Names -> Slot \union {None}] /\ writes' \in [Names -> Nat]
    BY <1>6, <1>8 DEF LoadFails, TypeOK
  <2> QED BY <1>8, <2>1 DEF LoadFails, TypeOK
<1>9. ASSUME NEW p \in Procs, Crash(p) PROVE TypeOK'
  BY <1>9 DEF Crash, TypeOK
<1>10. CASE Tick
  <2>1. now' \in 0..MaxTime
    BY <1>10, BoundsAssumption DEF Tick, TypeOK
  <2>2. expired' \subseteq Pairs
    BY <1>10 DEF Tick, TypeOK, PastTTL, Slot
  <2>3. slot' \in [Names -> Slot \union {None}]
    BY <1>10 DEF Tick, TypeOK
  <2> QED BY <1>10, <2>1, <2>2, <2>3 DEF Tick, TypeOK, loadVars
<1>11. CASE UNCHANGED vars
  BY <1>11 DEF vars, TypeOK
<1> QED
  BY <1>1, <1>2, <1>3, <1>4, <1>5, <1>7, <1>8, <1>9, <1>10, <1>11 DEF Next, Load

\* Steps that leave the promises, the loads' outcomes and the callers alone.
LEMMA Frame ==
    ASSUME IInv, TypeOK', UNCHANGED <<memo, load, pair, waits, out>>
    PROVE  IInv'
BY DEF IInv, MemoOwned, OnlyKept, Answers, Settled, Outcome

\* A load that moves on without having been settled disturbs no answer.
LEMMA Progress ==
    ASSUME IInv, TypeOK', NEW c \in Callers,
           load[c] \in {"get", "generate", "store"},
           \E s \in {"generate", "store", "ready", "failed"} : load' = [load EXCEPT ![c] = s],
           \A d \in Callers : d # c => pair'[d] = pair[d],
           UNCHANGED <<memo, waits, out>>
    PROVE  IInv'
<1>0. TypeOK
  BY DEF IInv
<1>1. \A d \in Callers : /\ load'[d] # "none" <=> load[d] # "none"
                         /\ d # c => load'[d] = load[d]
  BY <1>0 DEF TypeOK
<1>2. MemoOwned' /\ OnlyKept'
  BY <1>0, <1>1 DEF IInv, MemoOwned, OnlyKept, TypeOK
<1>3. \A x \in Services : Settled(x) # None => Settled(x)' = Settled(x)
  BY <1>0, <1>1 DEF Settled, Outcome, TypeOK
<1>4. Answers'
  BY <1>3, ServiceOK DEF IInv, Answers
<1> QED BY <1>2, <1>4 DEF IInv

(***************************************************************************)
(* Every step preserves the inductive invariant.                           *)
(***************************************************************************)
LEMMA InvStep == IInv /\ [Next]_vars => IInv'
<1> SUFFICES ASSUME IInv, [Next]_vars PROVE IInv'
  OBVIOUS
<1>0. TypeOK /\ TypeOK'
  BY TypeStep DEF IInv
<1>1. ASSUME NEW c \in Callers, StartLoad(c) PROVE IInv'
  <2>1. /\ \A x \in Services : memo'[x] = IF x = ServiceOf(c) THEN c ELSE memo[x]
        /\ \A d \in Callers : load'[d] = IF d = c THEN "get" ELSE load[d]
        /\ \A d \in Callers : waits'[d] = IF d = c THEN c ELSE waits[d]
        /\ memo[ServiceOf(c)] = None
        /\ UNCHANGED <<pair, out>>
    BY <1>0, <1>1 DEF StartLoad, TypeOK
  <2>2. MemoOwned'
    BY <1>0, <2>1 DEF IInv, MemoOwned, TypeOK
  <2>3. \A d \in Callers : ServiceOf(d) = ServiceOf(c) => load[d] = "none" /\ waits[d] = None
    <3> TAKE d \in Callers
    <3> HAVE ServiceOf(d) = ServiceOf(c)
    <3>1. None \notin Callers
      BY NoneAssumption
    <3> QED BY <1>0, <2>1, <3>1 DEF IInv, OnlyKept, TypeOK
  <2>4. OnlyKept'
    BY <2>1, <2>3, ServiceOK DEF IInv, OnlyKept
  <2>5. \A d \in Callers : out[d] # None =>
            /\ ServiceOf(d) # ServiceOf(c)
            /\ Settled(ServiceOf(d))' = Settled(ServiceOf(d))
    <3> SUFFICES ASSUME NEW d \in Callers, out[d] # None
                 PROVE  /\ ServiceOf(d) # ServiceOf(c)
                        /\ Settled(ServiceOf(d))' = Settled(ServiceOf(d))
      OBVIOUS
    <3>1. ServiceOf(d) \in Services /\ Settled(ServiceOf(d)) # None
      BY ServiceOK DEF IInv, Answers
    <3>2. ServiceOf(d) # ServiceOf(c)
      BY <2>1, <3>1 DEF Settled
    <3>3. memo'[ServiceOf(d)] = memo[ServiceOf(d)] /\ memo[ServiceOf(d)] \in Callers
          /\ load[memo[ServiceOf(d)]] \in {"ready", "failed"}
      BY <1>0, <2>1, <3>1, <3>2 DEF Settled, TypeOK
    <3>4. memo[ServiceOf(d)] # c
      BY <2>3, <3>3
    <3> QED BY <2>1, <3>2, <3>3, <3>4 DEF Settled, Outcome
  <2>6. Answers'
    BY <2>1, <2>5 DEF IInv, Answers
  <2> QED BY <1>0, <2>2, <2>4, <2>6 DEF IInv
<1>2. ASSUME NEW c \in Callers, JoinLoad(c) PROVE IInv'
  <2>1. /\ UNCHANGED <<memo, load, pair, out>>
        /\ \A d \in Callers : waits'[d] = IF d = c THEN memo[ServiceOf(c)] ELSE waits[d]
    BY <1>0, <1>2 DEF JoinLoad, TypeOK, loadVars
  <2> QED BY <1>0, <2>1 DEF IInv, MemoOwned, OnlyKept, Answers, Settled, Outcome
<1>3. ASSUME NEW c \in Callers, Resume(c) PROVE IInv'
  <2>1. /\ UNCHANGED <<memo, load, pair>>
        /\ \A d \in Callers : waits'[d] = IF d = c THEN None ELSE waits[d]
        /\ \A d \in Callers : out'[d] = IF d = c THEN Outcome(waits[c]) ELSE out[d]
        /\ waits[c] # None /\ load[waits[c]] \in {"ready", "failed"}
    BY <1>0, <1>3 DEF Resume, TypeOK, loadVars
  <2>2. memo[ServiceOf(c)] = waits[c] /\ Settled(ServiceOf(c)) = Outcome(waits[c])
    BY <2>1 DEF IInv, OnlyKept, Settled
  <2>3. \A x \in Services : Settled(x)' = Settled(x)
    BY <2>1 DEF Settled, Outcome
  <2>4. Answers'
    BY <2>1, <2>2, <2>3, ServiceOK DEF IInv, Answers
  <2>5. MemoOwned' /\ OnlyKept'
    BY <2>1 DEF IInv, MemoOwned, OnlyKept
  <2> QED BY <1>0, <2>4, <2>5 DEF IInv
<1>4. ASSUME NEW c \in Callers, Load(c) PROVE IInv'
  <2>1. /\ load[c] \in {"get", "generate", "store"}
        /\ \E s \in {"generate", "store", "ready", "failed"} : load' = [load EXCEPT ![c] = s]
        /\ UNCHANGED <<memo, waits, out>>
    BY <1>4 DEF Load, Read, Generate, Store, LoadFails
  <2>2. \A d \in Callers : d # c => pair'[d] = pair[d]
    BY <1>0, <1>4 DEF Load, Read, Generate, Store, LoadFails, TypeOK
  <2> QED BY <1>0, <2>1, <2>2, Progress
<1>5. ASSUME NEW p \in Procs, Crash(p) PROVE IInv'
  <2>1. \A x \in Services : memo'[x] = IF x[1] = p THEN None ELSE memo[x]
    BY <1>5 DEF Crash
  <2>2. \A d \in Callers :
            /\ load'[d] = IF Home(d) = p THEN "none" ELSE load[d]
            /\ pair'[d] = IF Home(d) = p THEN None ELSE pair[d]
    BY <1>5 DEF Crash
  <2>3. \A d \in Callers :
            /\ waits'[d] = IF Home(d) = p THEN None ELSE waits[d]
            /\ out'[d] = IF Home(d) = p THEN None ELSE out[d]
    BY <1>5 DEF Crash
  <2>4. \A d \in Callers : ServiceOf(d) \in Services /\ ServiceOf(d)[1] = Home(d)
    BY ServiceOK DEF ServiceOf
  <2>5. \A x \in Services : memo[x] # None =>
            memo[x] \in Callers /\ ServiceOf(memo[x]) = x /\ Home(memo[x]) = x[1]
    BY <1>0, <2>4 DEF IInv, MemoOwned, TypeOK
  <2>6. MemoOwned'
    <3> SUFFICES ASSUME NEW x \in Services, memo'[x] # None
                 PROVE  ServiceOf(memo'[x]) = x /\ load'[memo'[x]] # "none"
      BY DEF MemoOwned, ServiceOf
    <3>1. x[1] # p /\ memo'[x] = memo[x] /\ memo[x] # None
      BY <2>1
    <3> QED BY <2>2, <2>5, <3>1 DEF IInv, MemoOwned
  <2>7. OnlyKept'
    <3> SUFFICES ASSUME NEW d \in Callers
                 PROVE  /\ load'[d] # "none" => memo'[ServiceOf(d)] = d
                        /\ waits'[d] # None => memo'[ServiceOf(d)] = waits'[d]
      BY DEF OnlyKept, ServiceOf
    <3>1. CASE Home(d) = p
      BY <2>2, <2>3, <3>1
    <3>2. CASE Home(d) # p
      <4>1. memo'[ServiceOf(d)] = memo[ServiceOf(d)]
        BY <2>1, <2>4, <3>2
      <4> QED BY <2>2, <2>3, <3>2, <4>1 DEF IInv, OnlyKept
    <3> QED BY <3>1, <3>2
  <2>8. ASSUME NEW x \in Services, x[1] # p PROVE Settled(x)' = Settled(x)
    <3>1. memo'[x] = memo[x]
      BY <2>1, <2>8
    <3>2. CASE memo[x] = None
      BY <3>1, <3>2 DEF Settled
    <3>3. CASE memo[x] # None
      <4>1. load'[memo[x]] = load[memo[x]] /\ pair'[memo[x]] = pair[memo[x]]
        BY <2>2, <2>5, <2>8, <3>3
      <4> QED BY <3>1, <4>1 DEF Settled, Outcome
    <3> QED BY <3>2, <3>3
  <2>9. Answers'
    <3> SUFFICES ASSUME NEW d \in Callers, out'[d] # None
                 PROVE  out'[d] = Settled(ServiceOf(d))'
      BY DEF Answers, ServiceOf
    <3>1. Home(d) # p /\ out'[d] = out[d]
      BY <2>3
    <3> QED BY <2>4, <2>8, <3>1 DEF IInv, Answers
  <2> QED BY <1>0, <2>6, <2>7, <2>9 DEF IInv
<1>6. CASE Tick \/ UNCHANGED vars
  BY <1>0, <1>6, Frame DEF Tick, vars, loadVars
<1> QED
  BY <1>1, <1>2, <1>3, <1>4, <1>5, <1>6 DEF Next

LEMMA Invariance == Spec => []IInv
  BY InitInv, InvStep, PTL DEF Spec

(***************************************************************************)
(* The variables keep their types.                                         *)
(***************************************************************************)
THEOREM TypeCorrect == Spec => []TypeOK
<1>1. IInv => TypeOK
  BY DEF IInv
<1> QED BY <1>1, Invariance, PTL

(***************************************************************************)
(* A service object has one outcome in a life of its process.              *)
(***************************************************************************)
THEOREM OutcomeCorrect == Spec => []OneOutcomePerLife
<1>1. IInv => OneOutcomePerLife
  BY DEF IInv, Answers, OneOutcomePerLife
<1> QED BY <1>1, Invariance, PTL

-----------------------------------------------------------------------------
(* Writes under one name *)

\* A load that is going to write has seen no later write than the last.
RaceInv ==
    /\ ReplacesOnlyInRace
    /\ \A c \in Callers : load[c] \in {"generate", "store"} => saw[c] <= writes[Name(c)]

LEMMA RaceStep == TypeOK /\ RaceInv /\ [Next]_vars => RaceInv'
<1> SUFFICES ASSUME TypeOK, RaceInv, [Next]_vars PROVE RaceInv'
  OBVIOUS
<1> USE DEF RaceInv, ReplacesOnlyInRace
<1>0. \A c \in Callers : Name(c) \in Names
  BY CallersAssumption
<1>1. ASSUME NEW c \in Callers, StartLoad(c) PROVE RaceInv'
  BY <1>0, <1>1 DEF StartLoad, TypeOK
<1>2. ASSUME NEW c \in Callers, JoinLoad(c) \/ Resume(c) PROVE RaceInv'
  BY <1>2 DEF JoinLoad, Resume, loadVars
<1>3. ASSUME NEW c \in Callers, Read(c) PROVE RaceInv'
  <2>1. \A d \in Callers : /\ d # c => load'[d] = load[d] /\ saw'[d] = saw[d]
                           /\ saw'[c] = writes[Name(c)]
                           /\ load'[c] = "generate" => slot[Name(c)] = None
    BY <1>3 DEF Read, TypeOK
  <2>2. writes[Name(c)] \in Nat /\ writes' = writes /\ slot' = slot
        /\ load'[c] \in {"generate", "ready"}
    BY <1>0, <1>3 DEF Read, TypeOK
  <2> QED BY <2>1, <2>2
<1>4. ASSUME NEW c \in Callers, Generate(c) PROVE RaceInv'
  BY <1>4 DEF Generate, TypeOK
<1>5. ASSUME NEW c \in Callers, load[c] \in {"get", "generate", "store"},
             load'[c] \in {"ready", "failed"},
             \A d \in Callers : d # c => load'[d] = load[d],
             saw' = saw,
             \/ Written(c)
             \/ UNCHANGED <<slot, writes>>
      PROVE  RaceInv'
  <2>1. CASE UNCHANGED <<slot, writes>>
    BY <1>5, <2>1
  <2>2. CASE Written(c)
    <3>1. \A n \in Names : n # Name(c) => slot'[n] = slot[n] /\ writes'[n] = writes[n]
      BY <2>2 DEF Written, TypeOK
    <3>2. /\ slot'[Name(c)].number = writes[Name(c)] + 1
          /\ writes'[Name(c)] = writes[Name(c)] + 1
          /\ writes[Name(c)] \in Nat
      BY <1>0, <2>2 DEF Written, TypeOK
    <3> SUFFICES ASSUME NEW d \in Callers, load'[d] \in {"generate", "store"}
                 PROVE  /\ slot'[Name(d)] # None => slot'[Name(d)].number > saw'[d]
                        /\ saw'[d] <= writes'[Name(d)]
      OBVIOUS
    <3>3. d # c /\ load[d] \in {"generate", "store"} /\ saw'[d] = saw[d] /\ saw[d] \in Nat
          /\ saw[d] <= writes[Name(d)]
      BY <1>5 DEF TypeOK
    <3>4. CASE Name(d) = Name(c)
      BY <3>2, <3>3, <3>4
    <3>5. CASE Name(d) # Name(c)
      BY <1>0, <3>1, <3>3, <3>5
    <3> QED BY <3>4, <3>5
  <2> QED BY <1>5, <2>1, <2>2
<1>6. ASSUME NEW c \in Callers, Store(c) \/ LoadFails(c) PROVE RaceInv'
  BY <1>5, <1>6 DEF Store, LoadFails, TypeOK
<1>7. ASSUME NEW p \in Procs, Crash(p) PROVE RaceInv'
  <2>1. UNCHANGED <<slot, writes>>
    BY <1>7 DEF Crash
  <2>2. \A d \in Callers : load'[d] # "none" => load'[d] = load[d] /\ saw'[d] = saw[d]
    BY <1>7 DEF Crash
  <2> QED BY <2>1, <2>2
<1>8. CASE Tick
  <2>1. \A n \in Names : slot'[n] = slot[n] \/ slot'[n] = None
    BY <1>8 DEF Tick
  <2> QED BY <1>0, <1>8, <2>1 DEF Tick, loadVars
<1>9. CASE UNCHANGED vars
  BY <1>9 DEF vars
<1> QED BY <1>1, <1>2, <1>3, <1>4, <1>6, <1>7, <1>8, <1>9 DEF Next, Load

(***************************************************************************)
(* A load never replaces a pair it could have seen when it read Redis.     *)
(***************************************************************************)
THEOREM RaceCorrect == Spec => []ReplacesOnlyInRace
<1>1. Init => RaceInv
  BY DEF Init, RaceInv, ReplacesOnlyInRace
<1>2. RaceInv => ReplacesOnlyInRace
  BY DEF RaceInv
<1> QED BY <1>1, <1>2, RaceStep, TypeCorrect, PTL DEF Spec

-----------------------------------------------------------------------------
(* Two names *)

\* The pairs in use under name n: stored under it, or about to be, or kept by
\* a service of that name.
Under(n) ==
    {pair[c] : c \in {d \in Callers : Name(d) = n /\ load[d] \in {"store", "ready"}}}
    \union {slot[m].key : m \in {k \in Names : k = n /\ slot[k] # None}}

\* Pairs in use have been generated, and no pair is in use under two names.
Apart == \A n \in Names : /\ \A k \in Under(n) : k \in Nat /\ k <= keys
                          /\ \A m \in Names : m # n => Under(n) \intersect Under(m) = {}

LEMMA ApartStep == TypeOK /\ Apart /\ [Next]_vars => Apart'
<1> SUFFICES ASSUME TypeOK, Apart, [Next]_vars PROVE Apart'
  OBVIOUS
<1>0. \A c \in Callers : Name(c) \in Names
  BY CallersAssumption
\* It is enough that no name comes to use a pair that was not its own before.
<1>a. ASSUME \A n \in Names : Under(n)' \subseteq Under(n), keys' = keys PROVE Apart'
  BY <1>a DEF Apart
\* Loads that come to hold no pair of another name, with Redis as it was.
<1>b. ASSUME \A c \in Callers : load'[c] \in {"store", "ready"} => pair'[c] \in Under(Name(c)),
             \A n \in Names : slot'[n] # None => slot'[n].key \in Under(n)
      PROVE  \A n \in Names : Under(n)' \subseteq Under(n)
  BY <1>b DEF Under
<1>c. \A c \in Callers : load[c] \in {"store", "ready"} => pair[c] \in Under(Name(c))
  BY DEF Under
<1>d. \A n \in Names : slot[n] # None => slot[n].key \in Under(n)
  BY DEF Under
<1>1. ASSUME NEW c \in Callers, StartLoad(c) PROVE Apart'
  BY <1>1, <1>a, <1>b, <1>c, <1>d DEF StartLoad, TypeOK
<1>2. ASSUME NEW c \in Callers, JoinLoad(c) \/ Resume(c) PROVE Apart'
  BY <1>2, <1>a, <1>b, <1>c, <1>d DEF JoinLoad, Resume, loadVars
<1>3. ASSUME NEW c \in Callers, Read(c) PROVE Apart'
  <2>1. \A d \in Callers : load'[d] \in {"store", "ready"} => pair'[d] \in Under(Name(d))
    BY <1>0, <1>3, <1>c, <1>d DEF Read, TypeOK
  <2> QED BY <1>3, <2>1, <1>a, <1>b, <1>d DEF Read
<1>4. ASSUME NEW c \in Callers, Generate(c) PROVE Apart'
  <2>1. \A d \in Callers : /\ d # c => load'[d] = load[d] /\ pair'[d] = pair[d]
                           /\ pair'[c] = keys + 1 /\ load'[c] = "store"
    BY <1>4 DEF Generate, TypeOK
  <2>2. slot' = slot /\ keys' = keys + 1 /\ keys \in Nat
    BY <1>4, BoundsAssumption DEF Generate, TypeOK
  <2>3. \A n \in Names : Under(n)' \subseteq
            Under(n) \union (IF n = Name(c) THEN {keys + 1} ELSE {})
    BY <2>1, <2>2 DEF Under
  <2>4. \A n \in Names : keys + 1 \notin Under(n)
    BY <2>2 DEF Apart
  <2> QED BY <2>2, <2>3, <2>4 DEF Apart
<1>5. ASSUME NEW c \in Callers, load[c] = "store", Written(c)
      PROVE  \A n \in Names : slot'[n] # None => slot'[n].key \in Under(n)
  <2>1. \A n \in Names : n # Name(c) => slot'[n] = slot[n]
    BY <1>5 DEF Written, TypeOK
  <2>2. slot'[Name(c)].key = pair[c]
    BY <1>0, <1>5 DEF Written, TypeOK
  <2> QED BY <1>5, <1>c, <1>d, <2>1, <2>2
<1>6. ASSUME NEW c \in Callers, Store(c) PROVE Apart'
  BY <1>5, <1>6, <1>a, <1>b, <1>c DEF Store, TypeOK
<1>7. ASSUME NEW c \in Callers, LoadFails(c) PROVE Apart'
  <2>1. \A n \in Names : slot'[n] # None => slot'[n].key \in Under(n)
    BY <1>5, <1>7, <1>d DEF LoadFails
  <2> QED BY <1>7, <2>1, <1>a, <1>b, <1>c DEF LoadFails, TypeOK
<1>8. ASSUME NEW p \in Procs, Crash(p) PROVE Apart'
  <2>1. keys' = keys /\ slot' = slot
    BY <1>8 DEF Crash
  <2>2. \A d \in Callers : load'[d] # "none" => load'[d] = load[d] /\ pair'[d] = pair[d]
    BY <1>8 DEF Crash
  <2> QED BY <2>1, <2>2, <1>a, <1>b, <1>c, <1>d
<1>9. CASE Tick
  <2>1. \A n \in Names : slot'[n] = slot[n] \/ slot'[n] = None
    BY <1>9 DEF Tick
  <2> QED BY <1>9, <2>1, <1>a, <1>b, <1>c, <1>d DEF Tick, loadVars
<1>10. CASE UNCHANGED vars
  BY <1>10, <1>a, <1>b, <1>c, <1>d DEF vars
<1> QED BY <1>1, <1>2, <1>3, <1>4, <1>6, <1>7, <1>8, <1>9, <1>10 DEF Next, Load

(***************************************************************************)
(* No pair ever signs both users' and administrators' tokens.              *)
(***************************************************************************)
THEOREM ApartCorrect == Spec => []NamesApart
<1>1. Init => Apart
  BY DEF Init, Apart, Under
<1>2. Apart => NamesApart
  <2> SUFFICES ASSUME Apart, NEW c \in Callers, NEW d \in Callers, Name(c) # Name(d),
                      load[c] = "ready", load[d] = "ready"
               PROVE  pair[c] # pair[d]
    BY DEF NamesApart
  <2>1. pair[c] \in Under(Name(c)) /\ pair[d] \in Under(Name(d))
    BY DEF Under
  <2> QED BY <2>1, CallersAssumption DEF Apart
<1> QED BY <1>1, <1>2, ApartStep, TypeCorrect, PTL DEF Spec

-----------------------------------------------------------------------------
(* One service *)

\* Everyone uses the same service object: one process, and one of its services.
OneService == \A c, d \in Callers : ServiceOf(c) = ServiceOf(d)

\* The pairs a token can be verified with now or in a later life, or that need
\* not be any more.
Lasting(n) == expired \union {slot[m].key : m \in {k \in {n} : slot[k] # None}}

\* A load that is going to write has found nothing, and nothing has been stored
\* since; what is signed with is stored, or was until its time was up.
Kept ==
    \A c \in Callers :
        /\ load[c] \in {"generate", "store"} => slot[Name(c)] = None
        /\ load[c] = "ready" => pair[c] \in Lasting(Name(c))
        /\ load[c] = "ready" /\ slot[Name(c)] # None => pair[c] = slot[Name(c)].key
        /\ signed \subseteq Lasting(Name(c))

\* With one service there is at most one load in a life.
LEMMA OneLoad ==
    ASSUME OneService, IInv, NEW c \in Callers, NEW d \in Callers,
           load[c] # "none", load[d] # "none"
    PROVE  c = d
BY DEF OneService, IInv, OnlyKept

LEMMA OneName == ASSUME OneService, NEW c \in Callers, NEW d \in Callers PROVE Name(c) = Name(d)
  BY DEF OneService, ServiceOf

\* A load that writes the pair it has generated, or fails over it.
LEMMA WriteKeeps ==
    ASSUME OneService, IInv, Kept, NEW c \in Callers,
           load[c] = "store", Written(c),
           load' \in {[load EXCEPT ![c] = "ready"], [load EXCEPT ![c] = "failed"]},
           UNCHANGED <<pair, signed, expired>>
    PROVE  Kept'
<1>1. TypeOK /\ Name(c) \in Names
  BY CallersAssumption DEF IInv
<1>2. slot[Name(c)] = None /\ signed \subseteq expired
  BY DEF Kept, Lasting
<1>3. slot'[Name(c)] # None /\ slot'[Name(c)].key = pair[c]
  <2> DEFINE new == [key |-> pair[c], born |-> now, number |-> writes[Name(c)] + 1]
  <2>1. slot'[Name(c)] = new
    BY <1>1 DEF Written, TypeOK
  <2>2. new \in Slot
    BY <1>1 DEF TypeOK, Slot
  <2> QED BY <2>1, <2>2, NoneAssumption
<1>4. \A d \in Callers : d # c => load'[d] = "none"
  BY <1>1, OneLoad DEF TypeOK
<1>5. load'[c] \notin {"generate", "store"}
  BY <1>1 DEF TypeOK
<1>6. Lasting(Name(c))' = expired \union {pair[c]}
  BY <1>3 DEF Lasting
<1>7. \A d \in Callers : Lasting(Name(d))' = expired \union {pair[c]}
  BY <1>6, OneName
<1> SUFFICES ASSUME NEW d \in Callers
             PROVE  /\ load'[d] \in {"generate", "store"} => slot'[Name(d)] = None
                    /\ load'[d] = "ready" => pair'[d] \in Lasting(Name(d))'
                    /\ load'[d] = "ready" /\ slot'[Name(d)] # None
                           => pair'[d] = slot'[Name(d)].key
                    /\ signed' \subseteq Lasting(Name(d))'
  BY DEF Kept
<1> QED BY <1>2, <1>3, <1>4, <1>5, <1>7

\* Steps that store nothing and bring no load to a pair.
LEMMA QuietKeeps ==
    ASSUME Kept, UNCHANGED <<slot, signed, expired>>,
           \A c \in Callers : \/ load'[c] = load[c] /\ pair'[c] = pair[c]
                              \/ load'[c] \in {"none", "get", "failed"}
                              \/ load[c] = "generate" /\ load'[c] = "store"
    PROVE  Kept'
BY DEF Kept, Lasting

(***************************************************************************)
(* With one service every step keeps what is signed with in reach of the   *)
(* next life.                                                              *)
(***************************************************************************)
LEMMA KeptStep == ASSUME OneService PROVE IInv /\ Kept /\ [Next]_vars => Kept'
<1> SUFFICES ASSUME IInv, Kept, [Next]_vars PROVE Kept'
  OBVIOUS
<1>0. TypeOK
  BY DEF IInv
<1>1. ASSUME NEW c \in Callers, StartLoad(c) PROVE Kept'
  BY <1>0, <1>1, QuietKeeps DEF StartLoad, TypeOK
<1>2. ASSUME NEW c \in Callers, JoinLoad(c) PROVE Kept'
  BY <1>2, QuietKeeps DEF JoinLoad, loadVars
<1>3. ASSUME NEW c \in Callers, Resume(c) PROVE Kept'
  <2>1. waits[c] \in Callers /\ load[waits[c]] \in {"ready", "failed"}
    BY <1>0, <1>3 DEF Resume, TypeOK
  <2>2. signed' \subseteq Lasting(Name(c))
    <3>1. Outcome(waits[c]) # Failure => Outcome(waits[c]) \in Lasting(Name(waits[c]))
      BY <2>1 DEF Outcome, Kept
    <3> QED BY <1>3, <2>1, <3>1, OneName DEF Resume, Kept
  <2>3. \A d \in Callers : Lasting(Name(d))' = Lasting(Name(c))
    BY <1>3, OneName DEF Resume, Lasting
  <2> QED BY <1>3, <2>2, <2>3, OneName DEF Resume, Kept, loadVars
<1>4. ASSUME NEW c \in Callers, Read(c) PROVE Kept'
  <2>1. CASE slot[Name(c)] # None
    <3>1. \A d \in Callers : /\ load'[d] = IF d = c THEN "ready" ELSE load[d]
                             /\ pair'[d] = IF d = c THEN slot[Name(c)].key ELSE pair[d]
      BY <1>0, <1>4, <2>1 DEF Read, TypeOK
    <3>2. slot[Name(c)].key \in Lasting(Name(c))
      BY <2>1 DEF Lasting
    <3>3. UNCHANGED <<slot, signed, expired>>
      BY <1>4 DEF Read
    <3>4. \A d \in Callers : Lasting(Name(d))' = Lasting(Name(d))
      BY <3>3 DEF Lasting
    <3> QED BY <3>1, <3>2, <3>3, <3>4 DEF Kept
  <2>2. CASE slot[Name(c)] = None
    <3>1. \A d \in Callers : /\ load'[d] = IF d = c THEN "generate" ELSE load[d]
                             /\ pair'[d] = pair[d]
      BY <1>0, <1>4, <2>2 DEF Read, TypeOK
    <3>2. UNCHANGED <<slot, signed, expired>>
      BY <1>4 DEF Read
    <3>3. \A d \in Callers : Lasting(Name(d))' = Lasting(Name(d))
      BY <3>2 DEF Lasting
    <3> QED BY <2>2, <3>1, <3>2, <3>3 DEF Kept
  <2> QED BY <2>1, <2>2
<1>5. ASSUME NEW c \in Callers, Generate(c) PROVE Kept'
  <2>1. \A d \in Callers : \/ load'[d] = load[d] /\ pair'[d] = pair[d]
                           \/ load[d] = "generate" /\ load'[d] = "store"
    BY <1>0, <1>5 DEF Generate, TypeOK
  <2> QED BY <1>5, <2>1, QuietKeeps DEF Generate
<1>6. ASSUME NEW c \in Callers, Store(c) PROVE Kept'
  BY <1>6, WriteKeeps DEF Store
<1>7. ASSUME NEW c \in Callers, LoadFails(c) PROVE Kept'
  <2>1. CASE load[c] = "store" /\ Written(c)
    BY <1>7, <2>1, WriteKeeps DEF LoadFails
  <2>2. CASE UNCHANGED <<slot, writes>>
    <3>1. \A d \in Callers : \/ load'[d] = load[d] /\ pair'[d] = pair[d]
                             \/ load'[d] = "failed"
      BY <1>0, <1>7 DEF LoadFails, TypeOK
    <3> QED BY <1>7, <2>2, <3>1, QuietKeeps DEF LoadFails
  <2> QED BY <1>7, <2>1, <2>2 DEF LoadFails
<1>8. ASSUME NEW p \in Procs, Crash(p) PROVE Kept'
  <2>1. \A d \in Callers : \/ load'[d] = load[d] /\ pair'[d] = pair[d]
                           \/ load'[d] = "none"
    BY <1>8 DEF Crash
  <2> QED BY <1>8, <2>1, QuietKeeps DEF Crash
<1>9. CASE Tick
  <2>1. UNCHANGED <<load, pair, signed>>
    BY <1>9 DEF Tick, loadVars
  <2>2. \A n \in Names : slot'[n] # None => slot'[n] = slot[n]
    BY <1>9 DEF Tick
  <2>3. ASSUME NEW n \in Names PROVE Lasting(n) \subseteq Lasting(n)'
    <3>1. expired \subseteq expired'
      BY <1>9 DEF Tick
    <3>2. CASE slot[n] # None /\ PastTTL(n)
      BY <1>9, <3>1, <3>2 DEF Tick, Lasting
    <3>3. CASE slot[n] # None /\ ~PastTTL(n)
      <4>1. slot'[n] = slot[n]
        BY <1>9, <3>3 DEF Tick
      <4> QED BY <3>1, <3>3, <4>1 DEF Lasting
    <3>4. CASE slot[n] = None
      BY <3>1, <3>4 DEF Lasting
    <3> QED BY <3>2, <3>3, <3>4
  <2>4. \A c \in Callers : Name(c) \in Names
    BY CallersAssumption
  <2>5. \A c \in Callers : slot[Name(c)] = None => slot'[Name(c)] = None
    BY <2>2, <2>4
  <2> SUFFICES ASSUME NEW c \in Callers
               PROVE  /\ load'[c] \in {"generate", "store"} => slot'[Name(c)] = None
                      /\ load'[c] = "ready" => pair'[c] \in Lasting(Name(c))'
                      /\ load'[c] = "ready" /\ slot'[Name(c)] # None
                             => pair'[c] = slot'[Name(c)].key
                      /\ signed' \subseteq Lasting(Name(c))'
    BY DEF Kept
  <2>6. Lasting(Name(c)) \subseteq Lasting(Name(c))'
    BY <2>3, <2>4
  <2> QED BY <2>1, <2>2, <2>4, <2>5, <2>6 DEF Kept
<1>10. CASE UNCHANGED vars
  BY <1>10, QuietKeeps DEF vars
<1> QED
  BY <1>1, <1>2, <1>3, <1>4, <1>5, <1>6, <1>7, <1>8, <1>9, <1>10 DEF Next, Load

(***************************************************************************)
(* Where one process runs one of the services, the tokens it has signed    *)
(* stay verifiable in all its later lives, unless Redis has dropped the    *)
(* pair for age: whatever load fails, and wherever the process dies.       *)
(***************************************************************************)
THEOREM RestartCorrect == ASSUME OneService PROVE Spec => []TokensSurviveRestart
<1>1. Init => Kept
  BY DEF Init, Kept
<1>2. Kept => TokensSurviveRestart
  BY DEF Kept, Lasting, TokensSurviveRestart
<1>3. IInv /\ Kept /\ [Next]_vars => Kept'
  BY KeptStep
<1> QED BY <1>1, <1>2, <1>3, Invariance, PTL DEF Spec

-----------------------------------------------------------------------------
(* Agreement between processes *)

(***************************************************************************)
(* As long as a name has been written once, whoever has a pair under it    *)
(* has the same, in whatever process: they fall out only over a second     *)
(* write, by a load that had read Redis before the first one or after it   *)
(* was dropped.                                                            *)
(***************************************************************************)
AgreeUntilRewritten ==
    \A c, d \in Callers :
        /\ Name(c) = Name(d) /\ writes[Name(c)] <= 1
        /\ load[c] = "ready" /\ load[d] = "ready"
        => pair[c] = pair[d]

\* The pairs read from Redis or stored there under name n, as far as they are
\* still known.
Seen(n) ==
    {pair[c] : c \in {d \in Callers : Name(d) = n /\ load[d] = "ready"}}
    \union {slot[m].key : m \in {k \in {n} : slot[k] # None}}

\* There are no more of them than writes.
SeenOnce ==
    \A n \in Names :
        /\ writes[n] = 0 => Seen(n) = {}
        /\ writes[n] = 1 => \A j, k \in Seen(n) : j = k

\* Nothing is seen that was not, and nothing is written.
LEMMA SeenKept ==
    ASSUME SeenOnce, writes' = writes, \A n \in Names : Seen(n)' \subseteq Seen(n)
    PROVE  SeenOnce'
BY DEF SeenOnce

LEMMA SeenQuiet ==
    ASSUME SeenOnce, UNCHANGED <<slot, writes>>,
           \A c \in Callers : load'[c] = "ready" => load[c] = "ready" /\ pair'[c] = pair[c]
    PROVE  SeenOnce'
<1>1. \A n \in Names : Seen(n)' \subseteq Seen(n)
  BY DEF Seen
<1> QED BY <1>1, SeenKept

\* A pair is stored, and the load that did so is the one that may become ready.
LEMMA SeenWritten ==
    ASSUME TypeOK, SeenOnce, NEW c \in Callers, Written(c), load[c] = "store",
           \A d \in Callers : load'[d] = "ready" => d = c \/ load[d] = "ready",
           UNCHANGED pair
    PROVE  SeenOnce'
<1>1. Name(c) \in Names /\ \A n \in Names : writes[n] \in Nat
  BY CallersAssumption DEF TypeOK
<1>2. \A n \in Names : n # Name(c) => slot'[n] = slot[n] /\ writes'[n] = writes[n]
  BY DEF Written, TypeOK
<1>3. slot'[Name(c)].key = pair[c] /\ writes'[Name(c)] = writes[Name(c)] + 1
  BY <1>1 DEF Written, TypeOK
<1>4. ASSUME NEW n \in Names, n # Name(c) PROVE Seen(n)' \subseteq Seen(n)
  BY <1>2, <1>4 DEF Seen
<1>5. Seen(Name(c))' \subseteq Seen(Name(c)) \union {pair[c]}
  <2> SUFFICES ASSUME NEW k \in Seen(Name(c))' PROVE k \in Seen(Name(c)) \union {pair[c]}
    OBVIOUS
  <2>1. CASE \E d \in Callers : Name(d) = Name(c) /\ load'[d] = "ready" /\ k = pair'[d]
    BY <2>1 DEF Seen
  <2>2. CASE k = slot'[Name(c)].key
    BY <1>3, <2>2
  <2> QED BY <2>1, <2>2 DEF Seen
<1> SUFFICES ASSUME NEW n \in Names
             PROVE  /\ writes'[n] = 0 => Seen(n)' = {}
                    /\ writes'[n] = 1 => \A j, k \in Seen(n)' : j = k
  BY DEF SeenOnce
<1>6. CASE n = Name(c)
  <2>1. writes'[n] = 1 => Seen(n) = {}
    BY <1>1, <1>3, <1>6 DEF SeenOnce
  <2> QED BY <1>1, <1>3, <1>5, <1>6, <2>1
<1>7. CASE n # Name(c)
  <2>1. Seen(n)' \subseteq Seen(n) /\ writes'[n] = writes[n]
    BY <1>2, <1>4, <1>7
  <2> QED BY <2>1 DEF SeenOnce
<1> QED BY <1>6, <1>7

LEMMA SeenStep == TypeOK /\ SeenOnce /\ [Next]_vars => SeenOnce'
<1> SUFFICES ASSUME TypeOK, SeenOnce, [Next]_vars PROVE SeenOnce'
  OBVIOUS
<1>1. ASSUME NEW c \in Callers, StartLoad(c) PROVE SeenOnce'
  BY <1>1, SeenQuiet DEF StartLoad, TypeOK
<1>2. ASSUME NEW c \in Callers, JoinLoad(c) \/ Resume(c) PROVE SeenOnce'
  BY <1>2, SeenQuiet DEF JoinLoad, Resume, loadVars
<1>3. ASSUME NEW c \in Callers, Read(c) PROVE SeenOnce'
  <2>1. UNCHANGED <<slot, writes>>
    BY <1>3 DEF Read
  <2>2. \A d \in Callers : load'[d] = "ready" =>
            \/ load[d] = "ready" /\ pair'[d] = pair[d]
            \/ slot[Name(d)] # None /\ pair'[d] = slot[Name(d)].key
    BY <1>3 DEF Read, TypeOK
  <2>3. \A n \in Names : Seen(n)' \subseteq Seen(n)
    BY <2>1, <2>2 DEF Seen
  <2> QED BY <2>1, <2>3, SeenKept
<1>4. ASSUME NEW c \in Callers, Generate(c) PROVE SeenOnce'
  <2>1. \A d \in Callers : load'[d] = "ready" => load[d] = "ready" /\ pair'[d] = pair[d]
    BY <1>4 DEF Generate, TypeOK
  <2> QED BY <1>4, <2>1, SeenQuiet DEF Generate
<1>5. ASSUME NEW c \in Callers, Store(c) PROVE SeenOnce'
  <2>1. \A d \in Callers : load'[d] = "ready" => d = c \/ load[d] = "ready"
    BY <1>5 DEF Store, TypeOK
  <2> QED BY <1>5, <2>1, SeenWritten DEF Store
<1>6. ASSUME NEW c \in Callers, LoadFails(c) PROVE SeenOnce'
  <2>1. \A d \in Callers : load'[d] = "ready" => load[d] = "ready"
    BY <1>6 DEF LoadFails, TypeOK
  <2> QED BY <1>6, <2>1, SeenWritten, SeenQuiet DEF LoadFails
<1>7. ASSUME NEW p \in Procs, Crash(p) PROVE SeenOnce'
  <2>1. \A d \in Callers : load'[d] = "ready" => load[d] = "ready" /\ pair'[d] = pair[d]
    BY <1>7 DEF Crash
  <2> QED BY <1>7, <2>1, SeenQuiet DEF Crash
<1>8. CASE Tick
  <2>1. \A n \in Names : slot'[n] # None => slot'[n] = slot[n]
    BY <1>8 DEF Tick
  <2>2. UNCHANGED <<writes, load, pair>>
    BY <1>8 DEF Tick, loadVars
  <2>3. \A n \in Names : Seen(n)' \subseteq Seen(n)
    BY <2>1, <2>2 DEF Seen
  <2> QED BY <2>2, <2>3, SeenKept
<1>9. CASE UNCHANGED vars
  BY <1>9, SeenQuiet DEF vars
<1> QED BY <1>1, <1>2, <1>3, <1>4, <1>5, <1>6, <1>7, <1>8, <1>9 DEF Next, Load

(***************************************************************************)
(* Processes disagree about their keys only after a second write.          *)
(***************************************************************************)
THEOREM AgreeCorrect == Spec => []AgreeUntilRewritten
<1>1. Init => SeenOnce
  BY DEF Init, SeenOnce, Seen
<1>2. TypeOK /\ SeenOnce => AgreeUntilRewritten
  <2> SUFFICES ASSUME TypeOK, SeenOnce, NEW c \in Callers, NEW d \in Callers,
                      Name(c) = Name(d), writes[Name(c)] <= 1,
                      load[c] = "ready", load[d] = "ready"
               PROVE  pair[c] = pair[d]
    BY DEF AgreeUntilRewritten
  <2>1. Name(c) \in Names /\ writes[Name(c)] \in {0, 1}
    BY CallersAssumption DEF TypeOK
  <2>2. pair[c] \in Seen(Name(c)) /\ pair[d] \in Seen(Name(c))
    BY DEF Seen
  <2> QED BY <2>1, <2>2 DEF SeenOnce
<1> QED BY <1>1, <1>2, SeenStep, TypeCorrect, PTL DEF Spec

-----------------------------------------------------------------------------
(* Refinement *)

\* The cell of service x, as the refinement mapping has it.
Cell == [x \in Services |-> Settled(x)]

LEMMA CellSame ==
    ASSUME UNCHANGED <<memo, load, pair>> PROVE Cell' = Cell
BY DEF Cell, Settled, Outcome

(***************************************************************************)
(* Every step of the promises is a step of the once-settled cells, or a    *)
(* stutter of them.                                                        *)
(***************************************************************************)
LEMMA StepOnce == IInv /\ IInv' /\ [Next]_vars => [Once!Next]_(Once!vars)
<1> SUFFICES ASSUME IInv, IInv', [Next]_vars PROVE [Once!Next]_(Once!vars)
  OBVIOUS
<1>0. TypeOK /\ TypeOK'
  BY DEF IInv
<1>a. ASSUME UNCHANGED <<Cell, out>> PROVE [Once!Next]_(Once!vars)
  BY <1>a DEF Once!vars, Cell
<1>1. ASSUME NEW c \in Callers, StartLoad(c) PROVE UNCHANGED <<Cell, out>>
  <2>1. /\ \A x \in Services : memo'[x] = IF x = ServiceOf(c) THEN c ELSE memo[x]
        /\ \A d \in Callers : load'[d] = IF d = c THEN "get" ELSE load[d]
        /\ memo[ServiceOf(c)] = None
        /\ UNCHANGED <<pair, out>>
    BY <1>0, <1>1 DEF StartLoad, TypeOK
  <2>2. ASSUME NEW x \in Services PROVE Settled(x)' = Settled(x)
    <3>1. CASE x = ServiceOf(c)
      BY <2>1, <3>1 DEF Settled
    <3>2. CASE x # ServiceOf(c)
      <4>1. memo[x] # None => memo[x] \in Callers /\ memo[x] # c
        BY <1>0, <3>2 DEF IInv, MemoOwned, TypeOK
      <4> QED BY <2>1, <3>2, <4>1 DEF Settled, Outcome
    <3> QED BY <3>1, <3>2
  <2> QED BY <2>1, <2>2 DEF Cell
<1>2. ASSUME NEW c \in Callers, JoinLoad(c) PROVE UNCHANGED <<Cell, out>>
  BY <1>2, CellSame DEF JoinLoad, loadVars
<1>3. ASSUME NEW c \in Callers, Resume(c) PROVE Once!Answer(c)
  <2>1. waits[c] # None /\ load[waits[c]] \in {"ready", "failed"}
        /\ out' = [out EXCEPT ![c] = Outcome(waits[c])]
    BY <1>3 DEF Resume
  <2>2. Cell' = Cell
    BY <1>3, CellSame DEF Resume, loadVars
  <2>3. waits[c] \in Callers
    BY <1>0, <2>1 DEF TypeOK
  <2>4. Settled(ServiceOf(c)) = Outcome(waits[c])
    BY <2>1 DEF IInv, OnlyKept, Settled
  <2>5. Outcome(waits[c]) # None
    BY <1>0, <2>1, <2>3, NoneAssumption DEF Outcome, TypeOK
  <2> QED BY <2>1, <2>2, <2>4, <2>5, ServiceOK DEF Once!Answer, Cell
<1>4. ASSUME NEW c \in Callers, Load(c)
      PROVE  \/ UNCHANGED <<Cell, out>>
             \/ \E v \in Pairs \union {Failure} : Once!Settle(ServiceOf(c), v)
  <2>1. load[c] \in {"get", "generate", "store"} /\ UNCHANGED <<memo, out>>
    BY <1>4 DEF Load, Read, Generate, Store, LoadFails
  <2>2. \A d \in Callers : d # c => load'[d] = load[d] /\ pair'[d] = pair[d]
    BY <1>0, <1>4 DEF Load, Read, Generate, Store, LoadFails, TypeOK
  <2>3. memo[ServiceOf(c)] = c /\ ServiceOf(c) \in Services
    BY <2>1, ServiceOK DEF IInv, OnlyKept
  <2>4. Settled(ServiceOf(c)) = None
    BY <2>1, <2>3 DEF Settled
  <2>5. ASSUME NEW x \in Services, x # ServiceOf(c) PROVE Settled(x)' = Settled(x)
    <3>1. memo[x] # None => memo[x] \in Callers /\ memo[x] # c
      BY <1>0, <2>5 DEF IInv, MemoOwned, TypeOK
    <3> QED BY <2>1, <2>2, <3>1 DEF Settled, Outcome
  <2>6. Cell' = [Cell EXCEPT ![ServiceOf(c)] = Settled(ServiceOf(c))']
    BY <2>3, <2>5 DEF Cell, ServiceOf
  <2>7. CASE load'[c] \in {"ready", "failed"}
    <3>1. Settled(ServiceOf(c))' = Outcome(c)'
      BY <2>1, <2>3, <2>7, NoneAssumption DEF Settled, ServiceOf
    <3>2. Outcome(c)' \in Pairs \union {Failure}
      BY <1>0 DEF Outcome, TypeOK
    <3> QED BY <2>1, <2>3, <2>4, <2>6, <3>1, <3>2 DEF Once!Settle, Cell
  <2>8. CASE load'[c] \notin {"ready", "failed"}
    <3>1. Settled(ServiceOf(c))' = None
      BY <2>1, <2>3, <2>8 DEF Settled, ServiceOf
    <3> QED BY <2>1, <2>3, <2>4, <2>6, <3>1 DEF Cell
  <2> QED BY <2>7, <2>8
<1>5. ASSUME NEW p \in Procs, Crash(p) PROVE Once!Restart({x \in Services : x[1] = p})
  <2>1. \A x \in Services : memo'[x] = IF x[1] = p THEN None ELSE memo[x]
    BY <1>5 DEF Crash
  <2>2. \A d \in Callers :
            /\ load'[d] = IF Home(d) = p THEN "none" ELSE load[d]
            /\ pair'[d] = IF Home(d) = p THEN None ELSE pair[d]
    BY <1>5 DEF Crash
  <2>3. out' = [d \in Callers |-> IF Home(d) = p THEN None ELSE out[d]]
    BY <1>5 DEF Crash
  <2>4. \A d \in Callers : ServiceOf(d) \in {x \in Services : x[1] = p} <=> Home(d) = p
    BY ServiceOK DEF ServiceOf
  <2>5. out' = [d \in Callers |->
                    IF ServiceOf(d) \in {x \in Services : x[1] = p} THEN None ELSE out[d]]
    BY <2>3, <2>4
  <2>6. \A x \in Services : x[1] = p => Settled(x)' = None
    BY <2>1 DEF Settled
  <2>7. ASSUME NEW x \in Services, x[1] # p PROVE Settled(x)' = Settled(x)
    <3>1. memo'[x] = memo[x]
      BY <2>1, <2>7
    <3>2. memo[x] # None => memo[x] \in Callers /\ ServiceOf(memo[x]) = x
      BY <1>0 DEF IInv, MemoOwned, TypeOK
    <3>3. memo[x] # None => load'[memo[x]] = load[memo[x]] /\ pair'[memo[x]] = pair[memo[x]]
      BY <2>2, <2>7, <3>2 DEF ServiceOf
    <3> QED BY <3>1, <3>3 DEF Settled, Outcome
  <2>8. Cell' = [x \in Services |->
                    IF x \in {y \in Services : y[1] = p} THEN None ELSE Cell[x]]
    BY <2>6, <2>7 DEF Cell
  <2> QED BY <2>5, <2>8 DEF Once!Restart, Cell
<1>6. CASE Tick \/ UNCHANGED vars
  BY <1>6, <1>a, CellSame DEF Tick, vars, loadVars
<1>7. ASSUME NEW p \in Procs PROVE {x \in Services : x[1] = p} \in SUBSET Services
  OBVIOUS
<1> QED
  BY <1>1, <1>2, <1>3, <1>4, <1>5, <1>6, <1>7, <1>a, ServiceOK DEF Next, Once!Next

(***************************************************************************)
(* The memoised promise of the keys implements a cell that is settled at   *)
(* most once in a life.                                                    *)
(***************************************************************************)
THEOREM Implements == Spec => OnceSpec
<1>1. Init => Once!Init
  BY DEF Init, Once!Init, Settled
<1> QED BY <1>1, StepOnce, Invariance, PTL DEF Spec, OnceSpec, Once!Spec
-----------------------------------------------------------------------------
(* Everyone is answered *)

\* The guards of Load, which may always fail at an await, and of Resume.
CanLoad(d) == load[d] \in {"get", "generate", "store"}
CanResume(c) == waits[c] # None /\ load[waits[c]] \in {"ready", "failed"}

\* The stages of a load in the order it goes through them.
Upcoming(s) ==
    CASE s = "get" -> {"get", "generate", "store", "ready", "failed"}
      [] s = "generate" -> {"generate", "store", "ready", "failed"}
      [] s = "store" -> {"store", "ready", "failed"}
      [] OTHER -> {"ready", "failed"}

\* Caller c awaits the load of d, which is at stage s or beyond it.
Awaits(c, d, s) == waits[c] = d /\ load[d] \in Upcoming(s)

\* Nothing takes such a load back, or c to another load; a step of it brings it to
\* the next stage, t, and when it is settled a step of c answers c.
Onwards(c, d, s, t) ==
    Awaits(c, d, s) =>
        /\ Awaits(c, d, s)' \/ (waits[c] = None)'
        /\ <<Load(d)>>_vars => Awaits(c, d, t)'

LEMMA LoadMoves ==
    ASSUME TypeOK, NEW d \in Callers, Load(d)
    PROVE  /\ CanLoad(d) /\ UNCHANGED waits
           /\ \E s \in {"generate", "store", "ready", "failed"} :
                  load' = [load EXCEPT ![d] = s] /\ s \in Upcoming(load[d]) \ {load[d]}
BY DEF Load, Read, Generate, Store, LoadFails, CanLoad, Upcoming

\* What another action than a load's does to those who wait.
LEMMA OthersWait ==
    ASSUME IInv, NEW c \in Callers, waits[c] # None,
           [Next]_vars, \A e \in Callers : ~Load(e)
    PROVE  \/ waits'[c] = None
           \/ waits'[c] = waits[c] /\ load'[waits[c]] = load[waits[c]]
<1>0. TypeOK /\ waits[c] \in Callers /\ memo[ServiceOf(c)] = waits[c] /\ ServiceOf(waits[c]) = ServiceOf(c)
      /\ load[waits[c]] # "none"
  BY ServiceOK DEF IInv, TypeOK, OnlyKept, MemoOwned
<1>1. ASSUME NEW e \in Callers, StartLoad(e)
      PROVE  waits'[c] = waits[c] /\ load'[waits[c]] = load[waits[c]]
  <2>1. load[e] = "none" \/ memo[ServiceOf(e)] # None
    BY <1>0, NoneAssumption DEF IInv, OnlyKept
  <2> QED BY <1>0, <1>1, <2>1 DEF StartLoad, TypeOK
<1>2. ASSUME NEW e \in Callers, JoinLoad(e)
      PROVE  waits'[c] = waits[c] /\ load'[waits[c]] = load[waits[c]]
  BY <1>0, <1>2 DEF JoinLoad, TypeOK, loadVars
<1>3. ASSUME NEW e \in Callers, Resume(e)
      PROVE  \/ waits'[c] = None
             \/ waits'[c] = waits[c] /\ load'[waits[c]] = load[waits[c]]
  BY <1>0, <1>3 DEF Resume, TypeOK, loadVars
<1>4. ASSUME NEW p \in Procs, Crash(p)
      PROVE  \/ waits'[c] = None
             \/ waits'[c] = waits[c] /\ load'[waits[c]] = load[waits[c]]
  <2>1. Home(waits[c]) = Home(c)
    BY <1>0 DEF ServiceOf
  <2> QED BY <1>0, <1>4, <2>1 DEF Crash
<1>5. CASE Tick \/ UNCHANGED vars
  BY <1>5 DEF Tick, vars, loadVars
<1> QED BY <1>1, <1>2, <1>3, <1>4, <1>5 DEF Next

LEMMA GoesOn ==
    ASSUME IInv, [Next]_vars, NEW c \in Callers, NEW d \in Callers,
           NEW s \in {"get", "generate", "store", "ready"},
           NEW t \in {"generate", "store", "ready"},
           Upcoming(s) \ {s} \subseteq Upcoming(t)
    PROVE  Onwards(c, d, s, t)
<1> SUFFICES ASSUME Awaits(c, d, s)
    PROVE  /\ Awaits(c, d, s)' \/ waits'[c] = None
           /\ Load(d) => Awaits(c, d, t)'
  BY DEF Onwards
<1>0. TypeOK /\ waits[c] = d /\ waits[c] # None /\ load[d] \in Upcoming(s)
  BY NoneAssumption DEF IInv, Awaits
<1>1. ASSUME NEW e \in Callers, Load(e) PROVE Awaits(c, d, s)' /\ (e = d => Awaits(c, d, t)')
  <2>1. PICK u \in {"generate", "store", "ready", "failed"} :
            load' = [load EXCEPT ![e] = u] /\ u \in Upcoming(load[e]) \ {load[e]}
    BY <1>0, <1>1, LoadMoves
  <2>2. waits' = waits /\ CanLoad(e)
    BY <1>0, <1>1, LoadMoves
  <2>3. load'[d] = IF e = d THEN u ELSE load[d]
    BY <1>0, <2>1 DEF TypeOK
  <2>4. CASE e # d
    BY <1>0, <2>2, <2>3, <2>4 DEF Awaits
  <2>5. CASE e = d
    <3>1. u \in Upcoming(s) \ {s}
      BY <1>0, <2>1, <2>2, <2>5 DEF Upcoming, CanLoad
    <3> QED BY <1>0, <2>2, <2>3, <2>5, <3>1 DEF Awaits
  <2> QED BY <2>4, <2>5
<1>2. CASE \A e \in Callers : ~Load(e)
  BY <1>0, <1>2, OthersWait DEF Awaits
<1> QED BY <1>1, <1>2
\* Who awaits a settled load is there to be answered.
LEMMA Answerable ==
    ASSUME NEW c \in Callers, NEW d \in Callers
    PROVE  /\ Awaits(c, d, "get") /\ ~Awaits(c, d, "ready") => CanLoad(d)
           /\ Awaits(c, d, "ready") => CanResume(c)
           /\ <<Resume(c)>>_vars /\ TypeOK => (waits[c] = None)'
BY NoneAssumption DEF Awaits, Upcoming, CanLoad, CanResume, Resume, TypeOK

\* Weak fairness of Load and of Resume with the guards written out: at any time, each
\* load later moves on or cannot, and so does each caller.
LoadsMoveOn == [](\A d \in Callers : <>~CanLoad(d) \/ <><<Load(d)>>_vars)
CallersMoveOn == [](\A c \in Callers : <>~CanResume(c) \/ <><<Resume(c)>>_vars)

(***************************************************************************)
(* Whoever awaits the keys is answered: the load that is awaited is the    *)
(* one the service keeps, of a caller in the same process, so that nothing *)
(* but its own steps or the end of the process brings it anywhere.         *)
(***************************************************************************)
THEOREM KeysAnswered == Spec /\ LoadsMoveOn /\ CallersMoveOn => CallersAnswered
<1> SUFFICES ASSUME []IInv, [][Next]_vars,
                    [](\A d \in Callers : <>~CanLoad(d) \/ <><<Load(d)>>_vars),
                    [](\A c \in Callers : <>~CanResume(c) \/ <><<Resume(c)>>_vars)
             PROVE  CallersAnswered
  BY Invariance, PTL DEF Spec, LoadsMoveOn, CallersMoveOn
<1>1. \A d \in Callers : <>~CanLoad(d) \/ <><<Load(d)>>_vars
  BY PTL
<1>2. \A c \in Callers : <>~CanResume(c) \/ <><<Resume(c)>>_vars
  BY PTL
<1>3. ASSUME NEW c \in Callers PROVE waits[c] # None ~> waits[c] = None
  <2>1. <>~CanResume(c) \/ <><<Resume(c)>>_vars
    BY <1>2
  <2>2. ASSUME NEW d \in Callers PROVE waits[c] = d => <>(waits[c] = None)
    <3>1. <>~CanLoad(d) \/ <><<Load(d)>>_vars
      BY <1>1
    <3>2. IInv /\ [Next]_vars =>
              /\ Onwards(c, d, "get", "generate") /\ Onwards(c, d, "generate", "store")
              /\ Onwards(c, d, "store", "ready") /\ Onwards(c, d, "ready", "ready")
      BY GoesOn DEF Upcoming
    <3>3. IInv => TypeOK /\ (waits[c] = d => Awaits(c, d, "get"))
      BY ServiceOK, NoneAssumption DEF IInv, TypeOK, OnlyKept, MemoOwned, Awaits, Upcoming
    <3>4. /\ Awaits(c, d, "get") /\ ~Awaits(c, d, "ready") => CanLoad(d)
          /\ Awaits(c, d, "ready") => CanResume(c)
          /\ <<Resume(c)>>_vars /\ TypeOK => (waits[c] = None)'
      BY Answerable
    <3> QED BY <2>1, <3>1, <3>2, <3>3, <3>4, PTL DEF Onwards
  <2>3. waits[c] = None \/ waits[c] \in Callers
    <3>1. IInv => waits[c] = None \/ waits[c] \in Callers
      BY DEF IInv, TypeOK
    <3> QED BY <3>1, PTL
  <2>4. waits[c] # None => <>(waits[c] = None)
    BY <2>2, <2>3
  <2> QED BY <2>4, PTL
<1> QED BY <1>3 DEF CallersAnswered
=============================================================================
