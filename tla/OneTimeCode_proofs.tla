-------------------------- MODULE OneTimeCode_proofs --------------------------
(***************************************************************************)
(* Proofs about OneTimeCode, for any numbers of types, subjects, codes,    *)
(* requests and issues.                                                    *)
(***************************************************************************)
EXTENDS OneTimeCode, TLAPS

\* Every entry is under the key of its type and subject, and is the last one
\* stored for them.
Filed ==
    \A k \in Key : store[k] # None =>
        /\ getKey(store[k].type, store[k].subject) = k
        /\ store[k].id <= last
        /\ store[k].id = latest[store[k].type][store[k].subject]

\* A verification holds an issue that was stored, and no other key has it.
Held ==
    \A c \in Clients : pc[c] = "del" =>
        /\ seen[c].id <= last
        /\ \A k \in Key : store[k] # None /\ store[k].id = seen[c].id => k = KeyOf(c)

\* No two keys have the same issue, and issues to come are unused.
Fresh ==
    /\ \A j, k \in Key : store[j] # None /\ store[k] # None /\ store[j].id = store[k].id
            => j = k
    /\ \A i \in Issues : i > last => uses[i] = 0

\* What a verification matched is no newer than the last code for its key.
Older ==
    \A c \in Clients : pc[c] = "del" => seen[c].id <= latest[seen[c].type][seen[c].subject]

IInv == TypeOK /\ MatchesItsIssue /\ Filed /\ Held /\ Fresh /\ SpentIsGone

-----------------------------------------------------------------------------
(***************************************************************************)
(* Initially nothing is stored and nothing is in flight.                   *)
(***************************************************************************)
LEMMA InitInv == Init => IInv
  BY BoundsAssumption
  DEF Init, IInv, TypeOK, StoreOK, CallOK, MatchesItsIssue, Filed, Held, Fresh, SpentIsGone, Issues

\* A call under way has an argument, whose key is one of the store's.
LEMMA ArgumentOK ==
    ASSUME TypeOK, NEW c \in Clients, pc[c] # "idle"
    PROVE  /\ arg[c] \in Argument
           /\ arg[c].type \in Types /\ arg[c].subject \in Subjects /\ arg[c].code \in Codes
           /\ KeyOf(c) \in Key
<1>1. arg[c] \in Argument
  BY DEF TypeOK, CallOK
<1> QED BY <1>1 DEF Argument, Key, KeyOf, getKey

\* Ending a call keeps the types of what is known about calls.
LEMMA FinishOK ==
    ASSUME TypeOK, NEW c \in Clients, Finish(c)
    PROVE  CallOK'
BY DEF TypeOK, CallOK, Finish

(***************************************************************************)
(* Every step preserves the types.                                         *)
(***************************************************************************)
LEMMA TypeStep == TypeOK /\ [Next]_vars => TypeOK'
<1> SUFFICES ASSUME TypeOK, [Next]_vars PROVE TypeOK'
  OBVIOUS
<1>1. ASSUME NEW c \in Clients, Save(c) PROVE TypeOK'
  <2>1. NewEntry(c) \in Entry
    BY <1>1, ArgumentOK, BoundsAssumption DEF Save, NewEntry, Entry, Issues, TypeOK, StoreOK
  <2>2. StoreOK'
    BY <1>1, <2>1, ArgumentOK, BoundsAssumption DEF Save, Stored, TypeOK, StoreOK
  <2> QED BY <1>1, <2>2, FinishOK DEF Save, TypeOK
<1>2. ASSUME NEW c \in Clients, SaveFails(c) \/ Mismatch(c) \/ GetFails(c) PROVE TypeOK'
  BY <1>2, FinishOK DEF SaveFails, Mismatch, GetFails, TypeOK, StoreOK
<1>3. ASSUME NEW c \in Clients, Match(c) PROVE TypeOK'
  <2>1. store[KeyOf(c)] \in Entry
    BY <1>3, ArgumentOK DEF Match, Matches, TypeOK, StoreOK
  <2> QED BY <1>3, <2>1 DEF Match, TypeOK, StoreOK, CallOK
<1>4. ASSUME NEW c \in Clients, Accept(c) PROVE TypeOK'
  <2>2. uses' \in [Issues -> Nat]
    <3>1. uses \in [Issues -> Nat] /\ uses' = [uses EXCEPT ![seen[c].id] = @ + 1]
      BY <1>4 DEF Accept, TypeOK, StoreOK
    <3>2. \A i \in Issues : uses[i] \in Nat /\ uses[i] + 1 \in Nat
      BY <3>1
    <3> QED BY <3>1, <3>2
  <2>3. store' \in [Key -> Entry \union {None}]
    BY <1>4 DEF Accept, Deleted, TypeOK, StoreOK
  <2>1. StoreOK'
    BY <1>4, <2>2, <2>3 DEF Accept, TypeOK, StoreOK
  <2> QED BY <1>4, <2>1, FinishOK DEF Accept, TypeOK
<1>5. ASSUME NEW c \in Clients, DelFails(c) PROVE TypeOK'
  <2>1. StoreOK'
    BY <1>5 DEF DelFails, Deleted, TypeOK, StoreOK
  <2> QED BY <1>5, <2>1, FinishOK DEF DelFails, TypeOK
<1>6. ASSUME NEW c \in Clients, NEW t \in Types, NEW s \in Subjects, NEW d \in Codes,
             Generate(c, t, s, d) \/ Submit(c, t, s, d)
      PROVE  TypeOK'
  <2>1. [type |-> t, subject |-> s, code |-> d] \in Argument
    BY DEF Argument
  <2>2. CallOK'
    BY <1>6, <2>1 DEF Generate, Submit, Call, TypeOK, CallOK
  <2> QED BY <1>6, <2>2 DEF Generate, Submit, Call, TypeOK, StoreOK
<1>7. CASE Tick
  <2>1. now' \in 0..MaxTime
    BY <1>7, BoundsAssumption DEF Tick, TypeOK, StoreOK
  <2> QED BY <1>7, <2>1 DEF Tick, Expire, TypeOK, StoreOK, CallOK
<1>8. CASE UNCHANGED vars
  BY <1>8 DEF vars, TypeOK, StoreOK, CallOK
<1> QED
  BY <1>1, <1>2, <1>3, <1>4, <1>5, <1>6, <1>7, <1>8 DEF Next, Round

-----------------------------------------------------------------------------
(***************************************************************************)
(* Every step preserves the inductive invariant.                           *)
(***************************************************************************)
LEMMA InvStep == IInv /\ [Next]_vars => IInv'
<1> SUFFICES ASSUME IInv, [Next]_vars PROVE IInv'
  OBVIOUS
<1>0. TypeOK /\ TypeOK'
  BY TypeStep DEF IInv
<1> USE NoneAssumption DEF IInv, getKey
<1>1. ASSUME NEW c \in Clients, Save(c) PROVE IInv'
  <2> DEFINE K == KeyOf(c)
  <2>1. K \in Key /\ K = <<arg[c].type, arg[c].subject>>
        /\ arg[c].type \in Types /\ arg[c].subject \in Subjects
    BY <1>0, <1>1, ArgumentOK DEF Save, KeyOf
  <2>2. /\ store' = [store EXCEPT ![K] = NewEntry(c)]
        /\ last' = last + 1 /\ last \in Nat /\ last' \in Issues
        /\ latest' = [latest EXCEPT ![arg[c].type][arg[c].subject] = last + 1]
        /\ UNCHANGED uses
        /\ \A b \in Clients : pc'[b] = "del" => b # c /\ pc[b] = "del" /\ seen'[b] = seen[b]
                                               /\ arg'[b] = arg[b]
    BY <1>0, <1>1, BoundsAssumption
    DEF Save, Stored, Finish, TypeOK, StoreOK, CallOK, Issues
  <2>3. /\ NewEntry(c).id = last + 1
        /\ NewEntry(c).type = arg[c].type /\ NewEntry(c).subject = arg[c].subject
    BY DEF NewEntry
  <2>4. \A k \in Key : store'[k] = IF k = K THEN NewEntry(c) ELSE store[k]
    BY <1>0, <2>2 DEF TypeOK, StoreOK
  <2>5. \A k \in Key : store[k] # None => store[k] \in Entry /\ store[k].id \in Nat
    BY <1>0 DEF TypeOK, StoreOK, Entry, Issues
  <2>6. MatchesItsIssue'
    BY <2>2 DEF MatchesItsIssue
  <2>7. Filed'
    BY <1>0, <2>1, <2>2, <2>3, <2>4, <2>5 DEF Filed, TypeOK, StoreOK, Entry, Key
  <2>8. Held'
    BY <1>0, <2>2, <2>3, <2>4 DEF Held, KeyOf, TypeOK, CallOK, Entry, Issues
  <2>9. Fresh'
    BY <2>2, <2>3, <2>4, <2>5 DEF Fresh, Filed, Issues
  <2>10. SpentIsGone'
    BY <2>2, <2>3, <2>4 DEF SpentIsGone, Fresh, Issues
  <2> QED BY <1>0, <2>6, <2>7, <2>8, <2>9, <2>10
<1>2. ASSUME NEW c \in Clients, SaveFails(c) \/ Mismatch(c) \/ GetFails(c) PROVE IInv'
  <2>1. /\ UNCHANGED <<store, last, latest, uses>>
        /\ \A b \in Clients : pc'[b] = "del" => pc[b] = "del" /\ seen'[b] = seen[b]
                                               /\ arg'[b] = arg[b]
    BY <1>0, <1>2 DEF SaveFails, Mismatch, GetFails, Finish, TypeOK, CallOK
  <2> QED BY <1>0, <2>1 DEF MatchesItsIssue, Filed, Held, Fresh, SpentIsGone, KeyOf
<1>3. ASSUME NEW c \in Clients, Match(c) PROVE IInv'
  <2>1. /\ KeyOf(c) \in Key /\ store[KeyOf(c)] # None
        /\ seen' = [seen EXCEPT ![c] = store[KeyOf(c)]]
        /\ store[KeyOf(c)].code = arg[c].code
        /\ UNCHANGED <<store, last, latest, uses, arg>>
        /\ \A b \in Clients : pc'[b] = "del" => b = c \/ pc[b] = "del"
        /\ \A b \in Clients : seen'[b] = IF b = c THEN store[KeyOf(c)] ELSE seen[b]
    BY <1>0, <1>3, ArgumentOK DEF Match, Matches, TypeOK, CallOK
  <2>2. KeyOf(c) = <<arg[c].type, arg[c].subject>>
    BY DEF KeyOf
  <2>3. MatchesItsIssue'
    BY <2>1, <2>2 DEF MatchesItsIssue, Filed
  <2>4. Held'
    BY <2>1 DEF Held, Filed, Fresh, KeyOf
  <2> QED BY <1>0, <2>1, <2>3, <2>4 DEF Filed, Fresh, SpentIsGone
<1>4. ASSUME NEW c \in Clients, Accept(c) PROVE IInv'
  <2>1. /\ \A k \in Key : store'[k] = IF k = KeyOf(c) THEN None ELSE store[k]
        /\ uses' = [uses EXCEPT ![seen[c].id] = @ + 1]
        /\ UNCHANGED <<last, latest>>
        /\ pc[c] = "del"
        /\ \A b \in Clients : pc'[b] = "del" => pc[b] = "del" /\ seen'[b] = seen[b]
                                               /\ arg'[b] = arg[b]
    BY <1>0, <1>4 DEF Accept, Deleted, Finish, TypeOK, StoreOK, CallOK
  <2>2. MatchesItsIssue' /\ Filed' /\ Held'
    BY <2>1 DEF MatchesItsIssue, Filed, Held, KeyOf
  <2>3. seen[c].id \in Issues /\ seen[c].id <= last /\ last \in Nat
    BY <1>0, <2>1 DEF Held, TypeOK, CallOK, StoreOK, Entry
  <2>4. \A i \in Issues : i # seen[c].id => uses'[i] = uses[i]
    BY <1>0, <2>1 DEF TypeOK, StoreOK
  <2>5. Fresh'
    BY <2>1, <2>3, <2>4 DEF Fresh, Issues
  <2>6. SpentIsGone'
    BY <1>0, <2>1, <2>4 DEF SpentIsGone, Held, TypeOK, StoreOK, Entry
  <2> QED BY <1>0, <2>2, <2>5, <2>6
<1>5. ASSUME NEW c \in Clients, DelFails(c) PROVE IInv'
  <2>1. /\ \A k \in Key : store'[k] \in {None, store[k]}
        /\ UNCHANGED <<last, latest, uses>>
        /\ \A b \in Clients : pc'[b] = "del" => pc[b] = "del" /\ seen'[b] = seen[b]
                                               /\ arg'[b] = arg[b]
    BY <1>0, <1>5 DEF DelFails, Deleted, Finish, TypeOK, StoreOK, CallOK
  <2> QED BY <1>0, <2>1 DEF MatchesItsIssue, Filed, Held, Fresh, SpentIsGone, KeyOf
<1>6. ASSUME NEW c \in Clients, NEW t \in Types, NEW s \in Subjects, NEW d \in Codes,
             Generate(c, t, s, d) \/ Submit(c, t, s, d)
      PROVE  IInv'
  <2>1. /\ UNCHANGED <<store, last, latest, uses, seen>>
        /\ \A b \in Clients : pc'[b] = "del" => pc[b] = "del" /\ arg'[b] = arg[b]
    BY <1>0, <1>6 DEF Generate, Submit, Call, TypeOK, CallOK
  <2> QED BY <1>0, <2>1 DEF MatchesItsIssue, Filed, Held, Fresh, SpentIsGone, KeyOf
<1>7. CASE Tick
  <2>1. /\ \A k \in Key : store'[k] \in {None, store[k]}
        /\ UNCHANGED <<last, latest, uses, pc, seen, arg>>
    BY <1>7 DEF Tick, Expire
  <2> QED BY <1>0, <2>1 DEF MatchesItsIssue, Filed, Held, Fresh, SpentIsGone, KeyOf
<1>8. CASE UNCHANGED vars
  BY <1>0, <1>8 DEF vars, MatchesItsIssue, Filed, Held, Fresh, SpentIsGone, KeyOf
<1> QED
  BY <1>1, <1>2, <1>3, <1>4, <1>5, <1>6, <1>7, <1>8 DEF Next, Round

LEMMA Invariance == Spec => []IInv
  BY InitInv, InvStep, PTL DEF Spec

(***************************************************************************)
(* The variables keep their types.                                         *)
(***************************************************************************)
THEOREM TypeCorrect == Spec => []TypeOK
<1>1. IInv => TypeOK
  BY DEF IInv
<1> QED BY <1>1, Invariance, PTL

(***************************************************************************)
(* A verification succeeds only on a code issued for its type and subject. *)
(***************************************************************************)
THEOREM MatchCorrect == Spec => []MatchesItsIssue
<1>1. IInv => MatchesItsIssue
  BY DEF IInv
<1> QED BY <1>1, Invariance, PTL

(***************************************************************************)
(* An issue that has satisfied a verification is never in Redis again.     *)
(***************************************************************************)
THEOREM SpentCorrect == Spec => []SpentIsGone
<1>1. IInv => SpentIsGone
  BY DEF IInv
<1> QED BY <1>1, Invariance, PTL

(***************************************************************************)
(* What Redis holds for a type and a subject is the last code stored.      *)
(***************************************************************************)
THEOREM LatestCorrect == Spec => []OnlyLatest
<1>1. IInv => OnlyLatest
  BY DEF IInv, Filed, OnlyLatest
<1> QED BY <1>1, Invariance, PTL

-----------------------------------------------------------------------------
\* No entry in Redis is past its time to live.
Unexpired == \A k \in Key : store[k] # None => now < store[k].born + TTL

LEMMA UnexpiredStep == IInv /\ Unexpired /\ [Next]_vars => Unexpired'
<1> SUFFICES ASSUME IInv, Unexpired, [Next]_vars PROVE Unexpired'
  OBVIOUS
<1>0. TypeOK
  BY DEF IInv
<1>1. ASSUME NEW c \in Clients, Save(c) PROVE Unexpired'
  <2>1. \A k \in Key : store'[k] \in {NewEntry(c), store[k]}
    BY <1>0, <1>1 DEF Save, Stored, TypeOK, StoreOK
  <2>2. NewEntry(c).born = now /\ now' = now /\ now \in Nat
    BY <1>0, <1>1 DEF NewEntry, Save, TypeOK, StoreOK
  <2> QED BY <2>1, <2>2, TTLAssumption DEF Unexpired
<1>2. CASE Tick
  <2>1. \A k \in Key : store'[k] # None => /\ store'[k] = store[k]
                                           /\ ~Expired(store[k], now + 1)
    BY <1>2 DEF Tick, Expire
  <2>2. now \in Nat /\ now' = now + 1
    BY <1>0, <1>2 DEF Tick, TypeOK, StoreOK
  <2>3. \A k \in Key : store[k] # None => store[k].born \in Nat
    BY <1>0 DEF TypeOK, StoreOK, Entry
  <2> QED BY <2>1, <2>2, <2>3, TTLAssumption DEF Unexpired, Expired
<1>3. ASSUME now' = now, \A k \in Key : store'[k] \in {None, store[k]} PROVE Unexpired'
  BY <1>3 DEF Unexpired
<1>4. ASSUME NEW c \in Clients, Accept(c) \/ DelFails(c) PROVE Unexpired'
  BY <1>0, <1>3, <1>4 DEF Accept, DelFails, Deleted, TypeOK, StoreOK
<1>5. ASSUME NEW c \in Clients, SaveFails(c) \/ Match(c) \/ Mismatch(c) \/ GetFails(c)
      PROVE  Unexpired'
  BY <1>3, <1>5 DEF SaveFails, Match, Mismatch, GetFails
<1>6. ASSUME NEW c \in Clients, NEW t \in Types, NEW s \in Subjects, NEW d \in Codes,
             Generate(c, t, s, d) \/ Submit(c, t, s, d)
      PROVE  Unexpired'
  BY <1>3, <1>6 DEF Generate, Submit, Call
<1>7. CASE UNCHANGED vars
  BY <1>3, <1>7 DEF vars
<1> QED
  BY <1>1, <1>2, <1>4, <1>5, <1>6, <1>7 DEF Next, Round

\* Only a GET that matches takes a request from its GET to its DEL.
LEMMA MatchOnly ==
    ASSUME TypeOK, [Next]_vars, NEW c \in Clients, pc[c] = "get", pc'[c] = "del"
    PROVE  Match(c)
<1>1. ASSUME NEW b \in Clients, b # c, Round(b) PROVE FALSE
  BY <1>1 DEF Round, Save, SaveFails, Match, Mismatch, GetFails, Accept, DelFails, Finish,
              TypeOK, CallOK
<1>2. ASSUME Round(c) PROVE Match(c)
  BY <1>2 DEF Round, Save, SaveFails, Match, Mismatch, GetFails, Accept, DelFails, Finish,
              TypeOK, CallOK
<1>3. ASSUME NEW b \in Clients, NEW t \in Types, NEW s \in Subjects, NEW d \in Codes,
             Generate(b, t, s, d) \/ Submit(b, t, s, d)
      PROVE  FALSE
  BY <1>3 DEF Generate, Submit, Call, TypeOK, CallOK
<1>4. ~Tick /\ ~UNCHANGED vars
  BY DEF Tick, vars
<1> QED BY <1>1, <1>2, <1>3, <1>4 DEF Next

(***************************************************************************)
(* A code is matched only while it is younger than its time to live.       *)
(***************************************************************************)
THEOREM TimeCorrect == Spec => MatchedInTime
<1> DEFINE A == \A c \in Clients : pc[c] = "get" /\ pc'[c] = "del" =>
                    now < seen'[c].born + TTL
<1>1. Init => Unexpired
  BY DEF Init, Unexpired
<1>2. IInv /\ Unexpired /\ [Next]_vars => [A]_vars
  <2> SUFFICES ASSUME IInv, Unexpired, [Next]_vars, NEW c \in Clients,
                      pc[c] = "get", pc'[c] = "del"
               PROVE  now < seen'[c].born + TTL
    OBVIOUS
  <2>1. TypeOK /\ Match(c)
    BY MatchOnly DEF IInv
  <2>2. KeyOf(c) \in Key /\ seen'[c] = store[KeyOf(c)] /\ store[KeyOf(c)] # None
    BY <2>1, ArgumentOK DEF Match, Matches, TypeOK, CallOK
  <2> QED BY <2>2 DEF Unexpired
<1>3. Spec => []Unexpired
  BY <1>1, UnexpiredStep, Invariance, PTL DEF Spec
<1> QED BY <1>2, <1>3, Invariance, PTL DEF Spec, MatchedInTime

-----------------------------------------------------------------------------
LEMMA OlderStep == IInv /\ Older /\ [Next]_vars => Older'
<1> SUFFICES ASSUME IInv, Older, [Next]_vars PROVE Older'
  OBVIOUS
<1>0. TypeOK /\ TypeOK'
  BY TypeStep DEF IInv
<1>1. ASSUME NEW c \in Clients, Save(c) PROVE Older'
  <2>1. /\ latest' = [latest EXCEPT ![arg[c].type][arg[c].subject] = last + 1]
        /\ arg[c].type \in Types /\ arg[c].subject \in Subjects /\ last \in Nat
        /\ \A b \in Clients : pc'[b] = "del" => pc[b] = "del" /\ seen'[b] = seen[b]
    BY <1>0, <1>1, ArgumentOK DEF Save, Stored, Finish, TypeOK, StoreOK, CallOK
  <2> SUFFICES ASSUME NEW b \in Clients, pc'[b] = "del"
               PROVE  seen'[b].id <= latest'[seen'[b].type][seen'[b].subject]
    BY DEF Older
  <2>2. /\ pc[b] = "del" /\ seen'[b] = seen[b]
        /\ seen[b].type \in Types /\ seen[b].subject \in Subjects /\ seen[b].id \in Nat
    BY <1>0, <2>1 DEF TypeOK, CallOK, Entry, Issues
  <2>3. seen[b].id <= latest[seen[b].type][seen[b].subject] /\ seen[b].id <= last
    BY <2>2 DEF Older, IInv, Held
  <2>4. latest'[seen[b].type][seen[b].subject]
            \in {latest[seen[b].type][seen[b].subject], last + 1}
    BY <1>0, <2>1, <2>2 DEF TypeOK, StoreOK
  <2> QED BY <2>1, <2>2, <2>3, <2>4
<1>2. ASSUME NEW c \in Clients, Match(c) PROVE Older'
  <2>1. /\ KeyOf(c) \in Key /\ store[KeyOf(c)] # None
        /\ UNCHANGED latest
        /\ \A b \in Clients : pc'[b] = "del" => b = c \/ (pc[b] = "del" /\ seen'[b] = seen[b])
        /\ seen'[c] = store[KeyOf(c)]
    BY <1>0, <1>2, ArgumentOK DEF Match, Matches, TypeOK, CallOK
  <2>2. store[KeyOf(c)].id = latest[store[KeyOf(c)].type][store[KeyOf(c)].subject]
        /\ store[KeyOf(c)].id \in Nat
    BY <1>0, <2>1 DEF IInv, Filed, TypeOK, StoreOK, Entry, Issues
  <2> QED BY <2>1, <2>2 DEF Older
<1>3. CASE /\ UNCHANGED latest
           /\ \A b \in Clients : pc'[b] = "del" => pc[b] = "del" /\ seen'[b] = seen[b]
  BY <1>3 DEF Older
<1>4. ASSUME NEW c \in Clients,
             SaveFails(c) \/ Mismatch(c) \/ GetFails(c) \/ Accept(c) \/ DelFails(c)
      PROVE  Older'
  BY <1>0, <1>3, <1>4 DEF SaveFails, Mismatch, GetFails, Accept, DelFails, Finish, TypeOK, CallOK
<1>5. ASSUME NEW c \in Clients, NEW t \in Types, NEW s \in Subjects, NEW d \in Codes,
             Generate(c, t, s, d) \/ Submit(c, t, s, d)
      PROVE  Older'
  BY <1>0, <1>3, <1>5 DEF Generate, Submit, Call, TypeOK, CallOK
<1>6. CASE Tick \/ UNCHANGED vars
  BY <1>3, <1>6 DEF Tick, vars
<1> QED BY <1>1, <1>2, <1>4, <1>5, <1>6 DEF Next, Round

\* A DEL takes away what is under its key, which is no older than what it matched.
LEMMA DelTakesOwn ==
    ASSUME IInv, Older, NEW c \in Clients, Accept(c) \/ DelFails(c),
           NEW k \in Key, store[k] # None, store'[k] = None
    PROVE  /\ pc[c] = "del" /\ pc'[c] = "idle"
           /\ seen[c].type = store[k].type /\ seen[c].subject = store[k].subject
           /\ seen[c].id <= store[k].id
<1>0. TypeOK
  BY DEF IInv
<1>1. pc[c] = "del" /\ pc'[c] = "idle" /\ (Deleted(c) \/ UNCHANGED store)
  BY <1>0 DEF Accept, DelFails, Finish, TypeOK, CallOK
<1>2. k = KeyOf(c)
  BY <1>0, <1>1 DEF Deleted, TypeOK, StoreOK
<1>3. seen[c].type = store[k].type /\ seen[c].subject = store[k].subject
  BY <1>1, <1>2 DEF IInv, MatchesItsIssue, Filed, KeyOf, getKey
<1>4. store[k].id = latest[store[k].type][store[k].subject]
  BY DEF IInv, Filed
<1> QED BY <1>1, <1>3, <1>4 DEF Older

(***************************************************************************)
(* A code is lost before its time only to a newer one or to the DEL of a   *)
(* verification that had matched it or an older one for the same purpose.  *)
(***************************************************************************)
THEOREM LossCorrect == Spec => LostToMatchOnly
<1> DEFINE A == \A k \in Key : store[k] # None /\ store'[k] = None /\ ~Expired(store[k], now') =>
                    \E c \in Clients :
                        /\ pc[c] = "del" /\ pc'[c] = "idle"
                        /\ seen[c].type = store[k].type /\ seen[c].subject = store[k].subject
                        /\ seen[c].id <= store[k].id
<1>1. Init => Older
  BY DEF Init, Older
<1>2. IInv /\ Older /\ [Next]_vars => [A]_vars
  <2> SUFFICES ASSUME IInv, Older, [Next]_vars, NEW k \in Key,
                      store[k] # None, store'[k] = None, ~Expired(store[k], now')
               PROVE  \E c \in Clients :
                        /\ pc[c] = "del" /\ pc'[c] = "idle"
                        /\ seen[c].type = store[k].type /\ seen[c].subject = store[k].subject
                        /\ seen[c].id <= store[k].id
    OBVIOUS
  <2>0. TypeOK
    BY DEF IInv
  <2>1. ASSUME NEW c \in Clients, Save(c) PROVE FALSE
    <3>1. NewEntry(c) \in Entry
      BY <2>0, <2>1, ArgumentOK, BoundsAssumption DEF Save, NewEntry, Entry, Issues, TypeOK, StoreOK
    <3>2. store'[k] \in {NewEntry(c), store[k]}
      BY <2>0, <2>1 DEF Save, Stored, TypeOK, StoreOK
    <3> QED BY <3>1, <3>2, NoneAssumption
  <2>2. ASSUME NEW c \in Clients, Accept(c) \/ DelFails(c)
        PROVE  \E b \in Clients :
                /\ pc[b] = "del" /\ pc'[b] = "idle"
                /\ seen[b].type = store[k].type /\ seen[b].subject = store[k].subject
                /\ seen[b].id <= store[k].id
    BY <2>2, DelTakesOwn
  <2>3. CASE Tick
    BY <2>3 DEF Tick, Expire
  <2>4. CASE UNCHANGED store
    BY <2>4
  <2>5. ASSUME NEW c \in Clients, SaveFails(c) \/ Match(c) \/ Mismatch(c) \/ GetFails(c)
        PROVE  UNCHANGED store
    BY <2>5 DEF SaveFails, Match, Mismatch, GetFails
  <2>6. ASSUME NEW c \in Clients, NEW t \in Types, NEW s \in Subjects, NEW d \in Codes,
               Generate(c, t, s, d) \/ Submit(c, t, s, d)
        PROVE  UNCHANGED store
    BY <2>6 DEF Generate, Submit, Call
  <2>7. CASE UNCHANGED vars
    BY <2>7 DEF vars
  <2> QED BY <2>1, <2>2, <2>3, <2>4, <2>5, <2>6, <2>7 DEF Next, Round
<1>3. Spec => []Older
  BY <1>1, OlderStep, Invariance, PTL DEF Spec
<1> QED BY <1>2, <1>3, Invariance, PTL DEF Spec, LostToMatchOnly

-----------------------------------------------------------------------------
(* OneTimeCode implements CodeLifecycle *)

\* A step that changes neither the store nor the verifications between GET
\* and DEL is a stutter of CodeLifecycle.
LEMMA Stutter ==
    ASSUME UNCHANGED <<store, last, uses>>,
           \A c \in Clients : pc'[c] = "del" <=> pc[c] = "del",
           \A c \in Clients : pc[c] = "del" => seen'[c] = seen[c]
    PROVE  UNCHANGED Lifecycle!vars
<1>1. \A i \in Issues : PhaseOf(i)' = PhaseOf(i) /\ Pending(i)' = Pending(i)
  BY DEF PhaseOf, Pending
<1>2. phaseMap' = phaseMap /\ holdersMap' = holdersMap
  BY <1>1 DEF phaseMap, holdersMap
<1> QED BY <1>2 DEF Lifecycle!vars

\* The live issues a step takes away.
Lost == {i \in Issues : PhaseOf(i) = "live" /\ PhaseOf(i)' = "gone"}

\* A step that stores nothing and only takes entries away retires their issues.
LEMMA Retiring ==
    ASSUME IInv, UNCHANGED last, \A k \in Key : store'[k] \in {None, store[k]}
    PROVE  /\ Lost \subseteq Lifecycle!Live
           /\ phaseMap' = Lifecycle!Retired(Lost)
<1>1. \A i \in Issues : PhaseOf(i)' = IF i \in Lost THEN "gone" ELSE PhaseOf(i)
  BY DEF Lost, PhaseOf
<1> QED BY <1>1 DEF Lost, Lifecycle!Live, Lifecycle!Retired, phaseMap

LEMMA SaveImplements ==
    ASSUME IInv, NEW c \in Clients, Save(c)
    PROVE  \E i \in Issues : Lifecycle!Issue(i)
<1> PICK n : n = last + 1
  OBVIOUS
<1> DEFINE K == KeyOf(c)
           S == {i \in Issues : PhaseOf(i) = "live" /\ store[K] # None /\ store[K].id = i}
<1>0. TypeOK
  BY DEF IInv
<1>1. /\ n \in Issues /\ last \in Nat /\ last' = n /\ UNCHANGED uses
      /\ K \in Key /\ \A k \in Key : store'[k] = IF k = K THEN NewEntry(c) ELSE store[k]
      /\ NewEntry(c).id = n /\ NewEntry(c) # None
  <2>1. NewEntry(c) \in Entry
    BY <1>0, ArgumentOK, BoundsAssumption DEF Save, NewEntry, Entry, Issues, TypeOK, StoreOK
  <2> QED BY <1>0, <2>1, ArgumentOK, NoneAssumption, BoundsAssumption
          DEF Save, Stored, NewEntry, TypeOK, StoreOK, Issues
<1>2. \A k \in Key : store[k] # None => store[k].id \in Issues /\ store[k].id <= last
  BY <1>0 DEF IInv, Filed, TypeOK, StoreOK, Entry
<1>3. PhaseOf(n) = "unborn" /\ PhaseOf(n)' = "live"
  <2>1. n > last /\ ~(n > last')
    BY <1>1
  <2>2. store'[K] # None /\ store'[K].id = n
    BY <1>1
  <2> QED BY <1>1, <2>1, <2>2 DEF PhaseOf
<1>4. \A i \in Issues : i # n => PhaseOf(i)' = IF i \in S THEN "gone" ELSE PhaseOf(i)
  <2> SUFFICES ASSUME NEW i \in Issues, i # n
               PROVE  PhaseOf(i)' = IF i \in S THEN "gone" ELSE PhaseOf(i)
    OBVIOUS
  <2>1. CASE i > last
    BY <1>1, <1>2, <2>1 DEF PhaseOf, Issues
  <2>2. CASE ~(i > last)
    BY <1>1, <1>2, <2>2 DEF PhaseOf, Issues, IInv, Fresh
  <2> QED BY <2>1, <2>2
<1>5. phaseMap' = [Lifecycle!Retired(S) EXCEPT ![n] = "live"]
  <2>1. Lifecycle!Retired(S) = [i \in Issues |-> IF i \in S THEN "gone" ELSE PhaseOf(i)]
    BY DEF Lifecycle!Retired, phaseMap
  <2>2. phaseMap' = [i \in Issues |-> PhaseOf(i)']
    BY DEF phaseMap
  <2> HIDE DEF S
  <2> QED BY <1>1, <1>3, <1>4, <2>1, <2>2
<1>6. holdersMap' = holdersMap
  <2>1. \A b \in Clients : /\ pc'[b] = "del" <=> pc[b] = "del"
                           /\ pc[b] = "del" => seen'[b] = seen[b]
    BY <1>0 DEF Save, Finish, TypeOK, CallOK
  <2>2. \A i \in Issues : Pending(i)' = Pending(i)
    BY <2>1 DEF Pending
  <2> QED BY <2>2 DEF holdersMap
<1>7. S \in SUBSET Lifecycle!Live
  BY DEF Lifecycle!Live, phaseMap
<1>8. Lifecycle!Issue(n)
  BY <1>1, <1>3, <1>5, <1>6, <1>7 DEF Lifecycle!Issue, phaseMap
<1> QED BY <1>1, <1>8

LEMMA MatchImplements ==
    ASSUME IInv, NEW c \in Clients, Match(c)
    PROVE  \E i \in Issues : Lifecycle!Look(c, i)
<1> DEFINE e == store[KeyOf(c)]
<1>0. TypeOK
  BY DEF IInv
<1>1. /\ KeyOf(c) \in Key /\ e # None /\ UNCHANGED <<store, last, uses>>
      /\ pc[c] = "get"
      /\ \A b \in Clients : pc'[b] = IF b = c THEN "del" ELSE pc[b]
      /\ \A b \in Clients : seen'[b] = IF b = c THEN e ELSE seen[b]
  BY <1>0, ArgumentOK DEF Match, Matches, TypeOK, CallOK
<1>2. e.id \in Issues /\ PhaseOf(e.id) = "live"
  BY <1>0, <1>1 DEF PhaseOf, IInv, Filed, TypeOK, StoreOK, Entry, Issues
<1>3. \A i \in Issues : PhaseOf(i)' = PhaseOf(i)
  BY <1>1 DEF PhaseOf
<1>4. \A i \in Issues : Pending(i)' = IF i = e.id THEN Pending(i) \union {c} ELSE Pending(i)
  BY <1>1 DEF Pending
<1>5. phaseMap' = phaseMap /\ holdersMap' = [holdersMap EXCEPT ![e.id] = @ \union {c}]
  BY <1>2, <1>3, <1>4 DEF phaseMap, holdersMap
<1>6. Lifecycle!Look(c, e.id)
  BY <1>1, <1>2, <1>5 DEF Lifecycle!Look, phaseMap
<1> QED BY <1>2, <1>6

LEMMA AcceptImplements ==
    ASSUME IInv, NEW c \in Clients, Accept(c)
    PROVE  \E i \in Issues : Lifecycle!LetThrough(c, i)
<1> PICK j : j = seen[c].id
  OBVIOUS
<1>0. TypeOK
  BY DEF IInv
<1>1. /\ \A k \in Key : store'[k] = IF k = KeyOf(c) THEN None ELSE store[k]
      /\ uses' = [uses EXCEPT ![j] = @ + 1]
      /\ UNCHANGED last
      /\ pc[c] = "del"
      /\ \A b \in Clients : pc'[b] = IF b = c THEN "idle" ELSE pc[b]
      /\ \A b \in Clients : b # c => seen'[b] = seen[b]
  BY <1>0 DEF Accept, Deleted, Finish, TypeOK, StoreOK, CallOK
<1>2. /\ j \in Issues /\ j <= last /\ last \in Nat
      /\ \A k \in Key : store[k] # None /\ store[k].id = j => k = KeyOf(c)
  BY <1>0, <1>1 DEF IInv, Held, TypeOK, StoreOK, CallOK, Entry, Issues
<1>3. Lost \in SUBSET Lifecycle!Live /\ phaseMap' = Lifecycle!Retired(Lost)
  BY <1>1, Retiring
<1>4. PhaseOf(j)' = "gone"
  BY <1>1, <1>2 DEF PhaseOf, Issues
<1>5. phaseMap' = Lifecycle!Retired(Lost \union {j})
  <2>1. Lifecycle!Retired(Lost) = [i \in Issues |-> IF i \in Lost THEN "gone" ELSE PhaseOf(i)]
    BY DEF Lifecycle!Retired, phaseMap
  <2>2. Lifecycle!Retired(Lost \union {j})
          = [i \in Issues |-> IF i \in Lost \union {j} THEN "gone" ELSE PhaseOf(i)]
    BY DEF Lifecycle!Retired, phaseMap
  <2>3. phaseMap'[j] = "gone"
    BY <1>2, <1>4 DEF phaseMap
  <2>4. \A i \in Issues : (IF i \in Lost THEN "gone" ELSE PhaseOf(i))
                        = (IF i \in Lost \union {j} THEN "gone" ELSE PhaseOf(i))
    BY <1>2, <1>3, <2>1, <2>3
  <2> QED BY <1>3, <2>1, <2>2, <2>4
<1>6. \A i \in Issues : Pending(i)' = IF i = j THEN Pending(i) \ {c} ELSE Pending(i)
  BY <1>1 DEF Pending
<1>7. holdersMap' = [holdersMap EXCEPT ![j] = @ \ {c}] /\ c \in holdersMap[j]
  <2>1. holdersMap' = [holdersMap EXCEPT ![j] = @ \ {c}]
    BY <1>2, <1>6 DEF holdersMap
  <2>2. c \in holdersMap[j]
    BY <1>1, <1>2 DEF holdersMap, Pending
  <2> QED BY <2>1, <2>2
<1>8. Lifecycle!LetThrough(c, j)
  BY <1>1, <1>3, <1>5, <1>7 DEF Lifecycle!LetThrough
<1> QED BY <1>2, <1>8

LEMMA DelFailsImplements ==
    ASSUME IInv, NEW c \in Clients, DelFails(c)
    PROVE  \E i \in Issues : Lifecycle!GiveUp(c, i)
<1> PICK j : j = seen[c].id
  OBVIOUS
<1>0. TypeOK
  BY DEF IInv
<1>1. /\ \A k \in Key : store'[k] \in {None, store[k]}
      /\ UNCHANGED <<last, uses>>
      /\ pc[c] = "del"
      /\ \A b \in Clients : pc'[b] = IF b = c THEN "idle" ELSE pc[b]
      /\ \A b \in Clients : b # c => seen'[b] = seen[b]
  BY <1>0 DEF DelFails, Deleted, Finish, TypeOK, StoreOK, CallOK
<1>2. j \in Issues
  BY <1>0, <1>1 DEF TypeOK, CallOK, Entry
<1>3. Lost \in SUBSET Lifecycle!Live /\ phaseMap' = Lifecycle!Retired(Lost)
  BY <1>1, Retiring
<1>4. \A i \in Issues : Pending(i)' = IF i = j THEN Pending(i) \ {c} ELSE Pending(i)
  BY <1>1 DEF Pending
<1>5. holdersMap' = [holdersMap EXCEPT ![j] = @ \ {c}] /\ c \in holdersMap[j]
  <2>1. holdersMap' = [holdersMap EXCEPT ![j] = @ \ {c}]
    BY <1>2, <1>4 DEF holdersMap
  <2>2. c \in holdersMap[j]
    BY <1>1, <1>2 DEF holdersMap, Pending
  <2> QED BY <2>1, <2>2
<1>6. Lifecycle!GiveUp(c, j)
  BY <1>1, <1>3, <1>5 DEF Lifecycle!GiveUp
<1> QED BY <1>2, <1>6

LEMMA TickImplements ==
    ASSUME IInv, Tick
    PROVE  Lifecycle!Expire \/ UNCHANGED Lifecycle!vars
<1>1. /\ \A k \in Key : store'[k] \in {None, store[k]}
      /\ UNCHANGED <<last, uses, pc, seen>>
  BY DEF Tick, Expire
<1>2. Lost \in SUBSET Lifecycle!Live /\ phaseMap' = Lifecycle!Retired(Lost)
  BY <1>1, Retiring
<1>3. holdersMap' = holdersMap
  BY <1>1 DEF holdersMap, Pending
<1>4. CASE Lost = {}
  <2>1. Lifecycle!Retired({}) = phaseMap
    BY DEF Lifecycle!Retired, phaseMap
  <2> QED BY <1>1, <1>2, <1>3, <1>4, <2>1 DEF Lifecycle!vars
<1>5. CASE Lost # {}
  BY <1>1, <1>2, <1>3, <1>5 DEF Lifecycle!Expire
<1> QED BY <1>4, <1>5

(***************************************************************************)
(* OneTimeCode implements CodeLifecycle: every step of the service is a    *)
(* step of the abstract life of a code, or a stutter.                      *)
(***************************************************************************)
THEOREM Implements == Spec => LifecycleSpec
<1>1. Init => Lifecycle!Init
  <2> SUFFICES ASSUME Init PROVE Lifecycle!Init
    OBVIOUS
  <2>1. \A i \in Issues : PhaseOf(i) = "unborn" /\ Pending(i) = {}
    BY BoundsAssumption DEF Init, PhaseOf, Pending, Issues
  <2> QED BY <2>1 DEF Init, Lifecycle!Init, phaseMap, holdersMap
<1>2. IInv /\ [Next]_vars => [Lifecycle!Next]_(Lifecycle!vars)
  <2> SUFFICES ASSUME IInv, [Next]_vars
               PROVE  Lifecycle!Next \/ UNCHANGED Lifecycle!vars
    OBVIOUS
  <2>0. TypeOK
    BY DEF IInv
  <2>1. ASSUME NEW c \in Clients, Round(c)
        PROVE  Lifecycle!Next \/ UNCHANGED Lifecycle!vars
    <3>1. CASE Save(c)
      BY <3>1, SaveImplements DEF Lifecycle!Next
    <3>2. CASE Match(c)
      BY <3>2, MatchImplements DEF Lifecycle!Next
    <3>3. CASE Accept(c)
      BY <3>3, AcceptImplements DEF Lifecycle!Next
    <3>4. CASE DelFails(c)
      BY <3>4, DelFailsImplements DEF Lifecycle!Next
    <3>5. CASE SaveFails(c) \/ Mismatch(c) \/ GetFails(c)
      BY <2>0, <3>5, Stutter DEF SaveFails, Mismatch, GetFails, Finish, TypeOK, CallOK
    <3> QED BY <2>1, <3>1, <3>2, <3>3, <3>4, <3>5 DEF Round
  <2>2. ASSUME NEW c \in Clients, NEW t \in Types, NEW s \in Subjects, NEW d \in Codes,
               Generate(c, t, s, d) \/ Submit(c, t, s, d)
        PROVE  UNCHANGED Lifecycle!vars
    BY <2>0, <2>2, Stutter DEF Generate, Submit, Call, TypeOK, CallOK
  <2>3. CASE Tick
    BY <2>3, TickImplements DEF Lifecycle!Next
  <2>4. CASE UNCHANGED vars
    BY <2>4, Stutter DEF vars
  <2> QED BY <2>1, <2>2, <2>3, <2>4 DEF Next
<1> QED BY <1>1, <1>2, Invariance, PTL DEF Spec, LifecycleSpec, Lifecycle!Spec
=============================================================================
