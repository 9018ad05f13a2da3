-------------------------- MODULE HttpSessionsProofs --------------------------
(***************************************************************************)
(* Proofs about HttpSessions for any number of requests, principals, keys  *)
(* and upstream identifiers.  Keys are drawn once, so the scope of the     *)
(* initialize that drew a key is the scope of every request resolved to    *)
(* it; and an upstream id travels from the answer that issued it through   *)
(* the cache without leaving its key.                                      *)
(***************************************************************************)
EXTENDS HttpSessions, FiniteSetTheorems, TLAPS

(* Request d is the initialize that opened session k for scope s.          *)
Opened(d, k, s) == ask[d].kind = "initialize" /\ key[d] = k /\ ask[d].scope = s

(* Sessions and requests belong to the scope that opened the session.      *)
ScopeInv ==
  /\ \A c \in Callers : pc[c] = "received" => key[c] = NoKey
  /\ \A k \in Keys : Open(k) => \E d \in Callers : Opened(d, k, entries[k])
  /\ \A c \in Callers : key[c] # NoKey =>
       \E d \in Callers : Opened(d, key[c], ask[c].scope)

(* Upstream ids are where they were issued.                                *)
HomeInv ==
  /\ \A k \in Keys : cache[k] # NoId => home[cache[k]] = k
  /\ \A c \in Callers : pc[c] \in {"received", "resolved"} => sent[c] = NoId /\ offer[c] = NoId
  /\ \A c \in Callers : sent[c] # NoId => key[c] # NoKey /\ home[sent[c]] = key[c]
  /\ \A c \in Callers : offer[c] # NoId => home[offer[c]] = key[c]

IInv == TypeOK /\ CacheFollowsRegistry /\ ScopeInv /\ HomeInv

USE NoneAssumption, CapacityAssumption

-----------------------------------------------------------------------------
(* What the registry operations keep, stated for any set of sessions.      *)

LEMMA RemoveType ==
  ASSUME TypeOK, NEW ks, Remove(ks)
  PROVE  /\ entries' \in [Keys -> Scopes \cup {NoScope}]
         /\ idle' \subseteq Keys /\ active' \subseteq Keys
         /\ cache' \in [Keys -> UpstreamIds \cup {NoId}]
BY DEF TypeOK, Remove

LEMMA RemoveKeeps ==
  ASSUME TypeOK, CacheFollowsRegistry, NEW ks, Remove(ks)
  PROVE  /\ CacheFollowsRegistry'
         /\ \A k \in Keys : entries'[k] \in {entries[k], NoScope}
         /\ \A k \in Keys : cache'[k] \in {cache[k], NoId}
BY DEF TypeOK, CacheFollowsRegistry, Remove, Open

LEMMA ResolveKeeps ==
  ASSUME TypeOK, CacheFollowsRegistry, NEW c \in Callers, Resolve(c)
  PROVE  /\ entries' \in [Keys -> Scopes \cup {NoScope}]
         /\ idle' \subseteq Keys /\ active' \subseteq Keys
         /\ cache' \in [Keys -> UpstreamIds \cup {NoId}]
         /\ CacheFollowsRegistry'
         /\ \A k \in Keys : entries'[k] \in {entries[k], NoScope}
         /\ \A k \in Keys : cache'[k] \in {cache[k], NoId}
<1>1. CASE Remove(idle)
  BY <1>1, RemoveType, RemoveKeeps
<1>2. CASE UNCHANGED <<entries, active, cache, idle>>
  BY <1>2 DEF TypeOK, CacheFollowsRegistry, Open
<1> QED BY <1>1, <1>2 DEF Resolve

LEMMA ReplyType ==
  ASSUME TypeOK, NEW c \in Callers,
         NEW r \in Replies, Over(c, r)
  PROVE  /\ pc' \in [Callers -> {"received", "resolved", "sent", "answered", "handled", "checked", "over"}]
         /\ reply' \in [Callers -> Replies]
BY DEF TypeOK, Over

-----------------------------------------------------------------------------
(* Removing sessions and moving a request on keeps the scopes.             *)

LEMMA ScopesStay ==
  ASSUME TypeOK, ScopeInv, ask' = ask, key' = key,
         \A k \in Keys : entries'[k] \in {entries[k], NoScope},
         \A c \in Callers : pc'[c] = "received" => pc[c] = "received"
  PROVE  ScopeInv'
BY DEF ScopeInv, Opened, Open

LEMMA HomesStay ==
  ASSUME TypeOK, HomeInv, home' = home, key' = key, sent' = sent, offer' = offer,
         \A k \in Keys : cache'[k] \in {cache[k], NoId},
         \A c \in Callers : pc'[c] \in {"received", "resolved"} => pc[c] \in {"received", "resolved"}
  PROVE  HomeInv'
BY DEF HomeInv

LEMMA InitIInv == Init => IInv
BY DEF Init, IInv, TypeOK, CacheFollowsRegistry, ScopeInv, HomeInv, Open, Outcomes, Replies

-----------------------------------------------------------------------------
(* One lemma per action.                                                   *)

LEMMA ResolveFailsStep ==
  ASSUME IInv, NEW c \in Callers, ResolveFails(c) PROVE IInv'
<1> USE DEF IInv, ResolveFails
<1>1. Refusal(c) \in {"unknown", "refused", "full"}
  BY DEF Refusal
<1>2. TypeOK'
  BY <1>1, ResolveKeeps, ReplyType DEF TypeOK, exchange, Replies
<1>3. \A x \in Callers : pc'[x] \in {"received", "resolved"} => pc'[x] = pc[x]
  BY DEF Over, TypeOK
<1> QED BY <1>2, <1>3, ResolveKeeps, ScopesStay, HomesStay DEF exchange

LEMMA ResolveSuppliedStep ==
  ASSUME IInv, NEW c \in Callers, ResolveSupplied(c) PROVE IInv'
<1> USE DEF IInv, ResolveSupplied
<1>0. ask[c] \in Request /\ ask[c].supplied \in Keys \cup {NoKey}
  BY DEF TypeOK, Request
<1>1. TypeOK'
  BY <1>0, ResolveKeeps DEF TypeOK, exchange
<1>2. pc[c] = "received" /\ key[c] = NoKey
  BY DEF Resolve, ScopeInv
<1>3. ask[c].supplied # NoKey => Known(c)
  BY DEF Refusal
<1>4. \A x \in Callers : x # c => key'[x] = key[x] /\ pc'[x] = pc[x]
  BY DEF TypeOK
<1>5. key'[c] = ask[c].supplied /\ pc'[c] = "resolved"
  BY DEF TypeOK
<1>6. ask[c].kind # "initialize"
  OBVIOUS
<1>7. \A d \in Callers, k \in Keys : \A s : Opened(d, k, s) => Opened(d, k, s)'
  BY <1>4, <1>6 DEF Opened
<1>8. \A k \in Keys : Open(k)' => Open(k) /\ entries'[k] = entries[k]
  BY ResolveKeeps DEF Open
<1>9. key'[c] # NoKey => \E d \in Callers : Opened(d, key'[c], ask[c].scope)
  BY <1>0, <1>3, <1>5 DEF Known, ScopeInv
<1>10. \A x \in Callers : key'[x] \in Keys \cup {NoKey}
  BY <1>1 DEF TypeOK
<1>11. ScopeInv'
  <2>1. \A x \in Callers : key'[x] # NoKey =>
          \E d \in Callers : Opened(d, key'[x], ask[x].scope)
    BY <1>4, <1>9 DEF ScopeInv
  <2>2. \A x \in Callers : key'[x] # NoKey =>
          \E d \in Callers : Opened(d, key[x], ask[x].scope)'
    BY <2>1, <1>7, <1>10 DEF Opened
  <2>3. \A k \in Keys : Open(k)' => \E d \in Callers : Opened(d, k, entries[k])'
    BY <1>7, <1>8 DEF ScopeInv, Opened
  <2>4. \A x \in Callers : pc'[x] = "received" => key'[x] = NoKey
    BY <1>4, <1>5 DEF ScopeInv
  <2> QED BY <2>2, <2>3, <2>4 DEF ScopeInv
<1>12. sent[c] = NoId /\ offer[c] = NoId
  BY <1>2 DEF HomeInv
<1>13. HomeInv'
  BY <1>2, <1>4, <1>12, ResolveKeeps DEF HomeInv, exchange
<1> QED BY <1>1, <1>11, <1>13, ResolveKeeps

LEMMA ResolveNewStep ==
  ASSUME IInv, NEW c \in Callers, ResolveNew(c) PROVE IInv'
<1> USE DEF IInv, ResolveNew
<1>1. PICK k \in Keys \ spent :
       /\ entries' = [x \in Keys |-> IF x = k THEN ask[c].scope
                                     ELSE IF x \in idle THEN NoScope ELSE entries[x]]
       /\ active' = (active \ idle) \cup {k}
       /\ cache' = [x \in Keys |-> IF x \in idle THEN NoId ELSE cache[x]]
       /\ idle' = {}
       /\ spent' = spent \cup {k}
       /\ key' = [key EXCEPT ![c] = k]
  OBVIOUS
<1>2. ask[c].scope \in Scopes
  BY DEF TypeOK, Request
<1>3. TypeOK'
  BY <1>1, <1>2 DEF TypeOK, exchange
<1>4. CacheFollowsRegistry'
  BY <1>1, <1>2 DEF TypeOK, CacheFollowsRegistry, Open
<1>5. pc[c] = "received" /\ key[c] = NoKey
  BY DEF ScopeInv
<1>6. /\ \A x \in Callers : x # c => key'[x] = key[x] /\ pc'[x] = pc[x]
      /\ key'[c] = k /\ pc'[c] = "resolved"
  BY <1>1 DEF TypeOK
<1>7. \A d \in Callers, j \in Keys : \A s : Opened(d, j, s) => Opened(d, j, s)'
  BY <1>5, <1>6 DEF Opened
<1>8. Opened(c, k, ask[c].scope)'
  BY <1>6 DEF Opened
<1>9. ScopeInv'
  <2>1. \A x \in Callers : key'[x] # NoKey =>
          \E d \in Callers : Opened(d, key[x], ask[x].scope)'
    BY <1>6, <1>7, <1>8 DEF ScopeInv, Opened, TypeOK
  <2>2. \A j \in Keys : Open(j)' => \E d \in Callers : Opened(d, j, entries[j])'
    BY <1>1, <1>7, <1>8 DEF ScopeInv, Opened, Open
  <2>3. \A x \in Callers : pc'[x] = "received" => key'[x] = NoKey
    BY <1>6 DEF ScopeInv
  <2> QED BY <2>1, <2>2, <2>3 DEF ScopeInv
<1>10. HomeInv'
  BY <1>1, <1>5, <1>6 DEF HomeInv, exchange
<1> QED BY <1>3, <1>4, <1>9, <1>10

LEMMA AnswerStep ==
  ASSUME IInv, NEW c \in Callers, Answer(c) PROVE IInv'
<1> USE DEF IInv, Answer
<1>1. TypeOK'
  BY DEF TypeOK, registry, Outcomes
<1>2. CacheFollowsRegistry'
  BY DEF CacheFollowsRegistry, Open, registry
<1>3. ScopeInv'
  BY ScopesStay DEF registry, TypeOK
<1>4. HomeInv'
  <2>1. \A u \in UpstreamIds : home[u] # Unborn => home'[u] = home[u]
    BY DEF TypeOK
  <2>2. \A x \in Callers : key[x] # Unborn
    BY DEF TypeOK
  <2>3. \A k \in Keys : cache'[k] # NoId => home'[cache'[k]] = k
    BY <2>1 DEF HomeInv, TypeOK, registry
  <2>4. \A x \in Callers : sent'[x] # NoId => key'[x] # NoKey /\ home'[sent'[x]] = key'[x]
    BY <2>1, <2>2 DEF HomeInv, TypeOK
  <2>5. \A x \in Callers : x # c /\ offer'[x] # NoId => home'[offer'[x]] = key'[x]
    BY <2>1, <2>2 DEF HomeInv, TypeOK
  <2>6. offer'[c] # NoId => home'[offer'[c]] = key'[c]
    BY <2>4 DEF TypeOK
  <2>7. \A x \in Callers : pc'[x] \in {"received", "resolved"} => sent'[x] = NoId /\ offer'[x] = NoId
    BY DEF HomeInv, TypeOK
  <2> QED BY <2>3, <2>4, <2>5, <2>6, <2>7 DEF HomeInv
<1> QED BY <1>1, <1>2, <1>3, <1>4

LEMMA HandleStep ==
  ASSUME IInv, NEW c \in Callers, Handle(c) PROVE IInv'
<1> USE DEF IInv, Handle
<1>1. HandledAs(c) \subseteq Outcomes
  BY DEF HandledAs, Evidenced, Raised, Outcomes
<1>2. TypeOK'
  BY <1>1 DEF TypeOK, Kept
<1>3. CacheFollowsRegistry'
  BY DEF CacheFollowsRegistry, Open, Kept, TypeOK
<1>4. ScopeInv'
  BY ScopesStay DEF TypeOK
<1>5. HomeInv'
  BY DEF HomeInv, Kept, TypeOK
<1> QED BY <1>2, <1>3, <1>4, <1>5

LEMMA RespondStep ==
  ASSUME IInv, NEW c \in Callers, Respond(c) \/ RenderFails(c) \/ Delete(c) PROVE IInv'
<1> USE DEF IInv
<1>1. PICK ks, r : /\ Remove(ks) /\ Over(c, r)
                   /\ r \in Replies
  BY DEF Respond, RenderFails, Settle, Delete, TypeOK, Replies
<1>2. UNCHANGED <<spent, home, ask, key, exchange>>
  BY DEF Respond, RenderFails, Settle, Delete
<1>3. TypeOK'
  BY <1>1, <1>2, RemoveType, ReplyType DEF TypeOK, exchange
<1>4. \A x \in Callers : pc'[x] \in {"received", "resolved"} => pc'[x] = pc[x]
  BY <1>1 DEF Over, TypeOK
<1> QED BY <1>1, <1>2, <1>3, <1>4, RemoveKeeps, ScopesStay, HomesStay DEF exchange

LEMMA SendStep ==
  ASSUME IInv, NEW c \in Callers, Send(c) PROVE IInv'
<1> USE DEF IInv, Send
<1>1. TypeOK'
  BY DEF TypeOK, registry
<1>2. CacheFollowsRegistry'
  BY DEF CacheFollowsRegistry, Open, registry
<1>3. ScopeInv'
  BY ScopesStay DEF registry, TypeOK
<1>4. HomeInv'
  BY DEF HomeInv, TypeOK, registry
<1> QED BY <1>1, <1>2, <1>3, <1>4

LEMMA OtherStep ==
  ASSUME IInv, (\E c \in Callers : Deny(c) \/ Check(c)) \/ (\E k \in Keys : Idle(k)) \/ UNCHANGED vars
  PROVE  IInv'
<1> USE DEF IInv
<1>1. ASSUME NEW c \in Callers, Deny(c) PROVE IInv'
  <2>1. TypeOK'
    BY <1>1 DEF Deny, TypeOK, registry, Outcomes
  <2> QED BY <1>1, <2>1, ScopesStay, HomesStay DEF Deny, TypeOK, CacheFollowsRegistry, Open, registry
<1>2. ASSUME NEW c \in Callers, Check(c) PROVE IInv'
  <2>1. TypeOK'
    BY <1>2, ReplyType DEF Check, TypeOK, registry, exchange, Replies
  <2>2. \A x \in Callers : pc'[x] \in {"received", "resolved"} => pc'[x] = pc[x]
    BY <1>2 DEF Check, Over, TypeOK
  <2> QED BY <1>2, <2>1, <2>2, ScopesStay, HomesStay
       DEF Check, CacheFollowsRegistry, Open, registry, exchange
<1>3. ASSUME NEW k \in Keys, Idle(k) PROVE IInv'
  <2>1. TypeOK'
    BY <1>3 DEF Idle, TypeOK, exchange
  <2> QED BY <1>3, <2>1, ScopesStay, HomesStay DEF Idle, CacheFollowsRegistry, Open, exchange
<1>4. CASE UNCHANGED vars
  BY <1>4, ScopesStay, HomesStay DEF vars, registry, exchange, TypeOK, CacheFollowsRegistry, Open
<1> QED BY <1>1, <1>2, <1>3, <1>4

LEMMA NextIInv == IInv /\ [Next]_vars => IInv'
BY ResolveFailsStep, ResolveSuppliedStep, ResolveNewStep, AnswerStep, HandleStep,
   RespondStep, SendStep, OtherStep DEF Next, Step

LEMMA PrivateByIInv == IInv => UpstreamSessionsArePrivate
<1> SUFFICES ASSUME IInv, NEW c \in Callers, sent[c] # NoId
             PROVE  /\ home[sent[c]] = key[c]
                    /\ \E d \in Callers : Opened(d, key[c], ask[c].scope)
  BY DEF UpstreamSessionsArePrivate, Opened
<1> QED BY DEF IInv, HomeInv, ScopeInv

-----------------------------------------------------------------------------
(* Every variable keeps its type (the whole module).                       *)
THEOREM TypeCorrect == Spec => []TypeOK
BY InitIInv, NextIInv, PTL DEF Spec, IInv

(* The upstream client knows exactly the registry's sessions, so a late    *)
(* answer cannot bring a deleted one back (HTTPUpstreamClient.send,        *)
(* forget_session).                                                        *)
THEOREM CacheNeverOutlivesSession == Spec => []CacheFollowsRegistry
BY InitIInv, NextIInv, PTL DEF Spec, IInv

(* An upstream session id is only ever sent for the session it was issued  *)
(* to and by the scope that opened it (SessionRegistry.resolve).           *)
THEOREM UpstreamIdsStayPrivate == Spec => []UpstreamSessionsArePrivate
BY InitIInv, NextIInv, PrivateByIInv, PTL DEF Spec
-----------------------------------------------------------------------------
(* Sessions come from initialize only, and are somebody's.                 *)

OpenKeys == {k \in Keys : Open(k)}

(* Request d opened k; if it is over it was handled well, and its client   *)
(* was told unless the answer could not be rendered.                       *)
WellOver(d) == handled[d] = "ok" /\ reply[d] \in {"ok", "unrendered"}
Owns(d, k) == ask[d].kind = "initialize" /\ key[d] = k /\ (pc[d] = "over" => WellOver(d))

OwnerInv ==
  /\ \A k \in Keys : Open(k) => k \in spent /\ \E d \in Callers : Owns(d, k)
  /\ \A c \in Callers : key[c] # NoKey => key[c] \in spent
  /\ IsFiniteSet(OpenKeys) /\ Cardinality(OpenKeys) <= Capacity

LEMMA FewerKeys ==
  ASSUME TypeOK, OwnerInv, OpenKeys' \subseteq OpenKeys
  PROVE  IsFiniteSet(OpenKeys)' /\ (Cardinality(OpenKeys) <= Capacity)'
<1>1. IsFiniteSet(OpenKeys') /\ Cardinality(OpenKeys') <= Cardinality(OpenKeys)
  BY FS_Subset DEF OwnerInv
<1>2. Cardinality(OpenKeys) \in Nat /\ Cardinality(OpenKeys') \in Nat
  BY <1>1, FS_CardinalityType DEF OwnerInv
<1> QED BY <1>1, <1>2 DEF OwnerInv

(* A step that opens no session and leaves keys and kinds alone keeps the  *)
(* owners, as long as a request that ends badly takes its session along.   *)
LEMMA OwnersStay ==
  ASSUME TypeOK, OwnerInv, spent' = spent, key' = key, ask' = ask,
         \A k \in Keys : Open(k)' => Open(k),
         \A d \in Callers : /\ key[d] \in Keys /\ ask[d].kind = "initialize"
                            /\ pc'[d] = "over" /\ ~WellOver(d)'
                            /\ Open(key[d])'
                            => pc[d] = "over" /\ ~WellOver(d)
  PROVE  OwnerInv'
<1>1. OpenKeys' \subseteq OpenKeys
  BY DEF OpenKeys
<1>2. ASSUME NEW k \in Keys, Open(k)'
      PROVE  k \in spent' /\ \E d \in Callers : Owns(d, k)'
  <2>1. PICK d \in Callers : Owns(d, k)
    BY <1>2 DEF OwnerInv
  <2>2. Owns(d, k)'
    BY <1>2, <2>1 DEF Owns
  <2> QED BY <1>2, <2>2 DEF OwnerInv
<1> QED BY <1>1, <1>2, FewerKeys DEF OwnerInv

LEMMA ResolveOpensNothing ==
  ASSUME TypeOK, CacheFollowsRegistry, NEW c \in Callers, Resolve(c)
  PROVE  \A k \in Keys : Open(k)' => Open(k)
BY ResolveKeeps DEF Open

LEMMA NewIsOwned ==
  ASSUME IInv, OwnerInv, NEW c \in Callers, ResolveNew(c)
  PROVE  OwnerInv'
<1> USE DEF IInv
<1>1. PICK k \in Keys \ spent :
       /\ entries' = [x \in Keys |-> IF x = k THEN ask[c].scope
                                     ELSE IF x \in idle THEN NoScope ELSE entries[x]]
       /\ spent' = spent \cup {k}
       /\ key' = [key EXCEPT ![c] = k]
  BY DEF ResolveNew
<1>2. pc[c] = "received" /\ key[c] = NoKey /\ ask[c].kind = "initialize" /\ ask' = ask /\ reply' = reply
  BY DEF ResolveNew, ScopeInv
<1>3. /\ \A x \in Callers : x # c => key'[x] = key[x] /\ pc'[x] = pc[x]
      /\ key'[c] = k /\ pc'[c] = "resolved"
  BY <1>1 DEF ResolveNew, TypeOK
<1>4. \A d \in Callers, j \in Keys : Owns(d, j) => Owns(d, j)'
  BY <1>2, <1>3 DEF Owns, WellOver, ResolveNew, exchange
<1>5. Owns(c, k)'
  BY <1>2, <1>3 DEF Owns
<1>6. ~Full
  BY <1>2 DEF ResolveNew, Refusal, TypeOK, Request
<1>7. OpenKeys' \subseteq (OpenKeys \ idle) \cup {k}
  BY <1>1 DEF OpenKeys, Open
<1>8. IsFiniteSet(OpenKeys \ idle) /\ Cardinality(OpenKeys \ idle) < Capacity
  <2>1. IsFiniteSet(OpenKeys \ idle)
    BY FS_Subset DEF OwnerInv
  <2>2. Cardinality(OpenKeys \ idle) \in Nat
    BY <2>1, FS_CardinalityType
  <2> QED BY <1>6, <2>1, <2>2 DEF Full, OpenKeys
<1>9. IsFiniteSet((OpenKeys \ idle) \cup {k}) /\ Cardinality((OpenKeys \ idle) \cup {k}) <= Capacity
  <2> DEFINE kept == OpenKeys \ idle
  <2>1. IsFiniteSet(kept) /\ Cardinality(kept) < Capacity /\ Cardinality(kept) \in Nat
    BY <1>8, FS_CardinalityType
  <2> HIDE DEF kept
  <2>2. /\ IsFiniteSet(kept \cup {k})
        /\ Cardinality(kept \cup {k}) \in {Cardinality(kept), Cardinality(kept) + 1}
    BY <2>1, FS_AddElement
  <2>3. Cardinality(kept \cup {k}) <= Capacity
    BY <2>1, <2>2
  <2> QED BY <2>2, <2>3 DEF kept
<1>10. IsFiniteSet(OpenKeys') /\ Cardinality(OpenKeys') <= Capacity
  <2>1. /\ IsFiniteSet(OpenKeys')
        /\ Cardinality(OpenKeys') <= Cardinality((OpenKeys \ idle) \cup {k})
    BY <1>7, <1>9, FS_Subset
  <2>2. Cardinality(OpenKeys') \in Nat /\ Cardinality((OpenKeys \ idle) \cup {k}) \in Nat
    BY <1>9, <2>1, FS_CardinalityType
  <2> QED BY <1>9, <2>1, <2>2
<1>11. ASSUME NEW j \in Keys, Open(j)'
       PROVE  j \in spent' /\ \E d \in Callers : Owns(d, j)'
  <2>1. CASE j = k
    BY <1>1, <1>5, <2>1
  <2>2. CASE j # k
    <3>1. Open(j)
      BY <1>1, <1>11, <2>2 DEF Open
    <3>2. PICK d \in Callers : Owns(d, j)
      BY <3>1 DEF OwnerInv
    <3> QED BY <1>1, <1>4, <3>1, <3>2 DEF OwnerInv
  <2> QED BY <2>1, <2>2
<1>12. \A x \in Callers : key'[x] # NoKey => key'[x] \in spent'
  BY <1>1, <1>3 DEF OwnerInv
<1> QED BY <1>10, <1>11, <1>12 DEF OwnerInv

LEMMA SuppliedIsOwned ==
  ASSUME IInv, OwnerInv, NEW c \in Callers, ResolveSupplied(c)
  PROVE  OwnerInv'
<1> USE DEF IInv
<1>1. /\ pc[c] = "received" /\ key[c] = NoKey /\ ask[c].kind # "initialize"
      /\ ask' = ask /\ reply' = reply /\ spent' = spent
  BY DEF ResolveSupplied, Resolve, ScopeInv
<1>2. /\ \A x \in Callers : x # c => key'[x] = key[x] /\ pc'[x] = pc[x]
      /\ key'[c] = ask[c].supplied
  BY DEF ResolveSupplied, TypeOK
<1>3. \A d \in Callers, j \in Keys : Owns(d, j) => Owns(d, j)'
  BY <1>1, <1>2 DEF Owns, WellOver, ResolveSupplied, exchange
<1>4. \A k \in Keys : Open(k)' => Open(k)
  BY ResolveOpensNothing DEF ResolveSupplied
<1>5. OpenKeys' \subseteq OpenKeys
  BY <1>4 DEF OpenKeys
<1>6. ask[c].supplied # NoKey => Known(c)
  BY DEF ResolveSupplied, Refusal
<1>7. key'[c] # NoKey => key'[c] \in spent
  BY <1>2, <1>6 DEF Known, OwnerInv
<1>8. \A k \in Keys : Open(k)' => k \in spent' /\ \E d \in Callers : Owns(d, k)'
  BY <1>1, <1>3, <1>4 DEF OwnerInv
<1> QED BY <1>1, <1>2, <1>5, <1>7, <1>8, FewerKeys DEF OwnerInv

LEMMA RespondKeepsOwners ==
  ASSUME IInv, OwnerInv, NEW c \in Callers, Respond(c) \/ RenderFails(c) \/ Delete(c)
  PROVE  OwnerInv'
<1> USE DEF IInv
<1>1. spent' = spent /\ key' = key /\ ask' = ask /\ handled' = handled /\ \E ks : Remove(ks)
  BY DEF Respond, RenderFails, Settle, Delete, exchange
<1>2. \A k \in Keys : Open(k)' => Open(k)
  BY <1>1, RemoveKeeps DEF Open
<1>3. /\ \A d \in Callers : d # c => pc'[d] = pc[d] /\ reply'[d] = reply[d]
      /\ pc'[c] = "over"
  BY DEF Respond, RenderFails, Delete, Over, TypeOK
<1>4. ASSUME key[c] \in Keys, ask[c].kind = "initialize", ~WellOver(c)' PROVE ~Open(key[c])'
  <2>1. Settle(c)
    BY <1>4 DEF Delete, Respond, RenderFails
  <2>2. reply'[c] \in {handled[c], "unrendered"}
    BY <1>4 DEF Delete, Respond, RenderFails, Over, TypeOK
  <2>3. handled[c] # "ok"
    BY <1>1, <1>4, <2>2 DEF WellOver
  <2>4. Remove({key[c]})
    BY <1>4, <2>1, <2>3 DEF Settle, Costs
  <2> QED BY <1>1, <1>4, <2>4 DEF Remove, Open
<1> QED BY <1>1, <1>2, <1>3, <1>4, OwnersStay DEF WellOver

LEMMA OwnerStep ==
  ASSUME IInv, OwnerInv, [Next]_vars
  PROVE  OwnerInv'
<1> USE DEF IInv
<1>1. ASSUME NEW c \in Callers, ResolveFails(c) PROVE OwnerInv'
  <2>1. \A k \in Keys : Open(k)' => Open(k)
    BY <1>1, ResolveOpensNothing DEF ResolveFails
  <2>2. key[c] = NoKey /\ spent' = spent /\ key' = key /\ ask' = ask
    BY <1>1 DEF ResolveFails, Resolve, ScopeInv
  <2>3. handled' = handled /\ \A d \in Callers : d # c => pc'[d] = pc[d] /\ reply'[d] = reply[d]
    BY <1>1 DEF ResolveFails, Over, exchange, TypeOK
  <2> QED BY <2>1, <2>2, <2>3, OwnersStay DEF WellOver
<1>2. ASSUME NEW c \in Callers, Deny(c) \/ Send(c) \/ Answer(c) \/ Handle(c) PROVE OwnerInv'
  <2>1. entries' = entries /\ spent' = spent /\ key' = key /\ ask' = ask /\ reply' = reply
    BY <1>2 DEF Deny, Send, Answer, Handle, registry
  <2>2. \A d \in Callers : pc'[d] = "over" => pc[d] = "over" /\ handled'[d] = handled[d]
    BY <1>2 DEF Deny, Send, Answer, Handle, TypeOK
  <2> QED BY <2>1, <2>2, OwnersStay DEF Open, WellOver
<1>3. ASSUME NEW c \in Callers, Check(c) PROVE OwnerInv'
  <2>1. entries' = entries /\ spent' = spent /\ key' = key /\ ask' = ask
    BY <1>3 DEF Check, registry
  <2>2. handled' = handled /\ \A d \in Callers : d # c => pc'[d] = pc[d] /\ reply'[d] = reply[d]
    BY <1>3 DEF Check, Over, exchange, TypeOK
  <2>3. pc'[c] = "over" => ~Open(key[c])
    BY <1>3 DEF Check, TypeOK
  <2> QED BY <2>1, <2>2, <2>3, OwnersStay DEF Open, WellOver
<1>4. ASSUME NEW k \in Keys, Idle(k) PROVE OwnerInv'
  BY <1>4, OwnersStay DEF Idle, Open, exchange, WellOver
<1>5. CASE UNCHANGED vars
  BY <1>5, OwnersStay DEF vars, registry, exchange, Open, WellOver
<1> QED BY <1>1, <1>2, <1>3, <1>4, <1>5, NewIsOwned, SuppliedIsOwned, RespondKeepsOwners DEF Next, Step

(* Every open session belongs to an initialize that still runs or was      *)
(* handled well, its key told to the client or its answer impossible to    *)
(* render; and there are never more than the limit, however many race or   *)
(* end badly (SessionRegistry.resolve, _handle_post).                      *)
THEOREM NobodyIsOrphaned == Spec => []NoOrphans
<1>1. Init => OwnerInv
  <2> SUFFICES ASSUME Init PROVE OwnerInv
    OBVIOUS
  <2>1. OpenKeys = {}
    BY DEF Init, OpenKeys, Open
  <2> QED BY <2>1, FS_EmptySet DEF Init, OwnerInv, OpenKeys
<1>2. OwnerInv => NoOrphans
  BY DEF OwnerInv, NoOrphans, Owns, WellOver, OpenKeys
<1> QED BY <1>1, <1>2, OwnerStep, InitIInv, NextIInv, PTL DEF Spec

-----------------------------------------------------------------------------
(* What a 404 leads to, from the answer to the end of its request.         *)

GoneInv ==
  \A c \in Callers :
    /\ pc[c] \in {"received", "resolved", "sent"} => status[c] = "none"
    /\ pc[c] \in {"handled", "checked"} /\ status[c] = "notFound" /\ ~Evidenced(c) =>
         handled[c] \in {"notFound", "raised"}
    /\ pc[c] = "over" /\ status[c] = "notFound" /\ key[c] # NoKey
       /\ ~Evidenced(c) /\ reply[c] # "raised" => ~Open(key[c])

(* A closed session stays closed: its key is not drawn again.              *)
LEMMA ClosedStays ==
  ASSUME IInv, OwnerInv, [Next]_vars, NEW k \in spent, ~Open(k)
  PROVE  ~Open(k)'
<1> USE DEF IInv
<1>0. k \in Keys
  BY DEF TypeOK
<1>1. ASSUME NEW c \in Callers, ResolveFails(c) \/ ResolveSupplied(c) PROVE ~Open(k)'
  BY <1>0, <1>1, ResolveOpensNothing DEF ResolveFails, ResolveSupplied
<1>2. ASSUME NEW c \in Callers, ResolveNew(c) PROVE ~Open(k)'
  BY <1>0, <1>2 DEF ResolveNew, Open
<1>3. ASSUME NEW c \in Callers, Respond(c) \/ RenderFails(c) \/ Delete(c) PROVE ~Open(k)'
  BY <1>0, <1>3, RemoveKeeps DEF Respond, RenderFails, Settle, Delete, Open
<1>4. CASE UNCHANGED entries
  BY <1>4 DEF Open
<1> QED
  BY <1>1, <1>2, <1>3, <1>4
     DEF Next, Step, Deny, Send, Answer, Handle, Check, Idle, registry, vars

LEMMA GoneStep ==
  ASSUME IInv, OwnerInv, GoneInv, [Next]_vars
  PROVE  GoneInv'
<1> USE DEF IInv
<1>0. ASSUME NEW d \in Callers, UNCHANGED <<pc[d], status[d], handled[d], reply[d], key[d], ask>>
      PROVE  /\ pc'[d] \in {"received", "resolved", "sent"} => status'[d] = "none"
             /\ pc'[d] \in {"handled", "checked"} /\ status'[d] = "notFound" /\ ~Evidenced(d)' =>
                  handled'[d] \in {"notFound", "raised"}
             /\ pc'[d] = "over" /\ status'[d] = "notFound" /\ key'[d] # NoKey
                /\ ~Evidenced(d)' /\ reply'[d] # "raised" => ~Open(key[d])'
  <2>1. ~Open(key[d]) /\ key[d] # NoKey => ~Open(key[d])'
    <3>1. key[d] # NoKey => key[d] \in spent
      BY DEF OwnerInv
    <3> QED BY <1>0, <3>1, ClosedStays DEF Open
  <2> QED BY <1>0, <2>1 DEF GoneInv, Evidenced
<1>1. ASSUME NEW c \in Callers, ResolveFails(c) \/ Delete(c) PROVE GoneInv'
  <2>1. /\ status[c] = "none" /\ status' = status /\ handled' = handled /\ key' = key /\ ask' = ask
        /\ pc'[c] = "over"
    BY <1>1 DEF ResolveFails, Delete, Resolve, Over, exchange, GoneInv, TypeOK
  <2>2. \A d \in Callers : d # c => pc'[d] = pc[d] /\ reply'[d] = reply[d]
    BY <1>1 DEF ResolveFails, Delete, Over, TypeOK
  <2> QED BY <1>0, <2>1, <2>2 DEF GoneInv
<1>2. ASSUME NEW c \in Callers, ResolveSupplied(c) \/ ResolveNew(c) PROVE GoneInv'
  <2>1. /\ status[c] = "none" /\ status' = status /\ handled' = handled /\ reply' = reply /\ ask' = ask
        /\ pc'[c] = "resolved"
    BY <1>2 DEF ResolveSupplied, ResolveNew, Resolve, exchange, GoneInv, TypeOK
  <2>2. \A d \in Callers : d # c => pc'[d] = pc[d] /\ key'[d] = key[d]
    BY <1>2 DEF ResolveSupplied, ResolveNew, TypeOK
  <2> QED BY <1>0, <2>1, <2>2 DEF GoneInv
<1>3. ASSUME NEW c \in Callers, Deny(c) \/ Send(c) PROVE GoneInv'
  <2>1. /\ status[c] = "none" /\ status' = status /\ reply' = reply /\ ask' = ask /\ key' = key
        /\ pc'[c] \in {"handled", "sent"}
    BY <1>3 DEF Deny, Send, GoneInv, TypeOK
  <2>2. \A d \in Callers : d # c => pc'[d] = pc[d] /\ handled'[d] = handled[d]
    BY <1>3 DEF Deny, Send, TypeOK
  <2> QED BY <1>0, <2>1, <2>2 DEF GoneInv
<1>4. ASSUME NEW c \in Callers, Answer(c) PROVE GoneInv'
  <2>1. handled' = handled /\ reply' = reply /\ ask' = ask /\ key' = key /\ pc'[c] = "answered"
    BY <1>4 DEF Answer, TypeOK
  <2>2. \A d \in Callers : d # c => pc'[d] = pc[d] /\ status'[d] = status[d]
    BY <1>4 DEF Answer, TypeOK
  <2> QED BY <1>0, <2>1, <2>2 DEF GoneInv
<1>5. ASSUME NEW c \in Callers, Handle(c) PROVE GoneInv'
  <2>1. /\ status' = status /\ reply' = reply /\ ask' = ask /\ key' = key /\ pc'[c] = "handled"
        /\ handled'[c] \in HandledAs(c)
    BY <1>5 DEF Handle, TypeOK
  <2>2. \A d \in Callers : d # c => pc'[d] = pc[d] /\ handled'[d] = handled[d]
    BY <1>5 DEF Handle, TypeOK
  <2>3. status[c] = "notFound" /\ ~Evidenced(c) => HandledAs(c) \subseteq {"notFound", "raised"}
    BY DEF HandledAs, Raised
  <2> QED BY <1>0, <2>1, <2>2, <2>3 DEF GoneInv, Evidenced
<1>6. ASSUME NEW c \in Callers, Check(c) PROVE GoneInv'
  <2>1. /\ status' = status /\ handled' = handled /\ ask' = ask /\ key' = key /\ entries' = entries
        /\ pc[c] = "handled" /\ pc'[c] \in {"checked", "over"}
        /\ pc'[c] = "over" => ~Open(key[c])
    BY <1>6 DEF Check, Over, exchange, registry, TypeOK
  <2>2. \A d \in Callers : d # c => pc'[d] = pc[d] /\ reply'[d] = reply[d]
    BY <1>6 DEF Check, Over, TypeOK
  <2> QED BY <1>0, <2>1, <2>2 DEF GoneInv, Evidenced, Open
<1>7. ASSUME NEW c \in Callers, Respond(c) \/ RenderFails(c) PROVE GoneInv'
  <2>0. Settle(c) /\ (reply'[c] # "raised" => handled[c] # "raised")
    BY <1>7 DEF Respond, RenderFails, Over, TypeOK
  <2>1. /\ status' = status /\ handled' = handled /\ ask' = ask /\ key' = key
        /\ pc[c] \in {"handled", "checked"} /\ pc'[c] = "over"
    BY <1>7, <2>0 DEF Respond, RenderFails, Settle, Over, exchange, TypeOK
  <2>2. \A d \in Callers : d # c => pc'[d] = pc[d] /\ reply'[d] = reply[d]
    BY <1>7 DEF Respond, RenderFails, Over, TypeOK
  <2>3. handled[c] = "notFound" /\ key[c] # NoKey => ~Open(key[c])'
    <3>1. key[c] # NoKey => key[c] \in Keys
      BY DEF TypeOK
    <3> QED BY <2>0, <2>1, <3>1 DEF Settle, Costs, Remove, Open
  <2> QED BY <1>0, <2>0, <2>1, <2>2, <2>3 DEF GoneInv, Evidenced
<1>8. CASE (\E k \in Keys : Idle(k)) \/ UNCHANGED vars
  <2>1. UNCHANGED <<pc, status, handled, reply, key, ask>>
    BY <1>8 DEF Idle, vars, exchange
  <2> QED BY <1>0, <2>1 DEF GoneInv
<1> QED BY <1>1, <1>2, <1>3, <1>4, <1>5, <1>6, <1>7, <1>8 DEF Next, Step

(* A 404 of the upstream server that the client hears of costs the session *)
(* before the client does, whatever other requests do to it meanwhile.     *)
THEOREM NotFoundEndsTheSession == Spec => []Plain404Invalidates
<1>1. Init => OwnerInv
  <2> SUFFICES ASSUME Init PROVE OwnerInv
    OBVIOUS
  <2>1. OpenKeys = {}
    BY DEF Init, OpenKeys, Open
  <2> QED BY <2>1, FS_EmptySet DEF Init, OwnerInv, OpenKeys
<1>2. Init => GoneInv
  BY DEF Init, GoneInv
<1>3. GoneInv => Plain404Invalidates
  BY DEF GoneInv, Plain404Invalidates
<1> QED BY <1>1, <1>2, <1>3, OwnerStep, GoneStep, InitIInv, NextIInv, PTL DEF Spec
=============================================================================
