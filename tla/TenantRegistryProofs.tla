------------------------- MODULE TenantRegistryProofs -------------------------
(***************************************************************************)
(* For any tenants, clients, resource types and cache size: the registry's *)
(* type invariant, the bound of its LRU cache and the order it evicts in,  *)
(* and the freshness of every cached view that no edit overlapped; with    *)
(* one client and no failure, of every view.                               *)
(***************************************************************************)
EXTENDS TenantRegistry, TLAPS

USE RegistryAssumption

Distinct(s) == \A i, j \in 1..Len(s) : s[i] = s[j] => i = j

(* The elements of a sequence are the values at its indices.               *)
LEMMA ElementOf ==
  ASSUME NEW S, NEW s \in Seq(S), NEW i \in 1..Len(s)
  PROVE  s[i] \in ToSet(s)
BY DEF ToSet

(* Removing the element at an index closes the gap it leaves.              *)
LEMMA RemoveAtFacts ==
  ASSUME NEW S, NEW s \in Seq(S), NEW k \in 1..Len(s)
  PROVE  /\ RemoveAt(s, k) \in Seq(S) /\ Len(RemoveAt(s, k)) = Len(s) - 1
         /\ \A i \in 1..(Len(s) - 1) :
              RemoveAt(s, k)[i] = IF i < k THEN s[i] ELSE s[i + 1]
<1> DEFINE a == SubSeq(s, 1, k - 1)  b == SubSeq(s, k + 1, Len(s))
<1>1. a \in Seq(S) /\ Len(a) = k - 1 /\ \A i \in 1..(k - 1) : a[i] = s[i]
  OBVIOUS
<1>2. /\ b \in Seq(S) /\ Len(b) = Len(s) - k
      /\ \A i \in 1..(Len(s) - k) : b[i] = s[i + k]
  OBVIOUS
<1> HIDE DEF a, b
<1>3. RemoveAt(s, k) = a \o b
  BY DEF RemoveAt, a, b
<1>4. /\ a \o b \in Seq(S) /\ Len(a \o b) = Len(a) + Len(b)
      /\ \A i \in 1..(Len(a) + Len(b)) :
           (a \o b)[i] = IF i <= Len(a) THEN a[i] ELSE b[i - Len(a)]
  <2>1. a \in Seq(S) /\ b \in Seq(S)
    BY <1>1, <1>2
  <2> QED BY <2>1
<1>5. Len(a) + Len(b) = Len(s) - 1 /\ k \in Int /\ Len(s) \in Nat
  BY <1>1, <1>2
<1>6. ASSUME NEW i \in 1..(Len(s) - 1)
      PROVE  (a \o b)[i] = IF i < k THEN s[i] ELSE s[i + 1]
  <2>1. CASE i < k
    BY <1>1, <1>4, <1>5, <2>1
  <2>2. CASE i >= k
    <3>1. (a \o b)[i] = b[i - (k - 1)] /\ i - (k - 1) \in 1..(Len(s) - k)
      BY <1>1, <1>4, <1>5, <2>2
    <3>2. (i - (k - 1)) + k = i + 1
      OBVIOUS
    <3>3. b[i - (k - 1)] = s[(i - (k - 1)) + k]
      BY <1>2, <3>1
    <3>4. (a \o b)[i] = s[i + 1]
      BY <3>1, <3>2, <3>3
    <3>5. ~(i < k)
      BY <1>5, <2>2
    <3> QED BY <3>4, <3>5
  <2> QED BY <1>5, <2>1, <2>2
<1> QED BY <1>3, <1>4, <1>5, <1>6

(* Removing an element from a sequence without duplicates keeps the others *)
(* in their order and removes exactly that element.                        *)
LEMMA WithoutFacts ==
  ASSUME NEW S, NEW s \in Seq(S), NEW e
  PROVE  /\ Without(s, e) \in Seq(S)
         /\ Len(Without(s, e)) <= Len(s)
         /\ e \in ToSet(s) => Len(Without(s, e)) = Len(s) - 1
         /\ Distinct(s) => /\ Distinct(Without(s, e))
                           /\ ToSet(Without(s, e)) = ToSet(s) \ {e}
<1>1. CASE e \in ToSet(s)
  <2> DEFINE k == CHOOSE i \in 1..Len(s) : s[i] = e
  <2>1. k \in 1..Len(s) /\ s[k] = e /\ Without(s, e) = RemoveAt(s, k)
    <3>1. \E i \in 1..Len(s) : s[i] = e
      BY <1>1 DEF ToSet
    <3> QED BY <1>1, <3>1 DEF Without
  <2> HIDE DEF k
  <2>2. /\ RemoveAt(s, k) \in Seq(S) /\ Len(RemoveAt(s, k)) = Len(s) - 1
        /\ \A i \in 1..(Len(s) - 1) :
             RemoveAt(s, k)[i] = IF i < k THEN s[i] ELSE s[i + 1]
    BY <2>1, RemoveAtFacts
  <2> DEFINE r == RemoveAt(s, k)
  <2> HIDE DEF r
  <2>3. /\ r \in Seq(S) /\ Len(r) = Len(s) - 1
        /\ \A i \in 1..(Len(s) - 1) : r[i] = IF i < k THEN s[i] ELSE s[i + 1]
    BY <2>2 DEF r
  <2>4. ASSUME Distinct(s) PROVE Distinct(r)
    <3>1. SUFFICES ASSUME NEW i \in 1..Len(r), NEW j \in 1..Len(r), r[i] = r[j]
                   PROVE  i = j
      BY DEF Distinct
    <3> DEFINE at(n) == IF n < k THEN n ELSE n + 1
    <3>2. /\ at(i) \in 1..Len(s) /\ at(j) \in 1..Len(s)
          /\ r[i] = s[at(i)] /\ r[j] = s[at(j)]
      BY <2>1, <2>3
    <3>3. at(i) = at(j)
      BY <2>4, <3>1, <3>2 DEF Distinct
    <3> QED BY <2>1, <3>3
  <2>5. ASSUME Distinct(s) PROVE ToSet(r) = ToSet(s) \ {e}
    <3>1. ASSUME NEW i \in 1..Len(r) PROVE r[i] \in ToSet(s) \ {e}
      <4> DEFINE at == IF i < k THEN i ELSE i + 1
      <4>1. at \in 1..Len(s) /\ at # k /\ r[i] = s[at]
        BY <2>1, <2>3
      <4> HIDE DEF at
      <4>2. s[at] # s[k]
        BY <2>1, <2>5, <4>1 DEF Distinct
      <4>3. s[at] \in ToSet(s)
        BY <4>1 DEF ToSet
      <4> QED BY <2>1, <4>1, <4>2, <4>3
    <3>2. ASSUME NEW i \in 1..Len(s), s[i] # e PROVE \E j \in 1..Len(r) : r[j] = s[i]
      <4>1. CASE i < k
        <5>1. i \in 1..(Len(s) - 1) /\ r[i] = s[i]
          BY <2>1, <2>3, <4>1
        <5> QED BY <2>3, <5>1
      <4>2. CASE i > k
        <5>1. i - 1 \in 1..(Len(s) - 1) /\ ~(i - 1 < k) /\ (i - 1) + 1 = i
          BY <2>1, <4>2
        <5>2. r[i - 1] = s[(i - 1) + 1]
          BY <2>3, <5>1
        <5> QED BY <2>3, <5>1, <5>2
      <4> QED BY <2>1, <3>2, <4>1, <4>2
    <3>3. ToSet(r) \subseteq ToSet(s) \ {e}
      <4>1. ASSUME NEW x \in ToSet(r) PROVE x \in ToSet(s) \ {e}
        <5>1. PICK i \in 1..Len(r) : x = r[i]
          BY <2>3 DEF ToSet
        <5> QED BY <3>1, <5>1
      <4> QED BY <4>1
    <3>4. ToSet(s) \ {e} \subseteq ToSet(r)
      <4>1. ASSUME NEW x \in ToSet(s), x # e PROVE x \in ToSet(r)
        <5>1. PICK i \in 1..Len(s) : x = s[i]
          BY DEF ToSet
        <5>2. PICK j \in 1..Len(r) : r[j] = x
          BY <3>2, <4>1, <5>1
        <5> QED BY <2>3, <5>2 DEF ToSet
      <4> QED BY <4>1
    <3> QED BY <3>3, <3>4
  <2> QED BY <1>1, <2>1, <2>3, <2>4, <2>5 DEF r
<1>2. CASE e \notin ToSet(s)
  BY <1>2 DEF Without
<1> QED BY <1>1, <1>2

(* Moving an element to the end: the sequence grows only if it is new.     *)
LEMMA MoveToEndFacts ==
  ASSUME NEW S, NEW s \in Seq(S), NEW e \in S, Distinct(s)
  PROVE  /\ MoveToEnd(s, e) \in Seq(S) /\ Distinct(MoveToEnd(s, e))
         /\ ToSet(MoveToEnd(s, e)) = ToSet(s) \union {e}
         /\ Len(MoveToEnd(s, e)) <= Len(s) + 1
         /\ e \in ToSet(s) => Len(MoveToEnd(s, e)) = Len(s)
<1> DEFINE w == Without(s, e)
<1>1. /\ w \in Seq(S) /\ Len(w) <= Len(s) /\ Distinct(w)
      /\ e \in ToSet(s) => Len(w) = Len(s) - 1
      /\ ToSet(w) = ToSet(s) \ {e}
  BY WithoutFacts
<1> HIDE DEF w
<1>2. MoveToEnd(s, e) = Append(w, e)
  BY DEF MoveToEnd, w
<1>3. /\ Append(w, e) \in Seq(S) /\ Len(Append(w, e)) = Len(w) + 1
      /\ \A i \in 1..Len(w) : Append(w, e)[i] = w[i]
      /\ Append(w, e)[Len(w) + 1] = e
  BY <1>1
<1>4. ToSet(Append(w, e)) = ToSet(w) \union {e}
  <2>1. ASSUME NEW i \in 1..Len(w) PROVE w[i] \in ToSet(Append(w, e))
    BY <1>1, <1>3 DEF ToSet
  <2>2. e \in ToSet(Append(w, e))
    BY <1>1, <1>3 DEF ToSet
  <2>3. ASSUME NEW i \in 1..(Len(w) + 1) PROVE Append(w, e)[i] \in ToSet(w) \union {e}
    BY <1>1, <1>3 DEF ToSet
  <2>4. ASSUME NEW x \in ToSet(Append(w, e)) PROVE x \in ToSet(w) \union {e}
    <3>1. PICK i \in 1..Len(Append(w, e)) : x = Append(w, e)[i]
      BY DEF ToSet
    <3> QED BY <1>3, <2>3, <3>1
  <2>5. ASSUME NEW x \in ToSet(w) PROVE x \in ToSet(Append(w, e))
    <3>1. PICK i \in 1..Len(w) : x = w[i]
      BY DEF ToSet
    <3> QED BY <2>1, <3>1
  <2> QED BY <2>2, <2>4, <2>5
<1>5. Distinct(Append(w, e))
  <2>1. ASSUME NEW i \in 1..Len(w) PROVE w[i] # e
    <3>1. w[i] \in ToSet(w)
      BY <1>1, ElementOf
    <3> QED BY <1>1, <3>1
  <2> DEFINE a == Append(w, e)
  <2>2. /\ Len(a) = Len(w) + 1 /\ a[Len(w) + 1] = e
        /\ \A i \in 1..Len(w) : a[i] = w[i]
    BY <1>3
  <2>3. Len(w) \in Nat
    BY <1>1
  <2> HIDE DEF a
  <2>4. ASSUME NEW i \in 1..Len(a), NEW j \in 1..Len(a), a[i] = a[j] PROVE i = j
    <3>1. CASE i \in 1..Len(w) /\ j \in 1..Len(w)
      BY <1>1, <2>2, <2>4, <3>1 DEF Distinct
    <3>2. CASE ~(i \in 1..Len(w)) /\ j \in 1..Len(w)
      BY <2>1, <2>2, <2>3, <2>4, <3>2
    <3>3. CASE i \in 1..Len(w) /\ ~(j \in 1..Len(w))
      BY <2>1, <2>2, <2>3, <2>4, <3>3
    <3>4. CASE ~(i \in 1..Len(w)) /\ ~(j \in 1..Len(w))
      BY <2>2, <2>3, <3>4
    <3> QED BY <3>1, <3>2, <3>3, <3>4
  <2> QED BY <2>4 DEF Distinct, a
<1> QED BY <1>1, <1>2, <1>3, <1>4, <1>5

(* Evicting drops at most the head, and makes room.                        *)
LEMMA EvictFacts ==
  ASSUME NEW S, NEW s \in Seq(S), Distinct(s), Len(s) <= MaxSize + 1
  PROVE  /\ Evict(s) \in Seq(S) /\ Distinct(Evict(s)) /\ Len(Evict(s)) <= MaxSize
         /\ ToSet(Evict(s)) \subseteq ToSet(s)
<1>1. CASE Len(s) > MaxSize
  <2>1. /\ Tail(s) \in Seq(S) /\ Len(Tail(s)) = Len(s) - 1
        /\ \A i \in 1..(Len(s) - 1) : Tail(s)[i] = s[i + 1]
    BY <1>1
  <2>2. Distinct(Tail(s))
    BY <2>1 DEF Distinct
  <2>3. ToSet(Tail(s)) \subseteq ToSet(s)
    BY <2>1 DEF ToSet
  <2> QED BY <1>1, <2>1, <2>2, <2>3 DEF Evict
<1>2. CASE ~(Len(s) > MaxSize)
  BY <1>2 DEF Evict
<1> QED BY <1>1, <1>2
-----------------------------------------------------------------------------
LEMMA ListForTenantType ==
  ASSUME TypeOK, NEW t \in Tenants, NEW type \in TypeSet
  PROVE  ListForTenant(t, type) \in [Names -> Nat \union {NoRow}]
BY DEF TypeOK, ListForTenant, Rows


(* A request that is under way has a tenant, and an edit has its entry.    *)
RequestOK(q) ==
  /\ q.pc # "idle" => q.tenant \in Tenants
  /\ q.pc \in {"write", "readback"} => q.type \in TypeSet /\ q.name \in Names

TypeInv == TypeOK /\ \A c \in Clients : RequestOK(req[c])

LEMMA IdleType == Idle \in Request /\ RequestOK(Idle)
<1>1. EmptyView \in Views
  BY DEF EmptyView, Views
<1>2. \A v \in Views : [pc |-> "idle", tenant |-> NoTenant, type |-> NoRow, name |-> NoRow,
                          found |-> NoRow, view |-> v, next |-> 1, dirty |-> FALSE] \in Request
  BY DEF Request, Phases
<1> QED BY <1>1, <1>2 DEF Idle, RequestOK

LEMMA TypeInit == Init => TypeInv
<1> SUFFICES ASSUME Init PROVE TypeInv
  OBVIOUS
<1>1. db \in [Tenants -> [TypeSet -> [Names -> Rows \union {NoRow}]]]
  BY DEF Init
<1>2. req \in [Clients -> Request] /\ \A c \in Clients : RequestOK(req[c])
  BY IdleType DEF Init
<1>3. /\ views \in [Tenants -> Views \union {NoView}]
      /\ tainted \in [Tenants -> BOOLEAN]
      /\ order \in Seq(Tenants) /\ recency \in Seq(Tenants) /\ edits \in Nat
  BY DEF Init
<1> QED BY <1>1, <1>2, <1>3 DEF TypeInv, TypeOK

(* Replacing one request, after marking others dirty or not, keeps the     *)
(* requests well formed.                                                   *)
LEMMA DirtiedOK ==
  ASSUME TypeInv, NEW t
  PROVE  /\ Dirtied(req, t) \in [Clients -> Request]
         /\ \A c \in Clients : RequestOK(Dirtied(req, t)[c])
<1>1. ASSUME NEW c \in Clients
      PROVE  Dirtied(req, t)[c] \in Request /\ RequestOK(Dirtied(req, t)[c])
  <2>1. req[c] \in Request /\ RequestOK(req[c])
    BY DEF TypeInv, TypeOK
  <2> DEFINE d == [req[c] EXCEPT !.dirty = TRUE]
  <2>2. d \in Request /\ RequestOK(d)
    BY <2>1 DEF Request, RequestOK
  <2>3. Dirtied(req, t)[c] = req[c] \/ Dirtied(req, t)[c] = d
    BY DEF Dirtied
  <2> QED BY <2>1, <2>2, <2>3
<1>2. Dirtied(req, t) = [c \in Clients |-> Dirtied(req, t)[c]]
  BY DEF Dirtied
<1> QED BY <1>1, <1>2

LEMMA OneRequest ==
  ASSUME NEW r \in [Clients -> Request], \A d \in Clients : RequestOK(r[d]),
         NEW c \in Clients, NEW q \in Request, RequestOK(q),
         req' = [r EXCEPT ![c] = q]
  PROVE  req' \in [Clients -> Request] /\ \A d \in Clients : RequestOK(req'[d])
OBVIOUS

LEMMA TypeStep == TypeInv /\ [Next]_vars => TypeInv'
<1> SUFFICES ASSUME TypeInv, [Next]_vars PROVE TypeInv'
  OBVIOUS
<1> USE DEF TypeInv
<1>a. \A c \in Clients : req[c] \in Request /\ RequestOK(req[c])
  BY DEF TypeOK
<1>1. ASSUME NEW c \in Clients, NEW t \in Tenants, GetHit(c, t) PROVE TypeInv'
  <2>1. order' \in Seq(Tenants) /\ recency' \in Seq(Tenants)
    BY <1>1, WithoutFacts DEF GetHit, MoveToEnd, TypeOK
  <2> QED BY <1>1, <2>1 DEF GetHit, TypeOK
<1>2. ASSUME NEW c \in Clients, NEW t \in Tenants, GetMiss(c, t) PROVE TypeInv'
  <2> DEFINE q == [Idle EXCEPT !.pc = "load", !.tenant = t]
  <2>1. q \in Request /\ RequestOK(q)
    BY IdleType DEF Request, RequestOK, Phases
  <2>2. req' \in [Clients -> Request] /\ \A d \in Clients : RequestOK(req'[d])
    BY <1>2, <2>1, OneRequest, <1>a DEF GetMiss, TypeOK
  <2> QED BY <1>2, <2>2 DEF GetMiss, TypeOK
<1>3. ASSUME NEW c \in Clients, LoadType(c) PROVE TypeInv'
  <2> DEFINE q == req[c]
             n == ListForTenant(q.tenant, Types[q.next])
             w == [q EXCEPT !.view[Types[q.next]] = n, !.next = q.next + 1,
                            !.pc = IF q.next = Len(Types) THEN "insert" ELSE "load"]
  <2>1. q \in Request /\ q.tenant \in Tenants /\ q.pc = "load"
    BY <1>3, <1>a DEF LoadType, RequestOK
  <2>2. [q.view EXCEPT ![Types[q.next]] = n] \in Views
    <3>1. \A x \in TypeSet : x = Types[q.next] => n \in [Names -> Nat \union {NoRow}]
      BY <2>1, ListForTenantType
    <3>2. q.view \in Views
      BY <2>1 DEF Request
    <3> DEFINE k == Types[q.next]
    <3> HIDE DEF n, k
    <3>3. ASSUME NEW x \in TypeSet
          PROVE  [q.view EXCEPT ![k] = n][x] \in [Names -> Nat \union {NoRow}]
      <4>1. CASE x = k
        <5>1. n \in [Names -> Nat \union {NoRow}]
          BY <3>1, <4>1 DEF k
        <5> QED BY <3>2, <4>1, <5>1 DEF Views
      <4>2. CASE x # k
        BY <3>2, <4>2 DEF Views
      <4> QED BY <4>1, <4>2
    <3>4. [q.view EXCEPT ![k] = n] \in Views
      BY <3>2, <3>3 DEF Views
    <3> QED BY <3>4 DEF k
  <2>3. w \in Request /\ RequestOK(w)
    <3> DEFINE v == [q.view EXCEPT ![Types[q.next]] = n]
               pc == IF q.next = Len(Types) THEN "insert" ELSE "load"
    <3>1. w = [q EXCEPT !.view = v, !.next = q.next + 1, !.pc = pc]
      OBVIOUS
    <3>2. v \in Views /\ pc \in {"insert", "load"} /\ pc \in Phases /\ q.next + 1 \in Nat
      BY <2>1, <2>2 DEF Phases, Request
    <3> HIDE DEF v, pc, w, q
    <3>3. w \in Request
      BY <2>1, <3>1, <3>2 DEF Request
    <3>4. RequestOK(w)
      BY <2>1, <3>1, <3>2 DEF RequestOK, Request
    <3> QED BY <3>3, <3>4
  <2>4. req' = [req EXCEPT ![c] = w]
    BY <1>3 DEF LoadType
  <2> HIDE DEF w
  <2>5. req' \in [Clients -> Request] /\ \A d \in Clients : RequestOK(req'[d])
    BY <2>3, <2>4, OneRequest, <1>a DEF TypeOK
  <2> QED BY <1>3, <2>5 DEF LoadType, TypeOK
<1>4. ASSUME NEW c \in Clients, Insert(c) PROVE TypeInv'
  <2> DEFINE t == req[c].tenant
  <2>1. t \in Tenants /\ req[c].view \in Views
    BY <1>4, <1>a DEF Insert, RequestOK, Request
  <2>2. MoveToEnd(order, t) \in Seq(Tenants) /\ recency' \in Seq(Tenants)
    BY <1>4, <2>1, WithoutFacts DEF Insert, MoveToEnd, TypeOK
  <2>3. order' \in Seq(Tenants)
    BY <1>4, <2>2 DEF Insert, Evict
  <2>4. views' \in [Tenants -> Views \union {NoView}]
    BY <1>4, <2>1 DEF Insert, TypeOK
  <2>5. tainted' \in [Tenants -> BOOLEAN]
    BY <1>4, <1>a DEF Insert, TypeOK, Request
  <2>6. req' \in [Clients -> Request] /\ \A d \in Clients : RequestOK(req'[d])
    BY <1>4, IdleType, OneRequest, <1>a DEF Insert, TypeOK
  <2> QED BY <1>4, <2>2, <2>3, <2>4, <2>5, <2>6 DEF Insert, TypeOK
<1>5. ASSUME NEW c \in Clients, NEW t \in Tenants, NEW type \in TypeSet, NEW n \in Names,
             UpsertSelect(c, t, type, n)
      PROVE  TypeInv'
  <2> DEFINE f == IF db[t][type][n] = NoRow THEN NoRow ELSE db[t][type][n].id
             q == [Idle EXCEPT !.pc = "write", !.tenant = t, !.type = type, !.name = n,
                               !.found = f]
  <2>1. f \in Nat \union {NoRow}
    BY DEF TypeOK, Rows
  <2>3. q \in Request /\ RequestOK(q)
    <3> HIDE DEF f
    <3> QED BY IdleType, <2>1 DEF Request, RequestOK, Phases
  <2>4. req' = [req EXCEPT ![c] = q]
    BY <1>5 DEF UpsertSelect
  <2> HIDE DEF q
  <2>5. req' \in [Clients -> Request] /\ \A d \in Clients : RequestOK(req'[d])
    BY <2>3, <2>4, OneRequest, <1>a DEF TypeOK
  <2> QED BY <1>5, <2>5 DEF UpsertSelect, TypeOK
<1>6. ASSUME NEW c \in Clients, UpsertWrite(c) PROVE TypeInv'
  <2> DEFINE q == req[c]
             q1 == [q EXCEPT !.pc = "readback"]
  <2>1. q \in Request /\ q.pc = "write" /\ RequestOK(q)
    BY <1>6, <1>a DEF UpsertWrite
  <2>2. q1 \in Request /\ RequestOK(q1)
    BY <2>1 DEF Request, RequestOK, Phases
  <2>3. ASSUME NEW r \in [Clients -> Request], r[c] = q,
               \A d \in Clients : RequestOK(r[d]), req' = [r EXCEPT ![c].pc = "readback"]
        PROVE  req' \in [Clients -> Request] /\ \A d \in Clients : RequestOK(req'[d])
    <3>1. req' = [r EXCEPT ![c] = q1]
      BY <2>3
    <3> QED BY <2>2, <2>3, <3>1, OneRequest
  <2>4. CASE UNCHANGED <<db, edits>>
    <3>1. req' \in [Clients -> Request] /\ \A d \in Clients : RequestOK(req'[d])
      <4>1. CASE req' = [req EXCEPT ![c] = Idle]
        BY <4>1, IdleType, OneRequest, <1>a DEF TypeOK
      <4>2. CASE req' = [req EXCEPT ![c].pc = "readback"]
        BY <4>2, <2>3, <1>a DEF TypeOK
      <4>3. CASE req' = [Dirtied(req, q.tenant) EXCEPT ![c].pc = "readback"]
        <5>1. Dirtied(req, q.tenant)[c] = q
          BY <2>1 DEF Dirtied
        <5> QED BY <4>3, <5>1, <2>3, DirtiedOK
      <4> QED BY <1>6, <4>1, <4>2, <4>3 DEF UpsertWrite
    <3> QED BY <1>6, <2>4, <3>1 DEF UpsertWrite, TypeOK
  <2>5. ASSUME NEW x \in Rows, db' = [db EXCEPT ![q.tenant][q.type][q.name] = x],
               edits' = edits + 1, req' = [Dirtied(req, q.tenant) EXCEPT ![c].pc = "readback"]
        PROVE TypeInv'
    <3>1. Dirtied(req, q.tenant)[c] = q
      BY <2>1 DEF Dirtied
    <3>2. req' \in [Clients -> Request] /\ \A d \in Clients : RequestOK(req'[d])
      BY <2>3, <2>5, <3>1, DirtiedOK
    <3>3. db' \in [Tenants -> [TypeSet -> [Names -> Rows \union {NoRow}]]]
      <4>1. [db[q.tenant] EXCEPT ![q.type] = [db[q.tenant][q.type] EXCEPT ![q.name] = x]]
              \in [TypeSet -> [Names -> Rows \union {NoRow}]]
        BY <2>1 DEF TypeOK, RequestOK
      <4>2. db' = [db EXCEPT ![q.tenant] =
                [db[q.tenant] EXCEPT ![q.type] = [db[q.tenant][q.type] EXCEPT ![q.name] = x]]]
        BY <2>5
      <4> QED BY <4>1, <4>2 DEF TypeOK
    <3>4. UNCHANGED <<order, views, recency, tainted>>
      BY <1>6 DEF UpsertWrite
    <3>5. edits' \in Nat
      BY <2>5 DEF TypeOK
    <3> QED BY <3>2, <3>3, <3>4, <3>5 DEF TypeOK
  <2>6. CASE edits' = edits + 1
    <3> DEFINE row == db[q.tenant][q.type][q.name]
               id  == IF row = NoRow THEN NoRow ELSE row.id
               x   == [id |-> IF id = NoRow THEN edits + 1 ELSE id, content |-> edits + 1]
    <3>1. edits \in Nat /\ edits' # edits
      BY <2>6 DEF TypeOK
    <3>2. /\ db' = [db EXCEPT ![q.tenant][q.type][q.name] = x]
          /\ req' = [Dirtied(req, q.tenant) EXCEPT ![c].pc = "readback"]
      BY <1>6, <3>1 DEF UpsertWrite
    <3>3. row \in Rows \union {NoRow}
      BY <2>1 DEF TypeOK, RequestOK
    <3>4. x \in Rows
      BY <3>1, <3>3 DEF Rows
    <3> HIDE DEF x
    <3> QED BY <2>5, <2>6, <3>2, <3>4
  <2> QED BY <1>6, <2>4, <2>6 DEF UpsertWrite
<1>7. ASSUME NEW c \in Clients, UpsertReadback(c) PROVE TypeInv'
  <2> DEFINE q == [req[c] EXCEPT !.pc = "invalidate"]
  <2>1. q \in Request /\ RequestOK(q)
    BY <1>7, <1>a DEF UpsertReadback, Request, RequestOK, Phases
  <2>2. req' = [req EXCEPT ![c] = q] \/ req' = [req EXCEPT ![c] = Idle]
    BY <1>7 DEF UpsertReadback
  <2>3. req' \in [Clients -> Request] /\ \A d \in Clients : RequestOK(req'[d])
    BY <2>1, <2>2, IdleType, OneRequest, <1>a DEF TypeOK
  <2>4. tainted' \in [Tenants -> BOOLEAN]
    BY <1>7 DEF UpsertReadback, TypeOK
  <2> QED BY <1>7, <2>3, <2>4 DEF UpsertReadback, TypeOK
<1>8. ASSUME NEW c \in Clients, NEW t \in Tenants, NEW type \in TypeSet, NEW n \in Names,
             Delete(c, t, type, n)
      PROVE  TypeInv'
  <2> DEFINE q == [Idle EXCEPT !.pc = "invalidate", !.tenant = t]
  <2>1. q \in Request /\ RequestOK(q)
    BY IdleType DEF Request, RequestOK, Phases
  <2>2. req' = [Dirtied(req, t) EXCEPT ![c] = q]
    BY <1>8 DEF Delete
  <2>3. req' \in [Clients -> Request] /\ \A d \in Clients : RequestOK(req'[d])
    BY <2>1, <2>2, DirtiedOK, OneRequest
  <2>4. db' \in [Tenants -> [TypeSet -> [Names -> Rows \union {NoRow}]]]
    BY <1>8 DEF Delete, TypeOK
  <2> QED BY <1>8, <2>3, <2>4 DEF Delete, TypeOK
<1>9. ASSUME NEW c \in Clients, Invalidate(c) PROVE TypeInv'
  <2>1. order' \in Seq(Tenants)
    BY <1>9, WithoutFacts DEF Invalidate, TypeOK
  <2>2. req' \in [Clients -> Request] /\ \A d \in Clients : RequestOK(req'[d])
    BY <1>9, IdleType, OneRequest, <1>a DEF Invalidate, TypeOK
  <2>3. views' \in [Tenants -> Views \union {NoView}]
    BY <1>9 DEF Invalidate, TypeOK
  <2> QED BY <1>9, <2>1, <2>2, <2>3 DEF Invalidate, TypeOK
<1>10. CASE Restart
  BY <1>10, IdleType DEF Restart, TypeOK
<1>11. CASE UNCHANGED vars
  BY <1>11 DEF vars, TypeOK
<1> QED BY <1>1, <1>2, <1>3, <1>4, <1>5, <1>6, <1>7, <1>8, <1>9, <1>10, <1>11
        DEF Next, CacheStep, EditStep

(* Every variable has its type, in every reachable state.                  *)
THEOREM RegistryTypeOK == Spec => []TypeOK
<1>1. Spec => []TypeInv
  BY TypeInit, TypeStep, PTL DEF Spec
<1>2. TypeInv => TypeOK
  BY DEF TypeInv
<1> QED BY <1>1, <1>2, PTL
-----------------------------------------------------------------------------
CacheInv == KeysAreViews /\ CacheBounded

LEMMA CacheInit == Init => CacheInv
BY DEF Init, CacheInv, KeysAreViews, CacheBounded, ToSet

LEMMA CacheStepInv == TypeInv /\ CacheInv /\ [Next]_vars => CacheInv'
<1> SUFFICES ASSUME TypeInv, CacheInv, [Next]_vars PROVE CacheInv'
  OBVIOUS
<1>a. /\ order \in Seq(Tenants) /\ Distinct(order) /\ Len(order) <= MaxSize
      /\ \A t \in Tenants : views[t] # NoView <=> t \in ToSet(order)
  BY DEF TypeInv, TypeOK, CacheInv, KeysAreViews, CacheBounded, Distinct
<1>b. ASSUME Distinct(order)', Len(order') <= MaxSize,
             \A t \in Tenants : views'[t] # NoView <=> t \in ToSet(order')
      PROVE  CacheInv'
  BY <1>b DEF CacheInv, KeysAreViews, CacheBounded, Distinct
<1>1. ASSUME NEW c \in Clients, NEW t \in Tenants, GetHit(c, t) PROVE CacheInv'
  <2>1. t \in ToSet(order) /\ order' = MoveToEnd(order, t) /\ views' = views
    BY <1>1, <1>a DEF GetHit
  <2>2. /\ Distinct(order') /\ ToSet(order') = ToSet(order) \union {t}
        /\ Len(order') = Len(order)
    BY <1>a, <2>1, MoveToEndFacts
  <2> QED BY <1>a, <1>b, <2>1, <2>2 DEF Distinct
<1>2. ASSUME NEW c \in Clients, Insert(c) PROVE CacheInv'
  <2> DEFINE t == req[c].tenant
             m == MoveToEnd(order, t)
  <2>1. t \in Tenants /\ req[c].view \in Views /\ req[c].view # NoView
    BY <1>2 DEF Insert, TypeInv, TypeOK, RequestOK, Request, Views
  <2>2. /\ m \in Seq(Tenants) /\ Distinct(m) /\ ToSet(m) = ToSet(order) \union {t}
        /\ Len(m) <= Len(order) + 1
    BY <1>a, <2>1, MoveToEndFacts
  <2>3. Len(m) <= MaxSize + 1
    BY <1>a, <2>2
  <2>4. order' = Evict(m)
    BY <1>2 DEF Insert
  <2> HIDE DEF m
  <2>5. Distinct(order') /\ Len(order') <= MaxSize /\ ToSet(order') \subseteq ToSet(m)
    BY <2>2, <2>3, <2>4, EvictFacts
  <2>6. ASSUME NEW u \in Tenants PROVE views'[u] # NoView <=> u \in ToSet(order')
    <3>1. views'[u] = IF u \notin ToSet(order') THEN NoView
                      ELSE IF u = t THEN req[c].view ELSE views[u]
      BY <1>2 DEF Insert
    <3> QED BY <1>a, <2>1, <2>2, <2>5, <3>1
  <2> QED BY <1>b, <2>5, <2>6 DEF Distinct
<1>3. ASSUME NEW c \in Clients, Invalidate(c) PROVE CacheInv'
  <2> DEFINE t == req[c].tenant
  <2>1. order' = Without(order, t) /\ views' = [views EXCEPT ![t] = NoView]
    BY <1>3 DEF Invalidate
  <2>2. /\ Distinct(order') /\ Len(order') <= Len(order)
        /\ order' \in Seq(Tenants) /\ ToSet(order') = ToSet(order) \ {t}
    BY <1>a, <2>1, WithoutFacts
  <2>3. \A u \in Tenants : views'[u] = IF u = t THEN NoView ELSE views[u]
    BY <2>1 DEF TypeInv, TypeOK
  <2>4. Len(order') <= MaxSize
    BY <1>a, <2>2
  <2> QED BY <1>a, <1>b, <2>2, <2>3, <2>4 DEF Distinct
<1>4. CASE Restart
  <2>1. order' = <<>> /\ views' = [t \in Tenants |-> NoView]
    BY <1>4 DEF Restart
  <2> QED BY <2>1 DEF CacheInv, KeysAreViews, CacheBounded, ToSet
<1>5. CASE UNCHANGED <<order, views>>
  BY <1>5 DEF CacheInv, KeysAreViews, CacheBounded
<1>6. ASSUME NEW c \in Clients, CacheStep(c) PROVE CacheInv'
  <2>1. CASE \E t \in Tenants : GetMiss(c, t)
    BY <1>5, <2>1 DEF GetMiss
  <2>2. CASE LoadType(c)
    BY <1>5, <2>2 DEF LoadType
  <2> QED BY <1>1, <1>2, <1>6, <2>1, <2>2 DEF CacheStep
<1>7. ASSUME NEW c \in Clients, EditStep(c) PROVE CacheInv'
  <2>1. CASE \E t \in Tenants, type \in TypeSet, n \in Names :
               UpsertSelect(c, t, type, n) \/ Delete(c, t, type, n)
    BY <1>5, <2>1 DEF UpsertSelect, Delete
  <2>2. CASE UpsertWrite(c)
    BY <1>5, <2>2 DEF UpsertWrite
  <2>3. CASE UpsertReadback(c)
    BY <1>5, <2>3 DEF UpsertReadback
  <2> QED BY <1>3, <1>7, <2>1, <2>2, <2>3 DEF EditStep
<1>8. CASE UNCHANGED vars
  BY <1>5, <1>8 DEF vars
<1> QED BY <1>4, <1>6, <1>7, <1>8 DEF Next

(* The keys and the views of the OrderedDict are the same tenants, and the *)
(* cache never holds more of them than registry_cache_size, whatever the   *)
(* interleaving of loads, edits and restarts.                              *)
THEOREM RegistryCacheBounded == Spec => [](CacheBounded /\ KeysAreViews)
<1>1. Spec => [](TypeInv /\ CacheInv)
  BY TypeInit, TypeStep, CacheInit, CacheStepInv, PTL DEF Spec
<1>2. CacheInv => CacheBounded /\ KeysAreViews
  BY DEF CacheInv
<1> QED BY <1>1, <1>2, PTL
-----------------------------------------------------------------------------
(* Some occurrence of x comes before one of y.                             *)
Before(s, x, y) == \E i, j \in 1..Len(s) : i < j /\ s[i] = x /\ s[j] = y

(* Dropping an element leaves every pair of the others in its order, and   *)
(* relates nothing new.                                                    *)
LEMMA WithoutKeepsOrder ==
  ASSUME NEW S, NEW s \in Seq(S), Distinct(s), NEW e, NEW x, NEW y
  PROVE  Before(Without(s, e), x, y) <=> Before(s, x, y) /\ x # e /\ y # e
<1>1. CASE e \in ToSet(s)
  <2> DEFINE k == CHOOSE i \in 1..Len(s) : s[i] = e
             r == RemoveAt(s, k)
  <2>1. k \in 1..Len(s) /\ s[k] = e /\ Without(s, e) = r
    <3>1. \E i \in 1..Len(s) : s[i] = e
      BY <1>1 DEF ToSet
    <3> QED BY <1>1, <3>1 DEF Without
  <2> HIDE DEF k
  <2>2. /\ r \in Seq(S) /\ Len(r) = Len(s) - 1
        /\ \A i \in 1..(Len(s) - 1) : r[i] = IF i < k THEN s[i] ELSE s[i + 1]
    BY <2>1, RemoveAtFacts
  <2> HIDE DEF r
  <2>3. ASSUME Before(r, x, y) PROVE Before(s, x, y) /\ x # e /\ y # e
    <3>1. PICK i, j \in 1..Len(r) : i < j /\ r[i] = x /\ r[j] = y
      BY <2>3 DEF Before
    <3> DEFINE at(n) == IF n < k THEN n ELSE n + 1
    <3>2. /\ at(i) \in 1..Len(s) /\ at(j) \in 1..Len(s) /\ at(i) < at(j)
          /\ at(i) # k /\ at(j) # k /\ s[at(i)] = x /\ s[at(j)] = y
      BY <2>1, <2>2, <3>1
    <3> HIDE DEF at
    <3>3. s[at(i)] # s[k] /\ s[at(j)] # s[k]
      BY <2>1, <3>2 DEF Distinct
    <3> QED BY <2>1, <3>2, <3>3 DEF Before
  <2>4. ASSUME Before(s, x, y), x # e, y # e PROVE Before(r, x, y)
    <3>1. PICK i, j \in 1..Len(s) : i < j /\ s[i] = x /\ s[j] = y
      BY <2>4 DEF Before
    <3>2. i # k /\ j # k
      BY <2>1, <2>4, <3>1
    <3> DEFINE at(n) == IF n < k THEN n ELSE n - 1
    <3>3. at(i) \in 1..Len(r) /\ at(j) \in 1..Len(r) /\ at(i) < at(j)
      BY <2>1, <2>2, <3>1, <3>2
    <3>4. ASSUME NEW n \in 1..Len(s), n # k PROVE r[at(n)] = s[n]
      <4>1. CASE n < k
        BY <2>1, <2>2, <4>1
      <4>2. CASE n > k
        <5>1. n - 1 \in 1..(Len(s) - 1) /\ ~(n - 1 < k) /\ (n - 1) + 1 = n /\ at(n) = n - 1
          BY <2>1, <4>2
        <5>2. r[n - 1] = s[(n - 1) + 1]
          BY <2>2, <5>1
        <5> QED BY <5>1, <5>2
      <4> QED BY <2>1, <3>4, <4>1, <4>2
    <3>5. r[at(i)] = x /\ r[at(j)] = y
      BY <3>1, <3>2, <3>4
    <3> HIDE DEF at
    <3> QED BY <3>3, <3>5 DEF Before
  <2> QED BY <2>1, <2>3, <2>4
<1>2. CASE e \notin ToSet(s)
  <2>1. Before(s, x, y) => x # e /\ y # e
    BY <1>2, ElementOf DEF Before
  <2> QED BY <1>2, <2>1 DEF Without
<1> QED BY <1>1, <1>2

(* An element moved to the end comes after all the others, which keep      *)
(* their order.                                                            *)
LEMMA MoveToEndOrder ==
  ASSUME NEW S, NEW s \in Seq(S), Distinct(s), NEW e \in S, NEW x, NEW y
  PROVE  Before(MoveToEnd(s, e), x, y) <=>
           \/ Before(s, x, y) /\ x # e /\ y # e
           \/ x \in ToSet(s) \ {e} /\ y = e
<1> DEFINE w == Without(s, e)
           m == Append(w, e)
<1>1. w \in Seq(S) /\ ToSet(w) = ToSet(s) \ {e}
  BY WithoutFacts
<1>2. Before(w, x, y) <=> Before(s, x, y) /\ x # e /\ y # e
  BY WithoutKeepsOrder
<1>3. MoveToEnd(s, e) = m
  BY DEF MoveToEnd
<1> HIDE DEF w
<1>4. /\ Len(m) = Len(w) + 1 /\ Len(w) \in Nat /\ m[Len(w) + 1] = e
      /\ \A i \in 1..Len(w) : m[i] = w[i]
  BY <1>1
<1> HIDE DEF m
<1>5. ASSUME Before(m, x, y) PROVE Before(w, x, y) \/ (x \in ToSet(w) /\ y = e)
  <2>1. PICK i, j \in 1..Len(m) : i < j /\ m[i] = x /\ m[j] = y
    BY <1>5 DEF Before
  <2>2. i \in 1..Len(w) /\ w[i] = x
    BY <1>4, <2>1
  <2>3. CASE j \in 1..Len(w)
    BY <1>4, <2>1, <2>2, <2>3 DEF Before
  <2>4. CASE ~(j \in 1..Len(w))
    <3>1. j = Len(w) + 1
      BY <1>4, <2>4
    <3>2. x \in ToSet(w)
      BY <1>1, <2>2, ElementOf
    <3> QED BY <1>4, <2>1, <3>1, <3>2
  <2> QED BY <2>3, <2>4
<1>6. ASSUME Before(w, x, y) PROVE Before(m, x, y)
  <2>1. PICK i, j \in 1..Len(w) : i < j /\ w[i] = x /\ w[j] = y
    BY <1>6 DEF Before
  <2>2. i \in 1..Len(m) /\ j \in 1..Len(m) /\ m[i] = x /\ m[j] = y
    BY <1>4, <2>1
  <2> QED BY <2>1, <2>2 DEF Before
<1>7. ASSUME x \in ToSet(w), y = e PROVE Before(m, x, y)
  <2>1. PICK i \in 1..Len(w) : w[i] = x
    BY <1>7 DEF ToSet
  <2>2. /\ i \in 1..Len(m) /\ Len(w) + 1 \in 1..Len(m) /\ i < Len(w) + 1
        /\ m[i] = x /\ m[Len(w) + 1] = y
    BY <1>4, <1>7, <2>1
  <2> QED BY <2>2 DEF Before
<1> QED BY <1>1, <1>2, <1>3, <1>5, <1>6, <1>7

(* Evicting from the head relates nothing new.                             *)
LEMMA EvictKeepsOrder ==
  ASSUME NEW S, NEW s \in Seq(S), NEW x, NEW y, Before(Evict(s), x, y)
  PROVE  Before(s, x, y)
<1>1. CASE Len(s) > MaxSize
  <2> DEFINE r == Tail(s)
  <2>1. /\ Len(r) = Len(s) - 1 /\ Len(s) \in Nat
        /\ \A i \in 1..(Len(s) - 1) : r[i] = s[i + 1]
    BY <1>1
  <2>2. Evict(s) = r
    BY <1>1 DEF Evict
  <2> HIDE DEF r
  <2>3. PICK i, j \in 1..Len(r) : i < j /\ r[i] = x /\ r[j] = y
    BY <2>2 DEF Before
  <2>4. /\ i + 1 \in 1..Len(s) /\ j + 1 \in 1..Len(s) /\ i + 1 < j + 1
        /\ s[i + 1] = x /\ s[j + 1] = y
    BY <2>1, <2>3
  <2> QED BY <2>4 DEF Before
<1>2. CASE ~(Len(s) > MaxSize)
  BY <1>2 DEF Evict
<1> QED BY <1>1, <1>2

(* Of the accesses r, the kept tenants k are some, in the same order.      *)
InAccessOrder(k, r) ==
  /\ Distinct(k) /\ Distinct(r)
  /\ ToSet(k) \subseteq ToSet(r)
  /\ \A x, y \in Tenants : Before(k, x, y) => Before(r, x, y)

(* An access moves its tenant to the end of both.                          *)
LEMMA AccessKeepsOrder ==
  ASSUME NEW k \in Seq(Tenants), NEW r \in Seq(Tenants), InAccessOrder(k, r), NEW t \in Tenants
  PROVE  InAccessOrder(MoveToEnd(k, t), MoveToEnd(r, t))
<1>1. /\ Distinct(MoveToEnd(k, t)) /\ Distinct(MoveToEnd(r, t))
      /\ ToSet(MoveToEnd(k, t)) \subseteq ToSet(MoveToEnd(r, t))
  BY MoveToEndFacts DEF InAccessOrder
<1>2. ASSUME NEW x \in Tenants, NEW y \in Tenants, Before(MoveToEnd(k, t), x, y)
      PROVE  Before(MoveToEnd(r, t), x, y)
  <2>1. \/ Before(k, x, y) /\ x # t /\ y # t
        \/ x \in ToSet(k) \ {t} /\ y = t
    BY <1>2, MoveToEndOrder DEF InAccessOrder
  <2>2. \/ Before(r, x, y) /\ x # t /\ y # t
        \/ x \in ToSet(r) \ {t} /\ y = t
    BY <2>1 DEF InAccessOrder
  <2> QED BY <2>2, MoveToEndOrder DEF InAccessOrder
<1> QED BY <1>1, <1>2 DEF InAccessOrder

LEMMA RecencyInit == Init => InAccessOrder(order, recency)
BY DEF Init, InAccessOrder, Distinct, Before, ToSet

LEMMA RecencyStep ==
  TypeInv /\ CacheInv /\ InAccessOrder(order, recency) /\ [Next]_vars
    => InAccessOrder(order, recency)'
<1> SUFFICES ASSUME TypeInv, CacheInv, InAccessOrder(order, recency), [Next]_vars
             PROVE  InAccessOrder(order', recency')
  BY DEF InAccessOrder, Distinct, Before, ToSet
<1>a. order \in Seq(Tenants) /\ recency \in Seq(Tenants)
  BY DEF TypeInv, TypeOK
<1>1. ASSUME NEW c \in Clients, NEW t \in Tenants, GetHit(c, t)
      PROVE  InAccessOrder(order', recency')
  BY <1>a, <1>1, AccessKeepsOrder DEF GetHit, MoveToEnd
<1>2. ASSUME NEW c \in Clients, Insert(c) PROVE InAccessOrder(order', recency')
  <2> DEFINE t == req[c].tenant
             m == MoveToEnd(order, t)
  <2>1. t \in Tenants
    BY <1>2 DEF Insert, TypeInv, RequestOK
  <2>2. order' = Evict(m) /\ recency' = MoveToEnd(recency, t)
    BY <1>2 DEF Insert, MoveToEnd
  <2>3. InAccessOrder(m, recency')
    BY <1>a, <2>1, <2>2, AccessKeepsOrder
  <2>4. m \in Seq(Tenants) /\ Len(m) <= MaxSize + 1
    <3>1. m \in Seq(Tenants) /\ Len(m) <= Len(order) + 1
      BY <1>a, <2>1, MoveToEndFacts DEF InAccessOrder
    <3> HIDE DEF m
    <3>2. Len(m) \in Nat /\ Len(order) \in Nat /\ Len(order) <= MaxSize
      BY <1>a, <3>1 DEF CacheInv, CacheBounded
    <3> QED BY <3>1, <3>2
  <2> HIDE DEF m
  <2>5. Distinct(order') /\ ToSet(order') \subseteq ToSet(m)
    BY <2>2, <2>3, <2>4, EvictFacts DEF InAccessOrder
  <2>6. \A x, y \in Tenants : Before(order', x, y) => Before(m, x, y)
    BY <2>2, <2>4, EvictKeepsOrder
  <2> QED BY <2>3, <2>5, <2>6 DEF InAccessOrder
<1>3. ASSUME NEW c \in Clients, Invalidate(c) PROVE InAccessOrder(order', recency')
  <2>1. order' = Without(order, req[c].tenant) /\ recency' = recency
    BY <1>3 DEF Invalidate
  <2>2. Distinct(order') /\ ToSet(order') \subseteq ToSet(order)
    BY <1>a, <2>1, WithoutFacts DEF InAccessOrder
  <2>3. \A x, y \in Tenants : Before(order', x, y) => Before(order, x, y)
    BY <1>a, <2>1, WithoutKeepsOrder DEF InAccessOrder
  <2> QED BY <2>1, <2>2, <2>3 DEF InAccessOrder
<1>4. CASE Restart
  <2>1. order' = <<>> /\ recency' = <<>>
    BY <1>4 DEF Restart
  <2> QED BY <2>1 DEF InAccessOrder, Distinct, Before, ToSet
<1>5. CASE UNCHANGED <<order, recency>>
  BY <1>5
<1>6. ASSUME NEW c \in Clients, CacheStep(c) PROVE InAccessOrder(order', recency')
  <2>1. (\E t \in Tenants : GetMiss(c, t)) \/ LoadType(c) => UNCHANGED <<order, recency>>
    BY DEF GetMiss, LoadType
  <2> QED BY <1>1, <1>2, <1>5, <1>6, <2>1 DEF CacheStep
<1>7. ASSUME NEW c \in Clients, EditStep(c) PROVE InAccessOrder(order', recency')
  <2>1. UpsertWrite(c) \/ UpsertReadback(c) => UNCHANGED <<order, recency>>
    BY DEF UpsertWrite, UpsertReadback
  <2>2. ASSUME NEW t \in Tenants, NEW type \in TypeSet, NEW n \in Names,
               UpsertSelect(c, t, type, n) \/ Delete(c, t, type, n)
        PROVE  UNCHANGED <<order, recency>>
    BY <2>2 DEF UpsertSelect, Delete
  <2> QED BY <1>3, <1>5, <1>7, <2>1, <2>2 DEF EditStep
<1>8. CASE UNCHANGED vars
  BY <1>5, <1>8 DEF vars
<1> QED BY <1>4, <1>6, <1>7, <1>8 DEF Next

(* What the cache keeps is in order of last access, whatever order loads,  *)
(* hits and invalidations come in: OrderedDict.popitem(last=False) evicts  *)
(* the view accessed longest ago.                                          *)
THEOREM RegistryEvictsLeastRecentlyUsed == Spec => []LeastRecentlyUsedOrder
<1>1. Spec => [](TypeInv /\ CacheInv /\ InAccessOrder(order, recency))
  BY TypeInit, TypeStep, CacheInit, CacheStepInv, RecencyInit, RecencyStep, PTL DEF Spec
<1>2. TypeInv /\ InAccessOrder(order, recency) => LeastRecentlyUsedOrder
  <2> SUFFICES ASSUME TypeInv, InAccessOrder(order, recency),
                      NEW i \in 1..Len(order), NEW j \in 1..Len(order), i < j
               PROVE  Before(recency, order[i], order[j])
    BY DEF LeastRecentlyUsedOrder, Before
  <2>1. order[i] \in Tenants /\ order[j] \in Tenants
    BY DEF TypeInv, TypeOK
  <2>2. Before(order, order[i], order[j])
    BY DEF Before
  <2> QED BY <2>1, <2>2 DEF InAccessOrder
<1> QED BY <1>1, <1>2, PTL
-----------------------------------------------------------------------------
(* A load that no edit of its tenant has overlapped holds the tenant's     *)
(* current entries, for every resource type it has queried.                *)
LoadOK(q) ==
  q.pc \in {"load", "insert"} =>
    /\ q.pc = "insert" => q.next = Len(Types) + 1
    /\ ~q.dirty => \A i \in 1..Len(Types) : i < q.next =>
         q.view[Types[i]] = ListForTenant(q.tenant, Types[i])

FreshInv == /\ \A c \in Clients : LoadOK(req[c])
            /\ FreshUnlessOverlapped

LEMMA FreshInit == Init => FreshInv
BY DEF Init, FreshInv, LoadOK, Idle, FreshUnlessOverlapped

(* Edits: the tables of the other tenants are as they were, so that only   *)
(* the edited tenant's loads and view can be behind; the loads are marked  *)
(* and the view awaits its invalidation.                                   *)
LEMMA EditKeepsFresh ==
  ASSUME TypeInv, FreshInv, NEW t \in Tenants, NEW c \in Clients, NEW q,
         \A u \in Tenants \ {t} : db'[u] = db[u],
         UNCHANGED <<views, tainted>>,
         req' = [Dirtied(req, t) EXCEPT ![c] = q],
         q.tenant = t, q.pc \in {"readback", "invalidate"},
         req[c].pc \in {"idle", "write"}
  PROVE  FreshInv'
<1>1. \A d \in Clients : req'[d] = IF d = c THEN q ELSE Dirtied(req, t)[d]
  BY DirtiedOK
<1>2. \A u \in Tenants \ {t} : \A type : ListForTenant(u, type)' = ListForTenant(u, type)
  BY DEF ListForTenant
<1>3. ASSUME NEW d \in Clients PROVE LoadOK(req[d])'
  <2>0. SUFFICES ASSUME req'[d].pc \in {"load", "insert"}
                 PROVE  /\ req'[d].pc = "insert" => req'[d].next = Len(Types) + 1
                        /\ ~req'[d].dirty => \A i \in 1..Len(Types) : i < req'[d].next =>
                             req'[d].view[Types[i]] = ListForTenant(req[d].tenant, Types[i])'
    BY DEF LoadOK
  <2>1. d # c
    BY <1>1, <2>0
  <2>2. CASE req[d].tenant = t /\ req[d].pc \in {"load", "insert"}
    <3>1. req'[d] = [req[d] EXCEPT !.dirty = TRUE] /\ req[d] \in Request
      BY <1>1, <2>1, <2>2 DEF Dirtied, TypeInv, TypeOK
    <3>2. /\ req'[d].dirty = TRUE /\ req'[d].pc = req[d].pc
          /\ req'[d].next = req[d].next
      BY <3>1 DEF Request
    <3> QED BY <2>2, <3>2 DEF LoadOK, FreshInv
  <2>3. CASE ~(req[d].tenant = t /\ req[d].pc \in {"load", "insert"})
    <3>1. req'[d] = req[d]
      BY <1>1, <2>1, <2>3 DEF Dirtied
    <3>2. req[d].tenant \in Tenants \ {t} /\ LoadOK(req[d])
      BY <2>0, <2>3, <3>1 DEF TypeInv, RequestOK, FreshInv
    <3>3. \A type : ListForTenant(req[d].tenant, type)' = ListForTenant(req[d].tenant, type)
      <4>1. db'[req'[d].tenant] = db[req[d].tenant]
        BY <3>1, <3>2
      <4> QED BY <4>1 DEF ListForTenant
    <3> QED BY <2>0, <3>1, <3>2, <3>3 DEF LoadOK
  <2> QED BY <2>2, <2>3
<1>4. ASSUME NEW u \in Tenants, views'[u] # NoView, ~tainted'[u], ~InvalidationDue(u)'
      PROVE  views'[u] = CurrentView(u)'
  <2>1. u # t
    BY <1>1, <1>4 DEF InvalidationDue
  <2>2. ~InvalidationDue(u)
    <3> SUFFICES ASSUME NEW d \in Clients, req[d].tenant = u,
                        req[d].pc \in {"readback", "invalidate"}
                 PROVE  FALSE
      BY DEF InvalidationDue
    <3>1. d # c
      OBVIOUS
    <3>2. req'[d] = req[d]
      BY <1>1, <3>1 DEF Dirtied
    <3> QED BY <1>4, <3>2 DEF InvalidationDue
  <2>3. CurrentView(u)' = CurrentView(u)
    BY <1>2, <2>1 DEF CurrentView
  <2> QED BY <1>4, <2>2, <2>3 DEF FreshInv, FreshUnlessOverlapped
<1> QED BY <1>3, <1>4 DEF FreshInv, FreshUnlessOverlapped

(* One request changes and the tables and the views do not: it may stop    *)
(* owing an invalidation only if its tenant is marked or has no view.      *)
LEMMA RequestKeepsFresh ==
  ASSUME TypeInv, FreshInv, UNCHANGED <<db, views>>,
         NEW c \in Clients, NEW q, req' = [req EXCEPT ![c] = q],
         LoadOK(q),
         \A u \in Tenants : tainted[u] => tainted'[u],
         req[c].pc \in {"readback", "invalidate"} =>
           \/ q.pc \in {"readback", "invalidate"} /\ q.tenant = req[c].tenant
           \/ tainted'[req[c].tenant]
  PROVE  FreshInv'
<1>1. \A d \in Clients : req'[d] = IF d = c THEN q ELSE req[d]
  BY DEF TypeInv, TypeOK
<1>2. \A u, type : ListForTenant(u, type)' = ListForTenant(u, type)
  BY DEF ListForTenant
<1>3. ASSUME NEW d \in Clients PROVE LoadOK(req[d])'
  <2>1. LoadOK(req'[d])
    BY <1>1 DEF FreshInv
  <2>2. db' = db
    OBVIOUS
  <2> QED BY <2>1, <2>2 DEF LoadOK, ListForTenant
<1>4. ASSUME NEW u \in Tenants, views'[u] # NoView, ~tainted'[u], ~InvalidationDue(u)'
      PROVE  views'[u] = CurrentView(u)'
  <2>1. ~InvalidationDue(u)
    <3> SUFFICES ASSUME NEW d \in Clients, req[d].tenant = u,
                        req[d].pc \in {"readback", "invalidate"}
                 PROVE  FALSE
      BY DEF InvalidationDue
    <3>1. req'[d].tenant = u /\ req'[d].pc \in {"readback", "invalidate"}
      BY <1>1, <1>4
    <3> QED BY <1>4, <3>1 DEF InvalidationDue
  <2>2. CurrentView(u)' = CurrentView(u)
    BY <1>2 DEF CurrentView
  <2> QED BY <1>4, <2>1, <2>2 DEF FreshInv, FreshUnlessOverlapped
<1> QED BY <1>3, <1>4 DEF FreshInv, FreshUnlessOverlapped

LEMMA FreshStep == TypeInv /\ FreshInv /\ [Next]_vars => FreshInv'
<1> SUFFICES ASSUME TypeInv, FreshInv, [Next]_vars PROVE FreshInv'
  OBVIOUS
<1>a. LoadOK(Idle) /\ Idle.pc = "idle"
  BY DEF LoadOK, Idle
<1>1. ASSUME NEW c \in Clients, NEW t \in Tenants, GetMiss(c, t) PROVE FreshInv'
  <2> DEFINE q == [Idle EXCEPT !.pc = "load", !.tenant = t]
  <2>1. LoadOK(q)
    BY DEF LoadOK, Idle
  <2> HIDE DEF q
  <2>2. req' = [req EXCEPT ![c] = q] /\ req[c].pc = "idle" /\ UNCHANGED <<db, views, tainted>>
    BY <1>1 DEF GetMiss, q
  <2> QED BY <2>1, <2>2, RequestKeepsFresh
<1>2. ASSUME NEW c \in Clients, LoadType(c) PROVE FreshInv'
  <2> DEFINE q == req[c]
             n == ListForTenant(q.tenant, Types[q.next])
             w == [q EXCEPT !.view[Types[q.next]] = n, !.next = q.next + 1,
                            !.pc = IF q.next = Len(Types) THEN "insert" ELSE "load"]
  <2>1. /\ q \in Request /\ q.pc = "load" /\ q.next <= Len(Types) /\ q.next \in Nat
        /\ LoadOK(q)
    BY <1>2 DEF LoadType, FreshInv, TypeInv, TypeOK, Request
  <2>2. /\ w.view = [q.view EXCEPT ![Types[q.next]] = n] /\ w.next = q.next + 1
        /\ w.pc = IF q.next = Len(Types) THEN "insert" ELSE "load"
        /\ w.tenant = q.tenant /\ w.dirty = q.dirty
    BY <2>1 DEF Request
  <2>3. req' = [req EXCEPT ![c] = w] /\ UNCHANGED <<db, views, tainted>>
    BY <1>2 DEF LoadType
  <2> HIDE DEF w
  <2>4. LoadOK(w)
    <3>1. w.pc = "insert" => w.next = Len(Types) + 1
      BY <2>2
    <3>2. ASSUME ~w.dirty, NEW i \in 1..Len(Types), i < w.next
          PROVE  w.view[Types[i]] = ListForTenant(w.tenant, Types[i])
      <4>1. Types[i] \in TypeSet /\ q.view \in Views
        BY <2>1 DEF TypeSet, Request
      <4>2. CASE Types[i] = Types[q.next]
        <5>1. w.view[Types[i]] = n
          BY <2>2, <4>1, <4>2 DEF Views
        <5> QED BY <2>2, <4>2, <5>1
      <4>3. CASE Types[i] # Types[q.next]
        <5>1. w.view[Types[i]] = q.view[Types[i]]
          BY <2>2, <4>1, <4>3 DEF Views
        <5>2. i < q.next
          <6>1. i # q.next
            BY <4>3
          <6> QED BY <2>1, <2>2, <3>2, <6>1
        <5>3. ~q.dirty
          BY <2>2, <3>2
        <5>4. q.view[Types[i]] = ListForTenant(q.tenant, Types[i])
          BY <2>1, <5>2, <5>3 DEF LoadOK
        <5> QED BY <2>2, <5>1, <5>4
      <4> QED BY <4>2, <4>3
    <3> QED BY <3>1, <3>2 DEF LoadOK
  <2> QED BY <2>1, <2>3, <2>4, RequestKeepsFresh
<1>3. ASSUME NEW c \in Clients, Insert(c) PROVE FreshInv'
  <2> DEFINE t == req[c].tenant
  <2>1. /\ req[c].pc = "insert" /\ req' = [req EXCEPT ![c] = Idle]
        /\ tainted' = [tainted EXCEPT ![t] = req[c].dirty] /\ db' = db
        /\ LoadOK(req[c])
    BY <1>3 DEF Insert, FreshInv
  <2>2. \A d \in Clients : req'[d] = IF d = c THEN Idle ELSE req[d]
    BY <2>1 DEF TypeInv, TypeOK
  <2>3. ASSUME NEW d \in Clients PROVE LoadOK(req[d])'
    <3>1. LoadOK(req'[d])
      BY <1>a, <2>2 DEF FreshInv
    <3> QED BY <2>1, <3>1 DEF LoadOK, ListForTenant
  <2>4. ASSUME NEW u \in Tenants, views'[u] # NoView, ~tainted'[u], ~InvalidationDue(u)'
        PROVE  views'[u] = CurrentView(u)'
    <3>1. CurrentView(u)' = CurrentView(u)
      BY <2>1 DEF CurrentView, ListForTenant
    <3>2. ~InvalidationDue(u)
      BY <2>1, <2>2, <2>4, <1>a DEF InvalidationDue
    <3>3. views'[u] = IF u = t THEN req[c].view ELSE views[u]
      BY <1>3, <2>4 DEF Insert
    <3>4. CASE u = t
      <4>1. ~req[c].dirty
        BY <2>1, <2>4, <3>4 DEF TypeInv, TypeOK
      <4>2. \A i \in 1..Len(Types) : req[c].view[Types[i]] = ListForTenant(t, Types[i])
        BY <2>1, <4>1 DEF LoadOK
      <4>3. req[c].view \in Views
        BY DEF TypeInv, TypeOK, Request
      <4>4. \A type \in TypeSet : req[c].view[type] = ListForTenant(t, type)
        BY <4>2 DEF TypeSet
      <4>5. req[c].view = CurrentView(t)
        BY <4>3, <4>4 DEF CurrentView, Views
      <4> QED BY <3>1, <3>3, <3>4, <4>5
    <3>5. CASE u # t
      <4>1. ~tainted[u]
        BY <2>1, <2>4, <3>5 DEF TypeInv, TypeOK
      <4> QED BY <2>4, <3>1, <3>2, <3>3, <3>5, <4>1 DEF FreshInv, FreshUnlessOverlapped
    <3> QED BY <3>4, <3>5
  <2> QED BY <2>3, <2>4 DEF FreshInv, FreshUnlessOverlapped
<1>4. ASSUME NEW c \in Clients, NEW t \in Tenants, NEW type \in TypeSet, NEW n \in Names,
             UpsertSelect(c, t, type, n)
      PROVE  FreshInv'
  <2> DEFINE q == [Idle EXCEPT !.pc = "write", !.tenant = t, !.type = type, !.name = n,
                      !.found = IF db[t][type][n] = NoRow THEN NoRow ELSE db[t][type][n].id]
  <2>1. LoadOK(q)
    BY DEF LoadOK, Idle
  <2>2. /\ req' = [req EXCEPT ![c] = q] /\ req[c].pc = "idle"
        /\ UNCHANGED <<db, views, tainted>>
    BY <1>4 DEF UpsertSelect
  <2> HIDE DEF q
  <2> QED BY <2>1, <2>2, RequestKeepsFresh
<1>5. ASSUME NEW c \in Clients, UpsertWrite(c) PROVE FreshInv'
  <2> DEFINE t == req[c].tenant
             q == [req[c] EXCEPT !.pc = "readback"]
  <2>1. /\ req[c].pc = "write" /\ t \in Tenants /\ UNCHANGED <<views, tainted>>
        /\ q.pc = "readback" /\ q.tenant = t
    BY <1>5 DEF UpsertWrite, TypeInv, TypeOK, RequestOK, Request
  <2>2. LoadOK(q)
    BY <2>1 DEF LoadOK
  <2>3. CASE UNCHANGED db /\ req' = [req EXCEPT ![c] = Idle]
    BY <1>a, <2>1, <2>3, RequestKeepsFresh
  <2>4. CASE UNCHANGED db /\ req' = [req EXCEPT ![c].pc = "readback"]
    <3>1. req' = [req EXCEPT ![c] = q]
      BY <2>4
    <3> HIDE DEF q
    <3> QED BY <2>1, <2>2, <2>4, <3>1, RequestKeepsFresh
  <2>5. ASSUME NEW x, db' = [db EXCEPT ![t][req[c].type][req[c].name] = x],
               req' = [Dirtied(req, t) EXCEPT ![c].pc = "readback"]
        PROVE  FreshInv'
    <3>1. Dirtied(req, t)[c] = req[c]
      BY <2>1 DEF Dirtied
    <3>2. req' = [Dirtied(req, t) EXCEPT ![c] = q]
      BY <2>5, <3>1
    <3>3. \A u \in Tenants \ {t} : db'[u] = db[u]
      BY <2>5 DEF TypeInv, TypeOK
    <3> HIDE DEF q
    <3> QED BY <2>1, <3>2, <3>3, EditKeepsFresh
  <2> QED BY <1>5, <2>3, <2>4, <2>5 DEF UpsertWrite
<1>6. ASSUME NEW c \in Clients, UpsertReadback(c) PROVE FreshInv'
  <2> DEFINE t == req[c].tenant
             q == [req[c] EXCEPT !.pc = "invalidate"]
  <2>1. /\ req[c].pc = "readback" /\ t \in Tenants /\ UNCHANGED <<db, views>>
        /\ q.pc = "invalidate" /\ q.tenant = t
    BY <1>6 DEF UpsertReadback, TypeInv, TypeOK, RequestOK, Request
  <2>2. LoadOK(q)
    BY <2>1 DEF LoadOK
  <2>3. CASE req' = [req EXCEPT ![c].pc = "invalidate"] /\ UNCHANGED tainted
    <3>1. req' = [req EXCEPT ![c] = q]
      BY <2>3
    <3> HIDE DEF q
    <3> QED BY <2>1, <2>2, <2>3, <3>1, RequestKeepsFresh
  <2>4. CASE req' = [req EXCEPT ![c] = Idle] /\ tainted' = [tainted EXCEPT ![t] = TRUE]
    <3>1. tainted'[t] /\ \A u \in Tenants : tainted[u] => tainted'[u]
      BY <2>1, <2>4 DEF TypeInv, TypeOK
    <3> QED BY <1>a, <2>1, <2>4, <3>1, RequestKeepsFresh
  <2> QED BY <1>6, <2>3, <2>4 DEF UpsertReadback
<1>7. ASSUME NEW c \in Clients, NEW t \in Tenants, NEW type \in TypeSet, NEW n \in Names,
             Delete(c, t, type, n)
      PROVE  FreshInv'
  <2> DEFINE q == [Idle EXCEPT !.pc = "invalidate", !.tenant = t]
  <2>1. /\ q.pc = "invalidate" /\ q.tenant = t /\ req[c].pc = "idle"
        /\ UNCHANGED <<views, tainted>> /\ req' = [Dirtied(req, t) EXCEPT ![c] = q]
    BY <1>7 DEF Delete, Idle
  <2>2. \A u \in Tenants \ {t} : db'[u] = db[u]
    BY <1>7 DEF Delete, TypeInv, TypeOK
  <2> HIDE DEF q
  <2> QED BY <2>1, <2>2, EditKeepsFresh
<1>8. ASSUME NEW c \in Clients, Invalidate(c) PROVE FreshInv'
  <2> DEFINE t == req[c].tenant
  <2>1. /\ req[c].pc = "invalidate" /\ req' = [req EXCEPT ![c] = Idle]
        /\ views' = [views EXCEPT ![t] = NoView] /\ UNCHANGED <<db, tainted>>
    BY <1>8 DEF Invalidate
  <2>2. \A d \in Clients : req'[d] = IF d = c THEN Idle ELSE req[d]
    BY <2>1 DEF TypeInv, TypeOK
  <2>3. ASSUME NEW d \in Clients PROVE LoadOK(req[d])'
    <3>1. LoadOK(req'[d])
      BY <1>a, <2>2 DEF FreshInv
    <3> QED BY <2>1, <3>1 DEF LoadOK, ListForTenant
  <2>4. ASSUME NEW u \in Tenants, views'[u] # NoView, ~tainted'[u], ~InvalidationDue(u)'
        PROVE  views'[u] = CurrentView(u)'
    <3>1. CurrentView(u)' = CurrentView(u)
      BY <2>1 DEF CurrentView, ListForTenant
    <3>2. u # t /\ views'[u] = views[u]
      BY <2>1, <2>4 DEF TypeInv, TypeOK
    <3>3. ~InvalidationDue(u)
      BY <2>1, <2>2, <2>4, <3>2 DEF InvalidationDue
    <3> QED BY <2>1, <2>4, <3>1, <3>2, <3>3 DEF FreshInv, FreshUnlessOverlapped
  <2> QED BY <2>3, <2>4 DEF FreshInv, FreshUnlessOverlapped
<1>9. CASE Restart
  BY <1>9, <1>a DEF Restart, FreshInv, FreshUnlessOverlapped, LoadOK
<1>10. CASE UNCHANGED <<db, views, tainted, req>>
  <2>1. \A c \in Clients : LoadOK(req[c])' <=> LoadOK(req[c])
    BY <1>10 DEF LoadOK, ListForTenant
  <2>2. \A t : CurrentView(t)' = CurrentView(t)
    BY <1>10 DEF CurrentView, ListForTenant
  <2>3. \A t : InvalidationDue(t)' <=> InvalidationDue(t)
    BY <1>10 DEF InvalidationDue
  <2>4. FreshUnlessOverlapped'
    BY <1>10, <2>2, <2>3 DEF FreshInv, FreshUnlessOverlapped
  <2> QED BY <2>1, <2>4 DEF FreshInv
<1> QED
  BY <1>1, <1>2, <1>3, <1>4, <1>5, <1>6, <1>7, <1>8, <1>9, <1>10
     DEF Next, CacheStep, EditStep, GetHit, vars

(* A cached view shows the tenant's current entries unless an edit of the  *)
(* tenant has yet to invalidate it, or the view was loaded while an edit   *)
(* committed, or an edit failed between its commit and its invalidation.   *)
THEOREM RegistryViewsFresh == Spec => []FreshUnlessOverlapped
<1>1. Spec => [](TypeInv /\ FreshInv)
  BY TypeInit, TypeStep, FreshInit, FreshStep, PTL DEF Spec
<1>2. FreshInv => FreshUnlessOverlapped
  BY DEF FreshInv
<1> QED BY <1>1, <1>2, PTL
-----------------------------------------------------------------------------
(* One client and no failure: nothing comes between the steps of an edit   *)
(* or a load.  So no load is overlapped, an UPDATE finds the row that its  *)
(* SELECT found, and the row is there when it is read back.                *)

OneClient == \E c \in Clients : Clients = {c}

RowOf(q) == db[q.tenant][q.type][q.name]
NothingBetween ==
  /\ \A t \in Tenants : ~tainted[t]
  /\ \A c \in Clients :
       /\ ~req[c].dirty
       /\ req[c].pc = "write" =>
            req[c].found = IF RowOf(req[c]) = NoRow THEN NoRow ELSE RowOf(req[c]).id
       /\ req[c].pc = "readback" => RowOf(req[c]) # NoRow

LEMMA NothingBetweenStep ==
  ASSUME OneClient, ~MayFail, TypeInv, NothingBetween, [Next]_vars
  PROVE  NothingBetween'
<1>0. PICK c \in Clients : Clients = {c}
  BY DEF OneClient
<1>1. /\ req \in [Clients -> Request] /\ req[c] \in Request /\ RequestOK(req[c])
      /\ ~req[c].dirty
  BY DEF TypeInv, TypeOK, NothingBetween
<1>2. CASE UNCHANGED vars
  BY <1>2 DEF vars, NothingBetween, RowOf
<1>3. ASSUME NEW t \in Tenants, GetHit(c, t) PROVE NothingBetween'
  BY <1>3 DEF GetHit, NothingBetween, RowOf
<1>4. ASSUME NEW t \in Tenants, GetMiss(c, t) PROVE NothingBetween'
  BY <1>0, <1>1, <1>4 DEF GetMiss, NothingBetween, Idle
<1>5. CASE LoadType(c)
  <2>1. req'[c].pc \in {"load", "insert"} /\ req'[c].dirty = req[c].dirty
    BY <1>1, <1>5 DEF LoadType, Request
  <2> QED BY <1>0, <1>1, <1>5, <2>1 DEF LoadType, NothingBetween
<1>6. CASE Insert(c)
  BY <1>0, <1>1, <1>6 DEF Insert, NothingBetween, Idle
<1>7. ASSUME NEW t \in Tenants, NEW type \in TypeSet, NEW n \in Names,
             UpsertSelect(c, t, type, n)
      PROVE  NothingBetween'
  <2>1. /\ req'[c].pc = "write" /\ ~req'[c].dirty /\ req'[c].tenant = t
        /\ req'[c].type = type /\ req'[c].name = n
        /\ req'[c].found = IF db[t][type][n] = NoRow THEN NoRow ELSE db[t][type][n].id
        /\ UNCHANGED <<db, tainted>>
    BY <1>1, <1>7 DEF UpsertSelect, Idle
  <2> QED BY <1>0, <2>1 DEF NothingBetween, RowOf
<1>8. CASE UpsertWrite(c)
  <2> DEFINE q == req[c]
  <2> DEFINE row == db[q.tenant][q.type][q.name]
             id == IF row = NoRow THEN NoRow ELSE row.id
             x == [id |-> IF id = NoRow THEN edits + 1 ELSE id, content |-> edits + 1]
  <2>1. q.pc = "write" /\ q.tenant \in Tenants /\ q.type \in TypeSet /\ q.name \in Names
    BY <1>1, <1>8 DEF UpsertWrite, RequestOK
  <2>2. id = q.found
    BY <2>1 DEF NothingBetween, RowOf
  <2>3. db' = [db EXCEPT ![q.tenant][q.type][q.name] = x]
    BY <1>8, <2>2 DEF UpsertWrite
  <2>4. req' = [Dirtied(req, q.tenant) EXCEPT ![c].pc = "readback"] /\ UNCHANGED tainted
    BY <1>8, <2>2 DEF UpsertWrite
  <2>5. x # NoRow
    <3>1. row \in Rows \union {NoRow} /\ edits \in Nat
      BY <2>1 DEF TypeInv, TypeOK
    <3>2. edits + 1 \in Nat /\ id \in Nat \union {NoRow}
      BY <3>1 DEF Rows
    <3>3. x \in [id : Nat, content : Nat]
      BY <3>2
    <3> QED BY <3>3
  <2>6. Dirtied(req, q.tenant)[c] = q /\ Dirtied(req, q.tenant) \in [Clients -> Request]
    BY <1>1, <2>1, DirtiedOK DEF Dirtied
  <2>7. /\ req'[c].pc = "readback" /\ ~req'[c].dirty /\ req'[c].tenant = q.tenant
        /\ req'[c].type = q.type /\ req'[c].name = q.name
    BY <1>1, <2>4, <2>6 DEF Request
  <2> HIDE DEF x
  <2>8. db'[q.tenant][q.type][q.name] = x
    BY <2>1, <2>3 DEF TypeInv, TypeOK
  <2> QED BY <1>0, <2>4, <2>5, <2>7, <2>8 DEF NothingBetween, RowOf
<1>9. CASE UpsertReadback(c)
  <2>1. /\ req' = [req EXCEPT ![c].pc = "invalidate"] /\ UNCHANGED tainted
    <3>1. req[c].pc = "readback" /\ db[req[c].tenant][req[c].type][req[c].name] # NoRow
      BY <1>9 DEF UpsertReadback, NothingBetween, RowOf
    <3> QED BY <1>9, <3>1 DEF UpsertReadback
  <2>2. req'[c].pc = "invalidate" /\ ~req'[c].dirty
    BY <1>1, <2>1 DEF Request
  <2> QED BY <1>0, <2>1, <2>2 DEF NothingBetween
<1>10. ASSUME NEW t \in Tenants, NEW type \in TypeSet, NEW n \in Names, Delete(c, t, type, n)
       PROVE  NothingBetween'
  <2>1. req'[c] = [Idle EXCEPT !.pc = "invalidate", !.tenant = t] /\ UNCHANGED tainted
    BY <1>1, <1>10, DirtiedOK DEF Delete
  <2> QED BY <1>0, <2>1 DEF NothingBetween, Idle
<1>11. CASE Invalidate(c)
  BY <1>0, <1>1, <1>11 DEF Invalidate, NothingBetween, Idle
<1>12. ~Restart
  BY DEF Restart
<1> QED BY <1>0, <1>2, <1>3, <1>4, <1>5, <1>6, <1>7, <1>8, <1>9, <1>10, <1>11, <1>12
        DEF Next, CacheStep, EditStep

(* What the documents promise holds for requests that follow each other:   *)
(* with one client and no failing query, the next read always reflects the *)
(* latest state.  (Two clients are enough to break it.)                    *)
THEOREM OneClientReadsLatestState ==
  ASSUME OneClient, ~MayFail PROVE Spec => []NextReadReflectsLatestState
<1>1. Init => NothingBetween
  BY DEF Init, NothingBetween, Idle
<1>2. TypeInv /\ NothingBetween /\ [Next]_vars => NothingBetween'
  BY NothingBetweenStep
<1>3. FreshInv /\ NothingBetween => NextReadReflectsLatestState
  BY DEF FreshInv, FreshUnlessOverlapped, InvalidationDue, NothingBetween,
         NextReadReflectsLatestState
<1> QED BY <1>1, <1>2, <1>3, TypeInit, TypeStep, FreshInit, FreshStep, PTL DEF Spec
=============================================================================
