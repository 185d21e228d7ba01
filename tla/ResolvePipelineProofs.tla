------------------------- MODULE ResolvePipelineProofs -------------------------
(***************************************************************************)
(* For any requests, inputs, plans and cache size: what is executed is     *)
(* justified for the request it answers, no verdict is invented, and no    *)
(* rejection is lost but to a failed statement.                            *)
(***************************************************************************)
EXTENDS ResolvePipeline, TLAPS

(* The phase of a request tells what it holds.                             *)
LEMMA RequestKinds ==
  ASSUME NEW q \in RequestType
  PROVE  /\ q.pc = "synth" => q \in [pc : {"synth"}, input : Inputs, cand : {None}, res : {None}]
         /\ q.pc = "llm" => q \in [pc : {"llm"}, input : Inputs, cand : Candidates, res : {None}]
         /\ q.pc = "execute" =>
              q \in [pc : {"execute"}, input : Inputs, cand : Candidates, res : Resolutions]
BY DEF RequestType, Idle

LEMMA RequestsMade ==
  /\ Idle \in RequestType /\ Idle.pc = "idle"
  /\ \A i \in Inputs :
       [pc |-> "synth", input |-> i, cand |-> None, res |-> None] \in RequestType
  /\ \A i \in Inputs, cand \in Candidates :
       /\ [pc |-> "llm", input |-> i, cand |-> cand, res |-> None] \in RequestType
       /\ \A res \in Resolutions :
            [pc |-> "execute", input |-> i, cand |-> cand, res |-> res] \in RequestType
BY DEF RequestType, Idle

(* The four ways a verdict comes about.                                    *)
LEMMA ResolutionsMade ==
  ASSUME NEW cand \in Candidates
  PROVE  /\ cand.plan \in Plans
         /\ Skipped(cand) \in Resolutions /\ Approved(cand) \in Resolutions
         /\ Errored(cand) \in Resolutions
         /\ \A plan \in Plans : Rerouted(cand, plan) \in Resolutions
BY DEF Candidates, Resolutions, Verdicts, Skipped, Approved, Errored, Rerouted

LEMMA KeysMade ==
  ASSUME NEW input \in Inputs, NEW cand \in Candidates
  PROVE  /\ Key(input, cand.plan) \in Keys /\ GapKey(input, cand) \in GapKeys
         /\ <<input, cand.plan>> \in Questions
BY DEF Key, Keys, GapKey, GapKeys, Questions, Candidates, Plans

(* A step of a request changes what that request holds only.               *)
LEMMA OwnRequest ==
  ASSUME req \in [Requests -> RequestType], NEW r \in Requests, NEW q \in RequestType,
         req' = [req EXCEPT ![r] = q]
  PROVE  /\ req' \in [Requests -> RequestType] /\ req'[r] = q
         /\ \A s \in Requests \ {r} : req'[s] = req[s]
OBVIOUS

-----------------------------------------------------------------------------
(* The verdict cache: a sequence of entries with one entry per key.        *)

Entries == [key : Keys, res : Resolutions]
DistinctKeys(s) == \A i, j \in 1..Len(s) : s[i].key = s[j].key => i = j
Within(s, t) == \A i \in 1..Len(s) : \E j \in 1..Len(t) : s[i] = t[j]

LEMMA ConcatFacts ==
  ASSUME NEW S, NEW a \in Seq(S), NEW b \in Seq(S)
  PROVE  /\ a \o b \in Seq(S) /\ Len(a \o b) = Len(a) + Len(b)
         /\ \A i \in 1..(Len(a) + Len(b)) :
              (a \o b)[i] = IF i <= Len(a) THEN a[i] ELSE b[i - Len(a)]
OBVIOUS

LEMMA RemoveAtFacts ==
  ASSUME NEW S, NEW s \in Seq(S), NEW k \in 1..Len(s)
  PROVE  /\ RemoveAt(s, k) \in Seq(S) /\ Len(RemoveAt(s, k)) = Len(s) - 1
         /\ \A i \in 1..(Len(s) - 1) : RemoveAt(s, k)[i] = IF i < k THEN s[i] ELSE s[i + 1]
<1> DEFINE a == SubSeq(s, 1, k - 1)  b == SubSeq(s, k + 1, Len(s))
<1>1. a \in Seq(S) /\ Len(a) = k - 1 /\ \A i \in 1..(k - 1) : a[i] = s[i]
  OBVIOUS
<1>2. b \in Seq(S) /\ Len(b) = Len(s) - k /\ \A i \in 1..(Len(s) - k) : b[i] = s[i + k]
  <2>1. Len(s) \in Nat /\ k \in Nat
    OBVIOUS
  <2>2. b \in Seq(S) /\ Len(b) = Len(s) - k
    OBVIOUS
  <2>3. ASSUME NEW i \in 1..(Len(s) - k) PROVE b[i] = s[i + k]
    <3>1. b[i] = s[(k + 1) + i - 1]
      OBVIOUS
    <3>2. (k + 1) + i - 1 = i + k
      BY <2>1
    <3> QED BY <3>1, <3>2
  <2> QED BY <2>2, <2>3
<1> HIDE DEF a, b
<1>3. RemoveAt(s, k) = a \o b
  BY DEF RemoveAt, a, b
<1>4. /\ a \o b \in Seq(S) /\ Len(a \o b) = Len(a) + Len(b)
      /\ \A i \in 1..(Len(a) + Len(b)) :
           (a \o b)[i] = IF i <= Len(a) THEN a[i] ELSE b[i - Len(a)]
  BY <1>1, <1>2, ConcatFacts
<1>5. Len(a) + Len(b) = Len(s) - 1 /\ k \in Int /\ Len(s) \in Nat
  BY <1>1, <1>2
<1>6. ASSUME NEW i \in 1..(Len(s) - 1)
      PROVE  (a \o b)[i] = IF i < k THEN s[i] ELSE s[i + 1]
  <2>1. CASE i < k
    BY <1>1, <1>4, <1>5, <2>1
  <2>2. CASE i >= k
    <3>1. (a \o b)[i] = b[i - (k - 1)] /\ i - (k - 1) \in 1..(Len(s) - k)
      BY <1>1, <1>4, <1>5, <2>2
    <3>2. (i - (k - 1)) + k = i + 1
      OBVIOUS
    <3>3. b[i - (k - 1)] = s[(i - (k - 1)) + k]
      BY <1>2, <3>1
    <3>4. (a \o b)[i] = s[i + 1] /\ ~(i < k)
      BY <1>5, <2>2, <3>1, <3>2, <3>3
    <3> QED BY <3>4
  <2> QED BY <1>5, <2>1, <2>2
<1> QED BY <1>3, <1>4, <1>5, <1>6

LEMMA OthersFacts ==
  ASSUME verdicts \in Seq(Entries), DistinctKeys(verdicts), NEW key
  PROVE  /\ Others(key) \in Seq(Entries) /\ DistinctKeys(Others(key))
         /\ Within(Others(key), verdicts) /\ Len(Others(key)) <= Len(verdicts)
         /\ Cached(key) # {} => Len(Others(key)) = Len(verdicts) - 1
         /\ \A i \in 1..Len(Others(key)) : Others(key)[i].key # key
<1>1. CASE Cached(key) = {}
  BY <1>1 DEF Others, Cached, Within
<1>2. CASE Cached(key) # {}
  <2> DEFINE k == CHOOSE i \in Cached(key) : TRUE
             rest == RemoveAt(verdicts, k)
             at(i) == IF i < k THEN i ELSE i + 1
  <2>1. k \in 1..Len(verdicts) /\ verdicts[k].key = key
    BY <1>2 DEF Cached
  <2>2. Others(key) = rest
    BY <1>2 DEF Others
  <2> HIDE DEF k
  <2>3. /\ rest \in Seq(Entries) /\ Len(rest) = Len(verdicts) - 1
        /\ \A i \in 1..(Len(verdicts) - 1) :
             rest[i] = IF i < k THEN verdicts[i] ELSE verdicts[i + 1]
    BY <2>1, RemoveAtFacts
  <2> HIDE DEF rest
  <2>4. \A i \in 1..Len(rest) : /\ rest[i] = verdicts[at(i)]
                                /\ at(i) \in 1..Len(verdicts) /\ at(i) # k
    BY <2>1, <2>3
  <2>5. \A i, j \in 1..Len(rest) : at(i) = at(j) => i = j
    BY <2>1, <2>3
  <2> HIDE DEF at
  <2>6. DistinctKeys(rest)
    BY <2>4, <2>5 DEF DistinctKeys
  <2>7. \A i \in 1..Len(rest) : rest[i].key # key
    BY <2>1, <2>4 DEF DistinctKeys
  <2>8. Within(rest, verdicts)
    BY <2>4 DEF Within
  <2> QED BY <2>2, <2>3, <2>6, <2>7, <2>8
<1> QED BY <1>1, <1>2

(* Appending an entry with a key of its own.                               *)
LEMMA AppendFacts ==
  ASSUME NEW s \in Seq(Entries), DistinctKeys(s), NEW e \in Entries,
         \A i \in 1..Len(s) : s[i].key # e.key
  PROVE  /\ Append(s, e) \in Seq(Entries) /\ DistinctKeys(Append(s, e))
         /\ Len(Append(s, e)) = Len(s) + 1
         /\ \A i \in 1..(Len(s) + 1) : Append(s, e)[i] = IF i = Len(s) + 1 THEN e ELSE s[i]
<1> DEFINE a == Append(s, e)
<1>1. /\ a \in Seq(Entries) /\ Len(a) = Len(s) + 1 /\ Len(s) \in Nat
      /\ \A i \in 1..(Len(s) + 1) : a[i] = IF i = Len(s) + 1 THEN e ELSE s[i]
  OBVIOUS
<1> HIDE DEF a
<1>2. DistinctKeys(a)
  <2>1. SUFFICES ASSUME NEW i \in 1..Len(a), NEW j \in 1..Len(a), a[i].key = a[j].key
                 PROVE  i = j
    BY DEF DistinctKeys
  <2>2. CASE i = Len(s) + 1 \/ j = Len(s) + 1
    BY <1>1, <2>1, <2>2
  <2>3. CASE i # Len(s) + 1 /\ j # Len(s) + 1
    BY <1>1, <2>1, <2>3 DEF DistinctKeys
  <2> QED BY <2>2, <2>3
<1> QED BY <1>1, <1>2 DEF a

LEMMA TouchFacts ==
  ASSUME verdicts \in Seq(Entries), DistinctKeys(verdicts), NEW key, NEW k \in Cached(key)
  PROVE  /\ Touch(verdicts[k]) \in Seq(Entries) /\ DistinctKeys(Touch(verdicts[k]))
         /\ Len(Touch(verdicts[k])) = Len(verdicts) /\ Within(Touch(verdicts[k]), verdicts)
<1> DEFINE e == verdicts[k]
           s == Others(key)
<1>1. k \in 1..Len(verdicts) /\ e \in Entries /\ e.key = key /\ Cached(key) # {}
  BY DEF Cached
<1>2. Touch(e) = Append(s, e)
  BY <1>1 DEF Touch
<1>3. /\ s \in Seq(Entries) /\ DistinctKeys(s) /\ Within(s, verdicts)
      /\ Len(s) = Len(verdicts) - 1 /\ \A i \in 1..Len(s) : s[i].key # e.key
  BY <1>1, OthersFacts
<1> HIDE DEF s
<1>4. /\ Append(s, e) \in Seq(Entries) /\ DistinctKeys(Append(s, e))
      /\ Len(Append(s, e)) = Len(s) + 1
      /\ \A i \in 1..(Len(s) + 1) : Append(s, e)[i] = IF i = Len(s) + 1 THEN e ELSE s[i]
  BY <1>1, <1>3, AppendFacts
<1>5. Within(Append(s, e), verdicts)
  BY <1>1, <1>3, <1>4 DEF Within
<1>6. Len(s) + 1 = Len(verdicts)
  BY <1>3
<1> QED BY <1>2, <1>4, <1>5, <1>6

LEMMA PutFacts ==
  ASSUME verdicts \in Seq(Entries), DistinctKeys(verdicts), Len(verdicts) <= CacheSize,
         NEW key \in Keys, NEW res \in Resolutions
  PROVE  /\ Put(key, res) \in Seq(Entries) /\ DistinctKeys(Put(key, res))
         /\ Len(Put(key, res)) <= CacheSize
         /\ \A i \in 1..Len(Put(key, res)) :
              \/ Put(key, res)[i] = [key |-> key, res |-> res]
              \/ \E j \in 1..Len(verdicts) : Put(key, res)[i] = verdicts[j]
<1> DEFINE e == [key |-> key, res |-> res]
           s == Others(key)
           a == Append(s, e)
<1>1. e \in Entries /\ e.key = key
  BY DEF Entries
<1>2. /\ s \in Seq(Entries) /\ DistinctKeys(s) /\ Within(s, verdicts)
      /\ Len(s) <= Len(verdicts) /\ \A i \in 1..Len(s) : s[i].key # key
  BY OthersFacts
<1>3. Put(key, res) = IF Len(a) > CacheSize THEN Tail(a) ELSE a
  BY DEF Put
<1> HIDE DEF s, e
<1>4. /\ a \in Seq(Entries) /\ DistinctKeys(a) /\ Len(a) = Len(s) + 1
      /\ \A i \in 1..(Len(s) + 1) : a[i] = IF i = Len(s) + 1 THEN e ELSE s[i]
  BY <1>1, <1>2, AppendFacts
<1> HIDE DEF a
<1>5. \A i \in 1..Len(a) : a[i] = e \/ \E j \in 1..Len(verdicts) : a[i] = verdicts[j]
  BY <1>2, <1>4 DEF Within
<1>6. CASE Len(a) > CacheSize
  <2> DEFINE t == Tail(a)
  <2>1. /\ t \in Seq(Entries) /\ Len(t) = Len(a) - 1 /\ Len(a) \in Nat
        /\ \A i \in 1..Len(t) : t[i] = a[i + 1]
    BY <1>4
  <2> HIDE DEF t
  <2>2. DistinctKeys(t)
    <3>1. SUFFICES ASSUME NEW i \in 1..Len(t), NEW j \in 1..Len(t), t[i].key = t[j].key
                   PROVE  i = j
      BY DEF DistinctKeys
    <3>2. i + 1 \in 1..Len(a) /\ j + 1 \in 1..Len(a) /\ a[i + 1].key = a[j + 1].key
      BY <2>1, <3>1
    <3>3. i + 1 = j + 1
      BY <1>4, <3>2 DEF DistinctKeys
    <3> QED BY <3>3
  <2>3. Len(t) <= CacheSize
    BY <1>2, <1>4, <2>1, PipelineAssumption
  <2>4. \A i \in 1..Len(t) : t[i] = e \/ \E j \in 1..Len(verdicts) : t[i] = verdicts[j]
    <3>1. \A i \in 1..Len(t) : i + 1 \in 1..Len(a)
      BY <2>1
    <3> QED BY <1>5, <2>1, <3>1
  <2> QED BY <1>3, <1>6, <2>1, <2>2, <2>3, <2>4 DEF t, e
<1>7. CASE ~(Len(a) > CacheSize)
  <2>1. Len(a) <= CacheSize
    BY <1>4, <1>7, PipelineAssumption
  <2> QED BY <1>3, <1>4, <1>5, <1>7, <2>1 DEF e
<1> QED BY <1>6, <1>7

-----------------------------------------------------------------------------
(* Type correctness, with the bound and the distinct keys of the cache.    *)

CacheInv == DistinctKeys(verdicts) /\ Len(verdicts) <= CacheSize
TypeInv == TypeOK /\ CacheInv

(* What the verifier does before it calls the model.                       *)
LEMMA VerifyFacts ==
  ASSUME TypeInv, NEW r \in Requests, NEW input \in Inputs, NEW cand \in Candidates,
         Verify(r, input, cand)
  PROVE  /\ verdicts' \in Seq(Entries) /\ CacheInv' /\ Within(verdicts', verdicts)
         /\ calls' \in [Questions -> Nat] /\ \A x \in Questions : calls'[x] >= calls[x]
         /\ \E q \in RequestType :
              /\ req' = [req EXCEPT ![r] = q] /\ q.input = input /\ q.cand = cand
              /\ \/ q.pc = "llm" /\ calls'[<<input, cand.plan>>] > 0
                 \/ q.pc = "execute" /\ q.res = Skipped(cand)
                 \/ q.pc = "execute" /\ \E i \in Cached(Key(input, cand.plan)) : q.res = verdicts[i].res
<1>1. verdicts \in Seq(Entries) /\ calls \in [Questions -> Nat]
  BY DEF TypeInv, TypeOK, Entries
<1>2. Within(verdicts, verdicts) /\ \A x \in Questions : calls[x] >= calls[x]
  BY <1>1 DEF Within
<1> DEFINE made(pc, res) == [pc |-> pc, input |-> input, cand |-> cand, res |-> res]
<1>3. CASE /\ Goto(r, "execute", input, cand, Skipped(cand)) /\ UNCHANGED <<verdicts, calls>>
  <2>1. made("execute", Skipped(cand)) \in RequestType
    BY RequestsMade, ResolutionsMade
  <2>2. req' = [req EXCEPT ![r] = made("execute", Skipped(cand))]
    BY <1>3 DEF Goto
  <2>3. CacheInv'
    BY <1>3 DEF TypeInv, CacheInv, DistinctKeys
  <2>4. made("execute", Skipped(cand)).input = input /\ made("execute", Skipped(cand)).cand = cand
        /\ made("execute", Skipped(cand)).pc = "execute"
        /\ made("execute", Skipped(cand)).res = Skipped(cand)
    OBVIOUS
  <2> HIDE DEF made
  <2> QED BY <1>1, <1>2, <1>3, <2>1, <2>2, <2>3, <2>4
<1>4. CASE /\ UNCHANGED calls
           /\ \E i \in Cached(Key(input, cand.plan)) :
                Goto(r, "execute", input, cand, verdicts[i].res) /\ verdicts' = Touch(verdicts[i])
  <2>1. PICK i \in Cached(Key(input, cand.plan)) :
          Goto(r, "execute", input, cand, verdicts[i].res) /\ verdicts' = Touch(verdicts[i])
    BY <1>4
  <2> DEFINE res == verdicts[i].res
  <2>2. res \in Resolutions
    <3>1. i \in 1..Len(verdicts)
      BY DEF Cached
    <3>2. verdicts[i] \in Entries
      BY <1>1, <3>1
    <3> QED BY <3>2 DEF Entries
  <2>3. made("execute", res) \in RequestType /\ req' = [req EXCEPT ![r] = made("execute", res)]
    BY <2>1, <2>2, RequestsMade DEF Goto
  <2>4. /\ Touch(verdicts[i]) \in Seq(Entries) /\ DistinctKeys(Touch(verdicts[i]))
        /\ Len(Touch(verdicts[i])) = Len(verdicts) /\ Within(Touch(verdicts[i]), verdicts)
    BY <1>1, TouchFacts DEF TypeInv, CacheInv
  <2>5. verdicts' \in Seq(Entries) /\ Within(verdicts', verdicts)
    BY <2>1, <2>4
  <2>6. CacheInv'
    BY <2>1, <2>4 DEF TypeInv, CacheInv, DistinctKeys
  <2>7. made("execute", res).input = input /\ made("execute", res).cand = cand
        /\ made("execute", res).pc = "execute" /\ made("execute", res).res = res
    OBVIOUS
  <2> HIDE DEF made
  <2> QED BY <1>1, <1>2, <1>4, <2>3, <2>5, <2>6, <2>7
<1>5. CASE /\ Goto(r, "llm", input, cand, None) /\ UNCHANGED verdicts
           /\ calls' = [calls EXCEPT ![<<input, cand.plan>>] = @ + 1]
  <2>1. made("llm", None) \in RequestType /\ req' = [req EXCEPT ![r] = made("llm", None)]
    BY <1>5, RequestsMade DEF Goto
  <2>2. <<input, cand.plan>> \in Questions
    BY KeysMade
  <2>3. /\ calls' \in [Questions -> Nat] /\ \A x \in Questions : calls'[x] >= calls[x]
        /\ calls'[<<input, cand.plan>>] > 0
    <3> DEFINE asked == <<input, cand.plan>>
    <3>1. asked \in Questions /\ calls' = [calls EXCEPT ![asked] = @ + 1]
      BY <1>5, <2>2
    <3> HIDE DEF asked
    <3>2. \A x \in Questions : calls[x] \in Nat /\ calls'[x] = IF x = asked THEN calls[x] + 1 ELSE calls[x]
      BY <1>1, <3>1
    <3>3. calls' \in [Questions -> Nat]
      BY <1>1, <3>1
    <3>4. calls'[asked] > 0
      BY <3>1, <3>2
    <3> QED BY <3>2, <3>3, <3>4 DEF asked
  <2>4. CacheInv'
    BY <1>5 DEF TypeInv, CacheInv, DistinctKeys
  <2>5. made("llm", None).input = input /\ made("llm", None).cand = cand /\ made("llm", None).pc = "llm"
    OBVIOUS
  <2> HIDE DEF made
  <2> QED BY <1>1, <1>2, <1>5, <2>1, <2>3, <2>4, <2>5
<1> QED BY <1>3, <1>4, <1>5 DEF Verify

(* A reply that is a verdict: the request executes it and the cache has it.*)
LEMMA VerdictFacts ==
  ASSUME TypeInv, NEW r \in Requests, req[r].pc = "llm", NEW res \in Resolutions,
         Resolve(r, res), verdicts' = Put(Key(req[r].input, req[r].cand.plan), res)
  PROVE  /\ verdicts' \in Seq(Entries) /\ CacheInv'
         /\ \A i \in 1..Len(verdicts') :
              \/ verdicts'[i] = [key |-> Key(req[r].input, req[r].cand.plan), res |-> res]
              \/ \E j \in 1..Len(verdicts) : verdicts'[i] = verdicts[j]
<1>1. req[r].input \in Inputs /\ req[r].cand \in Candidates
  BY RequestKinds DEF TypeInv, TypeOK
<1>2. Key(req[r].input, req[r].cand.plan) \in Keys
  BY <1>1, KeysMade
<1> DEFINE v == Put(Key(req[r].input, req[r].cand.plan), res)
<1>3. /\ v \in Seq(Entries) /\ DistinctKeys(v) /\ Len(v) <= CacheSize
      /\ \A i \in 1..Len(v) :
           \/ v[i] = [key |-> Key(req[r].input, req[r].cand.plan), res |-> res]
           \/ \E j \in 1..Len(verdicts) : v[i] = verdicts[j]
  BY <1>2, PutFacts DEF TypeInv, TypeOK, CacheInv, Entries
<1> HIDE DEF v
<1>4. verdicts' = v
  BY DEF v
<1>5. CacheInv'
  BY <1>3, <1>4 DEF CacheInv, DistinctKeys
<1> QED BY <1>3, <1>4, <1>5

(* The request that resolved.                                              *)
LEMMA ResolveFacts ==
  ASSUME TypeInv, NEW r \in Requests, req[r].pc = "llm", NEW res \in Resolutions, Resolve(r, res)
  PROVE  /\ req' \in [Requests -> RequestType]
         /\ req'[r].pc = "execute" /\ req'[r].input = req[r].input /\ req'[r].cand = req[r].cand
         /\ req'[r].res = res /\ \A s \in Requests \ {r} : req'[s] = req[s]
<1>1. req[r].input \in Inputs /\ req[r].cand \in Candidates /\ req \in [Requests -> RequestType]
  BY RequestKinds DEF TypeInv, TypeOK
<1> DEFINE q == [pc |-> "execute", input |-> req[r].input, cand |-> req[r].cand, res |-> res]
<1>2. q \in RequestType /\ req' = [req EXCEPT ![r] = q]
  BY <1>1, RequestsMade DEF Resolve, Goto
<1>3. q.pc = "execute" /\ q.input = req[r].input /\ q.cand = req[r].cand /\ q.res = res
  OBVIOUS
<1> HIDE DEF q
<1> QED BY <1>1, <1>2, <1>3, OwnRequest

(* The steps of gap tasks, in numbers.                                     *)
LEMMA MoveFacts ==
  ASSUME tasks \in [GapKeys -> [TaskPhases -> Nat]], NEW k \in GapKeys,
         NEW from \in TaskPhases, NEW to \in TaskPhases, from # to, tasks[k][from] > 0,
         Move(k, from, to)
  PROVE  /\ tasks' \in [GapKeys -> [TaskPhases -> Nat]]
         /\ tasks'[k][from] = tasks[k][from] - 1 /\ tasks'[k][to] = tasks[k][to] + 1
         /\ \A p \in TaskPhases \ {from, to} : tasks'[k][p] = tasks[k][p]
         /\ \A j \in GapKeys \ {k} : tasks'[j] = tasks[j]
<1> DEFINE row == tasks[k]
           new == [row EXCEPT ![from] = row[from] - 1, ![to] = row[to] + 1]
<1>1. row \in [TaskPhases -> Nat] /\ row[from] - 1 \in Nat
  OBVIOUS
<1>2. new \in [TaskPhases -> Nat] /\ new[from] = row[from] - 1 /\ new[to] = row[to] + 1
      /\ \A p \in TaskPhases \ {from, to} : new[p] = row[p]
  BY <1>1
<1>3. tasks' = [tasks EXCEPT ![k] = new]
  BY DEF Move
<1> HIDE DEF new
<1> QED BY <1>2, <1>3

LEMMA DoneFacts ==
  ASSUME tasks \in [GapKeys -> [TaskPhases -> Nat]], NEW k \in GapKeys,
         NEW from \in TaskPhases, tasks[k][from] > 0, Done(k, from)
  PROVE  /\ tasks' \in [GapKeys -> [TaskPhases -> Nat]]
         /\ tasks'[k][from] = tasks[k][from] - 1
         /\ \A p \in TaskPhases \ {from} : tasks'[k][p] = tasks[k][p]
         /\ \A j \in GapKeys \ {k} : tasks'[j] = tasks[j]
<1> DEFINE row == tasks[k]
           new == [row EXCEPT ![from] = @ - 1]
<1>1. new \in [TaskPhases -> Nat] /\ new[from] = row[from] - 1
      /\ \A p \in TaskPhases \ {from} : new[p] = row[p]
  OBVIOUS
<1>2. tasks' = [tasks EXCEPT ![k] = new]
  BY DEF Done
<1> HIDE DEF new
<1> QED BY <1>1, <1>2

LEMMA RejectFacts ==
  ASSUME TypeInv, NEW r \in Requests, VerdictReject(r)
  PROVE  \E gap \in GapKeys :
           /\ tasks' \in [GapKeys -> [TaskPhases -> Nat]]
           /\ tasks'[gap]["queued"] = tasks[gap]["queued"] + 1
           /\ \A p \in TaskPhases \ {"queued"} : tasks'[gap][p] = tasks[gap][p]
           /\ \A j \in GapKeys \ {gap} : tasks'[j] = tasks[j]
           /\ rejected' \in [GapKeys -> Nat] /\ rejected'[gap] = rejected[gap] + 1
           /\ \A j \in GapKeys \ {gap} : rejected'[j] = rejected[j]
<1> DEFINE gap == GapKey(req[r].input, req[r].cand)
           row == tasks[gap]
           new == [row EXCEPT !["queued"] = @ + 1]
<1>1. req[r].input \in Inputs /\ req[r].cand \in Candidates
  BY RequestKinds DEF TypeInv, TypeOK, VerdictReject
<1>2. gap \in GapKeys
  BY <1>1, KeysMade
<1>3. /\ tasks' = [tasks EXCEPT ![gap]["queued"] = @ + 1]
      /\ rejected' = [rejected EXCEPT ![gap] = @ + 1]
  BY DEF VerdictReject
<1>4. tasks \in [GapKeys -> [TaskPhases -> Nat]] /\ rejected \in [GapKeys -> Nat]
  BY DEF TypeInv, TypeOK
<1> HIDE DEF gap
<1>5. new \in [TaskPhases -> Nat] /\ new["queued"] = row["queued"] + 1
      /\ \A p \in TaskPhases \ {"queued"} : new[p] = row[p]
  BY <1>2, <1>4 DEF TaskPhases
<1>6. tasks' = [tasks EXCEPT ![gap] = new]
  BY <1>3
<1> HIDE DEF new
<1>7. /\ tasks' \in [GapKeys -> [TaskPhases -> Nat]] /\ tasks'[gap] = new
      /\ \A j \in GapKeys \ {gap} : tasks'[j] = tasks[j]
  BY <1>2, <1>4, <1>5, <1>6
<1>8. /\ rejected' \in [GapKeys -> Nat] /\ rejected'[gap] = rejected[gap] + 1
      /\ \A j \in GapKeys \ {gap} : rejected'[j] = rejected[j]
  BY <1>2, <1>3, <1>4
<1> QED BY <1>2, <1>5, <1>7, <1>8

LEMMA TypeInit == Init => TypeInv
<1> SUFFICES ASSUME Init PROVE TypeInv
  OBVIOUS
<1>1. req \in [Requests -> RequestType]
  BY RequestsMade DEF Init
<1>2. verdicts \in Seq([key : Keys, res : Resolutions]) /\ Len(verdicts) = 0
  BY DEF Init
<1>3. CacheInv
  BY <1>2, PipelineAssumption DEF CacheInv, DistinctKeys
<1>4. /\ gaps \in [GapKeys -> Nat] /\ rejected \in [GapKeys -> Nat] /\ lost \in [GapKeys -> Nat]
      /\ calls \in [Questions -> Nat] /\ proposed \in [Questions -> SUBSET Plans]
      /\ answers \subseteq Requested
  BY DEF Init
<1>5. tasks \in [GapKeys -> [TaskPhases -> Nat]]
  BY DEF Init
<1> QED BY <1>1, <1>2, <1>3, <1>4, <1>5 DEF TypeInv, TypeOK

(* A candidate is submitted, or the synthesiser has answered.              *)
LEMMA TypeAsk ==
  ASSUME TypeInv, NEW r \in Requests, Submit(r) \/ SynthReply(r)
  PROVE  TypeInv'
<1>1. UNCHANGED <<gaps, tasks, answers, proposed, rejected, lost>>
  BY DEF Submit, SynthReply
<1>2. /\ req' \in [Requests -> RequestType] /\ verdicts' \in Seq(Entries) /\ CacheInv'
      /\ calls' \in [Questions -> Nat]
  <2>1. ASSUME NEW input \in Inputs, NEW cand \in Candidates, Verify(r, input, cand)
        PROVE  /\ req' \in [Requests -> RequestType] /\ verdicts' \in Seq(Entries) /\ CacheInv'
               /\ calls' \in [Questions -> Nat]
    <3>1. /\ verdicts' \in Seq(Entries) /\ CacheInv' /\ calls' \in [Questions -> Nat]
          /\ \E q \in RequestType : req' = [req EXCEPT ![r] = q]
      BY <2>1, VerifyFacts
    <3> QED BY <3>1 DEF TypeInv, TypeOK
  <2>2. ASSUME NEW q \in RequestType, req' = [req EXCEPT ![r] = q], UNCHANGED <<verdicts, calls>>
        PROVE  /\ req' \in [Requests -> RequestType] /\ verdicts' \in Seq(Entries) /\ CacheInv'
               /\ calls' \in [Questions -> Nat]
    BY <2>2 DEF TypeInv, TypeOK, CacheInv, DistinctKeys, Entries
  <2>3. CASE Submit(r)
    <3>1. PICK input \in Inputs, tier \in Tiers, plan \in Plans \union {None} :
            \/ /\ tier # "miss" /\ plan # None
               /\ Verify(r, input, [source |-> "cache", tier |-> tier, plan |-> plan])
            \/ /\ Goto(r, "synth", input, None, None)
               /\ UNCHANGED <<verdicts, calls>>
      BY <2>3 DEF Submit
    <3>2. plan # None => [source |-> "cache", tier |-> tier, plan |-> plan] \in Candidates
      BY DEF Candidates
    <3>3. [pc |-> "synth", input |-> input, cand |-> None, res |-> None] \in RequestType
      BY RequestsMade
    <3> QED BY <2>1, <2>2, <3>1, <3>2, <3>3 DEF Goto
  <2>4. CASE SynthReply(r)
    <3>1. req[r].input \in Inputs
      BY <2>4, RequestKinds DEF SynthReply, TypeInv, TypeOK
    <3>2. CASE req' = [req EXCEPT ![r] = Idle] /\ UNCHANGED <<verdicts, calls>>
      BY <2>2, <3>2, RequestsMade
    <3>3. CASE \E plan \in Plans :
                 Verify(r, req[r].input, [source |-> "synthesised", tier |-> "miss", plan |-> plan])
      <4>1. PICK plan \in Plans :
              Verify(r, req[r].input, [source |-> "synthesised", tier |-> "miss", plan |-> plan])
        BY <3>3
      <4>2. [source |-> "synthesised", tier |-> "miss", plan |-> plan] \in Candidates
        BY DEF Candidates, Tiers
      <4> QED BY <2>1, <3>1, <4>1, <4>2
    <3> QED BY <2>4, <3>2, <3>3 DEF SynthReply
  <2> QED BY <2>3, <2>4
<1> QED BY <1>1, <1>2 DEF TypeInv, TypeOK, Entries

LEMMA TypeVerdict ==
  ASSUME TypeInv, NEW r \in Requests,
         VerdictApprove(r) \/ VerdictReject(r) \/ VerdictRaises(r) \/ VerifierTimeout(r)
  PROVE  TypeInv'
<1>1. /\ req[r].pc = "llm" /\ req[r].input \in Inputs /\ req[r].cand \in Candidates
      /\ req[r].cand.plan \in Plans
  BY RequestKinds, ResolutionsMade
     DEF TypeInv, TypeOK, VerdictApprove, VerdictReject, VerdictRaises, VerifierTimeout
<1>2. CASE VerdictApprove(r)
  <2>1. PICK res \in {Approved(req[r].cand), Errored(req[r].cand)} :
          Resolve(r, res) /\ verdicts' = Put(Key(req[r].input, req[r].cand.plan), res)
    BY <1>2 DEF VerdictApprove
  <2>2. res \in Resolutions
    BY <1>1, ResolutionsMade
  <2>3. req' \in [Requests -> RequestType] /\ verdicts' \in Seq(Entries) /\ CacheInv'
    BY <1>1, <2>1, <2>2, ResolveFacts, VerdictFacts
  <2> QED BY <1>2, <2>3 DEF VerdictApprove, histories, TypeInv, TypeOK, Entries
<1>3. CASE VerdictReject(r)
  <2>1. PICK plan \in Plans :
          /\ Resolve(r, Rerouted(req[r].cand, plan))
          /\ verdicts' = Put(Key(req[r].input, req[r].cand.plan), Rerouted(req[r].cand, plan))
          /\ proposed' = [proposed EXCEPT ![<<req[r].input, req[r].cand.plan>>] = @ \union {plan}]
    BY <1>3 DEF VerdictReject
  <2>2. Rerouted(req[r].cand, plan) \in Resolutions /\ <<req[r].input, req[r].cand.plan>> \in Questions
    BY <1>1, ResolutionsMade, KeysMade
  <2>3. req' \in [Requests -> RequestType] /\ verdicts' \in Seq(Entries) /\ CacheInv'
    BY <1>1, <2>1, <2>2, ResolveFacts, VerdictFacts
  <2>4. proposed' \in [Questions -> SUBSET Plans]
    BY <2>1, <2>2 DEF TypeInv, TypeOK
  <2>5. tasks' \in [GapKeys -> [TaskPhases -> Nat]] /\ rejected' \in [GapKeys -> Nat]
    BY <1>3, RejectFacts
  <2> QED BY <1>3, <2>3, <2>4, <2>5 DEF VerdictReject, TypeInv, TypeOK, Entries
<1>4. CASE VerdictRaises(r)
  <2>1. req' \in [Requests -> RequestType]
    BY <1>4, RequestsMade DEF VerdictRaises, TypeInv, TypeOK
  <2> QED BY <1>4, <2>1 DEF VerdictRaises, histories, TypeInv, TypeOK, CacheInv, DistinctKeys
<1>5. CASE VerifierTimeout(r)
  <2>1. req' \in [Requests -> RequestType]
    BY <1>1, <1>5, ResolutionsMade, ResolveFacts DEF VerifierTimeout
  <2> QED BY <1>5, <2>1 DEF VerifierTimeout, histories, TypeInv, TypeOK, CacheInv, DistinctKeys
<1> QED BY <1>2, <1>3, <1>4, <1>5

LEMMA TypeExecute ==
  ASSUME TypeInv, NEW r \in Requests, Execute(r)
  PROVE  TypeInv'
<1>1. req[r].input \in Inputs /\ req[r].cand \in Candidates /\ req[r].res \in Resolutions
  BY RequestKinds DEF Execute, TypeInv, TypeOK
<1>2. answers' \subseteq Requested
  BY <1>1 DEF Execute, Requested, TypeInv, TypeOK
<1>3. req' \in [Requests -> RequestType]
  BY RequestsMade DEF Execute, TypeInv, TypeOK
<1> QED BY <1>2, <1>3 DEF Execute, TypeInv, TypeOK, CacheInv, DistinctKeys

LEMMA TypeGap ==
  ASSUME TypeInv, NEW k \in GapKeys, GapStep(k)
  PROVE  TypeInv'
<1> USE DEF TypeInv, TypeOK
<1>1. UNCHANGED <<req, verdicts, queries, answers, calls, proposed, rejected>>
  BY DEF GapStep, GapSelect, GapUpdate, GapInsert, GapFails, histories
<1>2. CacheInv'
  BY <1>1 DEF CacheInv, DistinctKeys
<1>3. tasks' \in [GapKeys -> [TaskPhases -> Nat]]
  <2>1. CASE GapSelect(k)
    <3>1. PICK to \in {"insert", "update"} : Move(k, "queued", to)
      BY <2>1 DEF GapSelect
    <3> QED BY <2>1, <3>1, MoveFacts DEF GapSelect, TaskPhases
  <2>2. CASE GapUpdate(k) \/ GapInsert(k)
    BY <2>2, DoneFacts DEF GapUpdate, GapInsert, TaskPhases
  <2>3. CASE GapFails(k)
    BY <2>3, DoneFacts DEF GapFails
  <2> QED BY <2>1, <2>2, <2>3 DEF GapStep
<1>4. gaps' \in [GapKeys -> Nat] /\ lost' \in [GapKeys -> Nat]
  <2>1. CASE GapSelect(k)
    BY <2>1 DEF GapSelect, histories
  <2>2. CASE GapUpdate(k)
    BY <2>2 DEF GapUpdate, histories
  <2>3. CASE GapInsert(k)
    <3>1. CASE gaps' = [gaps EXCEPT ![k] = 1] /\ UNCHANGED lost
      BY <3>1
    <3>2. CASE lost' = [lost EXCEPT ![k] = @ + 1] /\ UNCHANGED gaps
      <4>1. lost[k] + 1 \in Nat
        OBVIOUS
      <4> QED BY <3>2, <4>1
    <3> QED BY <2>3, <3>1, <3>2 DEF GapInsert
  <2>4. CASE GapFails(k)
    <3>1. lost[k] + 1 \in Nat
      OBVIOUS
    <3> QED BY <2>4, <3>1 DEF GapFails
  <2> QED BY <2>1, <2>2, <2>3, <2>4 DEF GapStep
<1> QED BY <1>1, <1>2, <1>3, <1>4

LEMMA TypeStep == TypeInv /\ [Next]_vars => TypeInv'
<1> SUFFICES ASSUME TypeInv, [Next]_vars PROVE TypeInv'
  OBVIOUS
<1>1. CASE UNCHANGED vars
  BY <1>1 DEF vars, TypeInv, TypeOK, CacheInv, DistinctKeys
<1> QED BY <1>1, TypeAsk, TypeVerdict, TypeExecute, TypeGap DEF Next, RequestStep

(* The variables of the pipeline keep their types.                         *)
THEOREM PipelineTypeOK == Spec => []TypeOK
<1>1. TypeInv => TypeOK
  BY DEF TypeInv
<1> QED BY <1>1, TypeInit, TypeStep, PTL DEF Spec

-----------------------------------------------------------------------------
(* Every rejection is counted, on its way, or lost: each step of a task    *)
(* moves one unit between two terms of the sum.                            *)
Row(k, queued, insert, update) ==
  /\ tasks'[k]["queued"] = queued /\ tasks'[k]["insert"] = insert /\ tasks'[k]["update"] = update
  /\ \A j \in GapKeys \ {k} : tasks'[j] = tasks[j]

LEMMA GapsStep == TypeInv /\ GapsAccounted /\ [Next]_vars => GapsAccounted'
<1> SUFFICES ASSUME TypeInv, GapsAccounted, [Next]_vars PROVE GapsAccounted'
  OBVIOUS
<1>1. tasks \in [GapKeys -> [TaskPhases -> Nat]] /\ gaps \in [GapKeys -> Nat]
      /\ rejected \in [GapKeys -> Nat] /\ lost \in [GapKeys -> Nat]
  BY DEF TypeInv, TypeOK
<1>2. ASSUME NEW k \in GapKeys
      PROVE  /\ gaps[k] \in Nat /\ lost[k] \in Nat /\ rejected[k] \in Nat
             /\ tasks[k]["queued"] \in Nat /\ tasks[k]["insert"] \in Nat /\ tasks[k]["update"] \in Nat
             /\ gaps[k] + lost[k] + tasks[k]["queued"] + tasks[k]["insert"] + tasks[k]["update"]
                  = rejected[k]
  BY <1>1 DEF TaskPhases, GapsAccounted
<1>3. CASE UNCHANGED <<gaps, tasks, rejected, lost>>
  BY <1>3 DEF GapsAccounted
<1>4. ASSUME NEW r \in Requests, RequestStep(r), ~VerdictReject(r)
      PROVE  UNCHANGED <<gaps, tasks, rejected, lost>>
  BY <1>4 DEF RequestStep, Submit, SynthReply, VerdictApprove, VerdictRaises, VerifierTimeout,
              Execute, histories
(* It is enough to look at the row of the gap a step is about. *)
<1>5. ASSUME NEW k \in GapKeys,
             gaps'[k] + lost'[k] + tasks'[k]["queued"] + tasks'[k]["insert"] + tasks'[k]["update"]
               = rejected'[k],
             \A j \in GapKeys \ {k} : /\ gaps'[j] = gaps[j] /\ lost'[j] = lost[j]
                                      /\ tasks'[j] = tasks[j] /\ rejected'[j] = rejected[j]
      PROVE  GapsAccounted'
  BY <1>5 DEF GapsAccounted
<1>6. ASSUME NEW r \in Requests, VerdictReject(r) PROVE GapsAccounted'
  <2>1. PICK k \in GapKeys :
           /\ tasks'[k]["queued"] = tasks[k]["queued"] + 1
           /\ \A p \in TaskPhases \ {"queued"} : tasks'[k][p] = tasks[k][p]
           /\ \A j \in GapKeys \ {k} : tasks'[j] = tasks[j]
           /\ rejected'[k] = rejected[k] + 1
           /\ \A j \in GapKeys \ {k} : rejected'[j] = rejected[j]
    BY <1>6, RejectFacts
  <2>2. Row(k, tasks[k]["queued"] + 1, tasks[k]["insert"], tasks[k]["update"])
    BY <2>1 DEF TaskPhases, Row
  <2>3. UNCHANGED <<gaps, lost>>
    BY <1>6 DEF VerdictReject
  <2>4. gaps'[k] + lost'[k] + tasks'[k]["queued"] + tasks'[k]["insert"] + tasks'[k]["update"]
          = rejected'[k]
    BY <1>2, <2>1, <2>2, <2>3 DEF Row
  <2> QED BY <1>5, <2>1, <2>3, <2>4
<1>7. ASSUME NEW k \in GapKeys, GapSelect(k) PROVE GapsAccounted'
  <2>1. PICK to \in {"insert", "update"} : Move(k, "queued", to)
    BY <1>7 DEF GapSelect
  <2>2. /\ tasks'[k]["queued"] = tasks[k]["queued"] - 1 /\ tasks'[k][to] = tasks[k][to] + 1
        /\ \A p \in TaskPhases \ {"queued", to} : tasks'[k][p] = tasks[k][p]
        /\ \A j \in GapKeys \ {k} : tasks'[j] = tasks[j]
    BY <1>1, <1>7, <2>1, MoveFacts DEF GapSelect, TaskPhases
  <2>3. \/ Row(k, tasks[k]["queued"] - 1, tasks[k]["insert"] + 1, tasks[k]["update"])
        \/ Row(k, tasks[k]["queued"] - 1, tasks[k]["insert"], tasks[k]["update"] + 1)
    <3>1. CASE to = "insert"
      BY <2>2, <3>1 DEF TaskPhases, Row
    <3>2. CASE to = "update"
      BY <2>2, <3>2 DEF TaskPhases, Row
    <3> QED BY <3>1, <3>2
  <2>4. UNCHANGED <<gaps, rejected, lost>>
    BY <1>7 DEF GapSelect, histories
  <2>5. gaps'[k] + lost'[k] + tasks'[k]["queued"] + tasks'[k]["insert"] + tasks'[k]["update"]
          = rejected'[k]
    BY <1>2, <2>3, <2>4 DEF Row
  <2> QED BY <1>5, <2>2, <2>4, <2>5
<1>8. ASSUME NEW k \in GapKeys, GapUpdate(k) PROVE GapsAccounted'
  <2>1. /\ tasks'[k]["update"] = tasks[k]["update"] - 1
        /\ \A p \in TaskPhases \ {"update"} : tasks'[k][p] = tasks[k][p]
        /\ \A j \in GapKeys \ {k} : tasks'[j] = tasks[j]
    BY <1>1, <1>8, DoneFacts DEF GapUpdate, TaskPhases
  <2>2. Row(k, tasks[k]["queued"], tasks[k]["insert"], tasks[k]["update"] - 1)
    BY <2>1 DEF TaskPhases, Row
  <2>3. gaps'[k] = gaps[k] + 1 /\ (\A j \in GapKeys \ {k} : gaps'[j] = gaps[j])
        /\ UNCHANGED <<rejected, lost>>
    BY <1>1, <1>8 DEF GapUpdate, histories
  <2>4. gaps'[k] + lost'[k] + tasks'[k]["queued"] + tasks'[k]["insert"] + tasks'[k]["update"]
          = rejected'[k]
    BY <1>2, <2>2, <2>3 DEF Row
  <2> QED BY <1>5, <2>1, <2>3, <2>4
<1>9. ASSUME NEW k \in GapKeys, GapInsert(k) PROVE GapsAccounted'
  <2>1. /\ tasks'[k]["insert"] = tasks[k]["insert"] - 1
        /\ \A p \in TaskPhases \ {"insert"} : tasks'[k][p] = tasks[k][p]
        /\ \A j \in GapKeys \ {k} : tasks'[j] = tasks[j]
    BY <1>1, <1>9, DoneFacts DEF GapInsert, TaskPhases
  <2>2. Row(k, tasks[k]["queued"], tasks[k]["insert"] - 1, tasks[k]["update"])
    BY <2>1 DEF TaskPhases, Row
  <2>3. /\ \/ gaps'[k] = 1 /\ gaps[k] = 0 /\ lost'[k] = lost[k]
           \/ gaps'[k] = gaps[k] /\ lost'[k] = lost[k] + 1
        /\ UNCHANGED rejected
        /\ \A j \in GapKeys \ {k} : gaps'[j] = gaps[j] /\ lost'[j] = lost[j]
    <3>1. UNCHANGED rejected
      BY <1>9 DEF GapInsert
    <3>2. CASE gaps[k] = 0 /\ gaps' = [gaps EXCEPT ![k] = 1] /\ UNCHANGED lost
      BY <1>1, <3>1, <3>2
    <3>3. CASE lost' = [lost EXCEPT ![k] = @ + 1] /\ UNCHANGED gaps
      BY <1>1, <3>1, <3>3
    <3> QED BY <1>9, <3>2, <3>3 DEF GapInsert
  <2>4. gaps'[k] + lost'[k] + tasks'[k]["queued"] + tasks'[k]["insert"] + tasks'[k]["update"]
          = rejected'[k]
    BY <1>2, <2>2, <2>3 DEF Row
  <2> QED BY <1>5, <2>1, <2>3, <2>4
<1>10. UNCHANGED vars => UNCHANGED <<gaps, tasks, rejected, lost>>
  BY DEF vars
<1>11. ASSUME NEW k \in GapKeys, GapFails(k) PROVE GapsAccounted'
  <2>1. PICK from \in TaskPhases : tasks[k][from] > 0 /\ Done(k, from)
    BY <1>11 DEF GapFails
  <2>2. /\ tasks'[k][from] = tasks[k][from] - 1
        /\ \A p \in TaskPhases \ {from} : tasks'[k][p] = tasks[k][p]
        /\ \A j \in GapKeys \ {k} : tasks'[j] = tasks[j]
    BY <1>1, <2>1, DoneFacts
  <2>3. \/ Row(k, tasks[k]["queued"] - 1, tasks[k]["insert"], tasks[k]["update"])
        \/ Row(k, tasks[k]["queued"], tasks[k]["insert"] - 1, tasks[k]["update"])
        \/ Row(k, tasks[k]["queued"], tasks[k]["insert"], tasks[k]["update"] - 1)
    BY <2>2 DEF TaskPhases, Row
  <2>4. /\ lost'[k] = lost[k] + 1 /\ \A j \in GapKeys \ {k} : lost'[j] = lost[j]
        /\ UNCHANGED <<gaps, rejected>>
    BY <1>1, <1>11 DEF GapFails
  <2>5. gaps'[k] + lost'[k] + tasks'[k]["queued"] + tasks'[k]["insert"] + tasks'[k]["update"]
          = rejected'[k]
    BY <1>2, <2>3, <2>4 DEF Row
  <2> QED BY <1>5, <2>2, <2>4, <2>5
<1> QED BY <1>3, <1>4, <1>6, <1>7, <1>8, <1>9, <1>10, <1>11 DEF Next, RequestStep, GapStep

(* No rejection is dropped or counted twice, in whatever order the         *)
(* statements of concurrent gap tasks arrive, and whichever fail.          *)
THEOREM GapsAlwaysAccounted == Spec => []GapsAccounted
<1>1. Init => GapsAccounted
  BY DEF Init, GapsAccounted, TaskPhases
<1> QED BY <1>1, TypeInit, TypeStep, GapsStep, PTL DEF Spec

-----------------------------------------------------------------------------
(* What a verdict needs to be sound for a key: the plan it lets through is *)
(* the candidate's, up to the hash, or one the model proposed for a plan   *)
(* with this hash; and a verdict in the model's name has a call behind it. *)
Hashed(key, p) == p.entity = key[2] /\ p.filters = key[3]
Justified(key, res, prop) ==
  IF res.verdict = "reject"
    THEN \E p \in Plans : Hashed(key, p) /\ res.effective \in prop[<<key[1], p>>]
    ELSE Hashed(key, res.effective)
AskedAbout(key, res, cnt) ==
  res.verdict \in {"approve", "reject"} =>
    \E p \in Plans : Hashed(key, p) /\ cnt[<<key[1], p>>] > 0
Sound(key, res, prop, cnt) == Justified(key, res, prop) /\ AskedAbout(key, res, cnt)

(* The cache answers for later requests, so its entries must be as sound   *)
(* as what a request is about to execute; and a request that waits for the *)
(* model has been counted.                                                 *)
SoundEntry(e, prop, cnt) == Sound(e.key, e.res, prop, cnt)
SoundRequest(q, prop, cnt) ==
  /\ q.pc = "llm" => cnt[<<q.input, q.cand.plan>>] > 0
  /\ q.pc = "execute" => Sound(Key(q.input, q.cand.plan), q.res, prop, cnt)
SoundAnswer(a, prop, cnt) == Sound(Key(a.input, a.cand.plan), a.res, prop, cnt)
SoundInv ==
  /\ \A i \in 1..Len(verdicts) : SoundEntry(verdicts[i], proposed, calls)
  /\ \A r \in Requests : SoundRequest(req[r], proposed, calls)
  /\ \A a \in answers : SoundAnswer(a, proposed, calls)

(* Calls and proposals are only ever added.                                *)
Grown == /\ \A x \in Questions : calls'[x] >= calls[x]
         /\ \A x \in Questions : proposed[x] \subseteq proposed'[x]

LEMMA SoundKept ==
  ASSUME TypeInv, TypeInv', Grown, NEW key \in Keys, NEW res,
         Sound(key, res, proposed, calls)
  PROVE  Sound(key, res, proposed', calls')
<1>1. \A p \in Plans : <<key[1], p>> \in Questions
  BY DEF Keys, Questions
<1>2. Justified(key, res, proposed')
  BY <1>1 DEF Justified, Sound, Grown
<1>3. AskedAbout(key, res, calls')
  <2>1. \A x \in Questions : calls[x] \in Nat /\ calls'[x] \in Nat
    BY DEF TypeInv, TypeOK
  <2>2. \A p \in Plans : calls[<<key[1], p>>] > 0 => calls'[<<key[1], p>>] > 0
    BY <1>1, <2>1 DEF Grown
  <2> QED BY <2>2 DEF AskedAbout, Sound
<1> QED BY <1>2, <1>3 DEF Sound

LEMMA KeysKept ==
  ASSUME TypeInv
  PROVE  /\ \A i \in 1..Len(verdicts) : verdicts[i].key \in Keys
         /\ \A r \in Requests : req[r].pc \in {"llm", "execute"} =>
              /\ Key(req[r].input, req[r].cand.plan) \in Keys
              /\ <<req[r].input, req[r].cand.plan>> \in Questions
         /\ \A a \in answers : Key(a.input, a.cand.plan) \in Keys
<1>1. \A i \in 1..Len(verdicts) : verdicts[i] \in Entries
  <2>1. verdicts \in Seq(Entries)
    BY DEF TypeInv, TypeOK, Entries
  <2> QED BY <2>1
<1>2. ASSUME NEW r \in Requests, req[r].pc \in {"llm", "execute"}
      PROVE  req[r].input \in Inputs /\ req[r].cand \in Candidates
  BY <1>2, RequestKinds DEF TypeInv, TypeOK
<1>3. \A a \in answers : a.input \in Inputs /\ a.cand \in Candidates
  BY DEF TypeInv, TypeOK, Requested
<1> QED BY <1>1, <1>2, <1>3, KeysMade DEF Entries

(* It is enough to look at the request a step is about, and at what the    *)
(* step adds to the cache and to the answers.                              *)
LEMMA SoundFrame ==
  ASSUME TypeInv, TypeInv', Grown, SoundInv, NEW r \in Requests,
         \A s \in Requests \ {r} : req'[s] = req[s],
         SoundRequest(req'[r], proposed', calls'),
         \A i \in 1..Len(verdicts') :
            \/ \E j \in 1..Len(verdicts) : verdicts'[i] = verdicts[j]
            \/ SoundEntry(verdicts'[i], proposed', calls'),
         \A a \in answers' : a \in answers \/ SoundAnswer(a, proposed', calls')
  PROVE  SoundInv'
<1>1. \A i \in 1..Len(verdicts') : SoundEntry(verdicts'[i], proposed', calls')
  <2>1. \A j \in 1..Len(verdicts) : SoundEntry(verdicts[j], proposed', calls')
    BY SoundKept, KeysKept DEF SoundInv, SoundEntry
  <2> QED BY <2>1
<1>2. ASSUME NEW s \in Requests PROVE SoundRequest(req'[s], proposed', calls')
  <2>1. CASE s = r
    BY <2>1
  <2>2. CASE s # r
    <3>1. SoundRequest(req[s], proposed, calls) /\ req'[s] = req[s]
      BY <2>2 DEF SoundInv
    <3>2. CASE req[s].pc = "execute"
      BY <3>1, <3>2, SoundKept, KeysKept DEF SoundRequest
    <3>3. CASE req[s].pc = "llm"
      <4> DEFINE x == <<req[s].input, req[s].cand.plan>>
      <4>1. x \in Questions /\ calls[x] > 0
        BY <3>1, <3>3, KeysKept DEF SoundRequest
      <4>2. calls[x] \in Nat /\ calls'[x] \in Nat /\ calls'[x] >= calls[x]
        BY <4>1 DEF TypeInv, TypeOK, Grown
      <4>3. calls'[x] > 0
        BY <4>1, <4>2
      <4> QED BY <3>1, <3>3, <4>3 DEF SoundRequest
    <3>4. CASE req[s].pc \notin {"execute", "llm"}
      BY <3>1, <3>4 DEF SoundRequest
    <3> QED BY <3>2, <3>3, <3>4
  <2> QED BY <2>1, <2>2
<1>3. \A a \in answers' : SoundAnswer(a, proposed', calls')
  <2>1. \A a \in answers : SoundAnswer(a, proposed', calls')
    BY SoundKept, KeysKept DEF SoundInv, SoundAnswer
  <2> QED BY <2>1
<1> QED BY <1>1, <1>2, <1>3 DEF SoundInv

(* What the verifier decides without the model: the candidate's own plan,  *)
(* or what the cache holds for its key.                                    *)
LEMMA SoundVerify ==
  ASSUME TypeInv, TypeInv', SoundInv, NEW r \in Requests, NEW input \in Inputs,
         NEW cand \in Candidates, Verify(r, input, cand), UNCHANGED <<proposed, answers>>
  PROVE  SoundInv'
<1> DEFINE key == Key(input, cand.plan)
<1>1. PICK q \in RequestType :
        /\ req' = [req EXCEPT ![r] = q] /\ q.input = input /\ q.cand = cand
        /\ \/ q.pc = "llm" /\ calls'[<<input, cand.plan>>] > 0
           \/ q.pc = "execute" /\ q.res = Skipped(cand)
           \/ q.pc = "execute" /\ \E i \in Cached(key) : q.res = verdicts[i].res
  BY VerifyFacts
<1>2. Within(verdicts', verdicts) /\ \A x \in Questions : calls'[x] >= calls[x]
  BY VerifyFacts
<1>3. Grown
  BY <1>2 DEF Grown
<1>4. req'[r] = q /\ \A s \in Requests \ {r} : req'[s] = req[s]
  BY <1>1, OwnRequest DEF TypeInv, TypeOK
<1>5. SoundRequest(q, proposed', calls')
  <2>1. CASE q.pc = "llm"
    BY <1>1, <2>1 DEF SoundRequest
  <2>2. CASE q.pc = "execute" /\ q.res = Skipped(cand)
    <3>1. Sound(key, Skipped(cand), proposed', calls')
      BY DEF Sound, Justified, AskedAbout, Hashed, Key, Skipped
    <3> QED BY <1>1, <2>2, <3>1 DEF SoundRequest
  <2>3. CASE q.pc = "execute" /\ \E i \in Cached(key) : q.res = verdicts[i].res
    <3>1. PICK i \in 1..Len(verdicts) : verdicts[i].key = key /\ q.res = verdicts[i].res
      BY <2>3 DEF Cached
    <3>2. Sound(key, q.res, proposed, calls) /\ key \in Keys
      BY <3>1, KeysMade DEF SoundInv, SoundEntry
    <3>3. Sound(key, q.res, proposed', calls')
      BY <1>3, <3>2, SoundKept
    <3> QED BY <1>1, <2>3, <3>3 DEF SoundRequest
  <2> QED BY <1>1, <2>1, <2>2, <2>3
<1> QED BY <1>2, <1>3, <1>4, <1>5, SoundFrame DEF Within

LEMMA SoundAsk ==
  ASSUME TypeInv, TypeInv', SoundInv, NEW r \in Requests, Submit(r) \/ SynthReply(r)
  PROVE  SoundInv'
<1>1. UNCHANGED <<proposed, answers>>
  BY DEF Submit, SynthReply
<1>2. ASSUME NEW q \in RequestType, q.pc \notin {"llm", "execute"},
             req' = [req EXCEPT ![r] = q], UNCHANGED <<verdicts, calls>>
      PROVE  SoundInv'
  <2>1. Grown
    BY <1>1, <1>2 DEF Grown, TypeInv, TypeOK
  <2>2. req'[r] = q /\ \A s \in Requests \ {r} : req'[s] = req[s]
    BY <1>2, OwnRequest DEF TypeInv, TypeOK
  <2>3. SoundRequest(req'[r], proposed', calls')
    BY <1>2, <2>2 DEF SoundRequest
  <2> QED BY <1>1, <1>2, <2>1, <2>2, <2>3, SoundFrame
<1>3. CASE Submit(r)
  <2>1. PICK input \in Inputs, tier \in Tiers, plan \in Plans \union {None} :
          \/ /\ tier # "miss" /\ plan # None
             /\ Verify(r, input, [source |-> "cache", tier |-> tier, plan |-> plan])
          \/ /\ Goto(r, "synth", input, None, None)
             /\ UNCHANGED <<verdicts, calls>>
    BY <1>3 DEF Submit
  <2>2. plan # None => [source |-> "cache", tier |-> tier, plan |-> plan] \in Candidates
    BY DEF Candidates
  <2> DEFINE q == [pc |-> "synth", input |-> input, cand |-> None, res |-> None]
  <2>3. q \in RequestType /\ q.pc = "synth"
    BY RequestsMade
  <2>4. CASE Goto(r, "synth", input, None, None) /\ UNCHANGED <<verdicts, calls>>
    <3>1. req' = [req EXCEPT ![r] = q]
      BY <2>4 DEF Goto
    <3> HIDE DEF q
    <3> QED BY <1>2, <2>3, <2>4, <3>1
  <2> QED BY <1>1, <2>1, <2>2, <2>4, SoundVerify
<1>4. CASE SynthReply(r)
  <2>1. req[r].input \in Inputs
    BY <1>4, RequestKinds DEF SynthReply, TypeInv, TypeOK
  <2>2. CASE req' = [req EXCEPT ![r] = Idle] /\ UNCHANGED <<verdicts, calls>>
    BY <1>2, <2>2, RequestsMade
  <2>3. CASE \E plan \in Plans :
               Verify(r, req[r].input, [source |-> "synthesised", tier |-> "miss", plan |-> plan])
    <3>1. PICK plan \in Plans :
            Verify(r, req[r].input, [source |-> "synthesised", tier |-> "miss", plan |-> plan])
      BY <2>3
    <3>2. [source |-> "synthesised", tier |-> "miss", plan |-> plan] \in Candidates
      BY DEF Candidates, Tiers
    <3> QED BY <1>1, <2>1, <3>1, <3>2, SoundVerify
  <2> QED BY <1>4, <2>2, <2>3 DEF SynthReply
<1> QED BY <1>3, <1>4

(* A reply: sound for the question it answers, and so is its cache entry.  *)
LEMMA SoundReply ==
  ASSUME TypeInv, TypeInv', SoundInv, Grown, NEW r \in Requests, req[r].pc = "llm",
         NEW res \in Resolutions, Resolve(r, res), UNCHANGED answers,
         \/ UNCHANGED verdicts
         \/ verdicts' = Put(Key(req[r].input, req[r].cand.plan), res),
         Justified(Key(req[r].input, req[r].cand.plan), res, proposed')
  PROVE  SoundInv'
<1> DEFINE key == Key(req[r].input, req[r].cand.plan)
           x == <<req[r].input, req[r].cand.plan>>
<1>1. /\ req[r].input \in Inputs /\ req[r].cand \in Candidates
      /\ x \in Questions /\ req[r].cand.plan \in Plans
  BY RequestKinds, KeysMade, ResolutionsMade DEF TypeInv, TypeOK
<1>2. calls'[x] > 0
  <2>1. calls[x] > 0
    BY DEF SoundInv, SoundRequest
  <2>2. calls[x] \in Nat /\ calls'[x] \in Nat /\ calls'[x] >= calls[x]
    BY <1>1 DEF TypeInv, TypeOK, Grown
  <2> HIDE DEF x
  <2> QED BY <2>1, <2>2
<1>3. AskedAbout(key, res, calls')
  BY <1>1, <1>2 DEF AskedAbout, Hashed, Key
<1>4. Sound(key, res, proposed', calls')
  BY <1>3 DEF Sound
<1>5. /\ req'[r].pc = "execute" /\ req'[r].input = req[r].input /\ req'[r].cand = req[r].cand
      /\ req'[r].res = res /\ \A s \in Requests \ {r} : req'[s] = req[s]
  BY ResolveFacts
<1>6. SoundRequest(req'[r], proposed', calls')
  BY <1>4, <1>5 DEF SoundRequest
<1>7. \A i \in 1..Len(verdicts') :
        \/ \E j \in 1..Len(verdicts) : verdicts'[i] = verdicts[j]
        \/ SoundEntry(verdicts'[i], proposed', calls')
  <2>1. CASE verdicts' = Put(key, res)
    <3>1. \A i \in 1..Len(verdicts') :
            \/ verdicts'[i] = [key |-> key, res |-> res]
            \/ \E j \in 1..Len(verdicts) : verdicts'[i] = verdicts[j]
      BY <2>1, VerdictFacts
    <3>2. SoundEntry([key |-> key, res |-> res], proposed', calls')
      BY <1>4 DEF SoundEntry
    <3> QED BY <3>1, <3>2
  <2> QED BY <2>1
<1> QED BY <1>5, <1>6, <1>7, SoundFrame

LEMMA SoundVerdict ==
  ASSUME TypeInv, TypeInv', SoundInv, NEW r \in Requests,
         VerdictApprove(r) \/ VerdictReject(r) \/ VerifierTimeout(r)
  PROVE  SoundInv'
<1> DEFINE key == Key(req[r].input, req[r].cand.plan)
<1>1. /\ req[r].pc = "llm" /\ req[r].input \in Inputs /\ req[r].cand \in Candidates
      /\ <<req[r].input, req[r].cand.plan>> \in Questions /\ req[r].cand.plan \in Plans
  BY RequestKinds, KeysMade, ResolutionsMade
     DEF TypeInv, TypeOK, VerdictApprove, VerdictReject, VerifierTimeout
<1>2. \A x \in Questions : calls[x] \in Nat /\ calls[x] >= calls[x]
  BY DEF TypeInv, TypeOK
(* Approvals and failed verifications let the candidate's plan through.  *)
<1>3. \A res \in {Approved(req[r].cand), Errored(req[r].cand)} :
        Justified(key, res, proposed')
  BY DEF Justified, Approved, Errored, Hashed, Key
<1>4. CASE VerdictApprove(r)
  <2>1. PICK res \in {Approved(req[r].cand), Errored(req[r].cand)} :
          Resolve(r, res) /\ verdicts' = Put(key, res)
    BY <1>4 DEF VerdictApprove
  <2>2. UNCHANGED <<answers, calls, proposed>>
    BY <1>4 DEF VerdictApprove, histories
  <2>3. Grown
    BY <1>2, <2>2 DEF Grown
  <2>4. res \in Resolutions /\ Justified(key, res, proposed')
    BY <1>1, <1>3, <2>1, ResolutionsMade
  <2> QED BY <1>1, <2>1, <2>2, <2>3, <2>4, SoundReply
<1>5. CASE VerifierTimeout(r)
  <2> DEFINE res == Errored(req[r].cand)
  <2>1. Resolve(r, res) /\ UNCHANGED <<verdicts, answers, calls, proposed>>
    BY <1>5 DEF VerifierTimeout, histories
  <2>2. Grown
    BY <1>2, <2>1 DEF Grown
  <2>3. res \in Resolutions /\ Justified(key, res, proposed')
    BY <1>1, <1>3, ResolutionsMade
  <2> QED BY <1>1, <2>1, <2>2, <2>3, SoundReply
<1>6. CASE VerdictReject(r)
  <2>1. PICK plan \in Plans :
          /\ Resolve(r, Rerouted(req[r].cand, plan))
          /\ verdicts' = Put(key, Rerouted(req[r].cand, plan))
          /\ proposed' = [proposed EXCEPT ![<<req[r].input, req[r].cand.plan>>] = @ \union {plan}]
    BY <1>6 DEF VerdictReject
  <2>2. UNCHANGED <<answers, calls>>
    BY <1>6 DEF VerdictReject
  <2>3. proposed \in [Questions -> SUBSET Plans]
    BY DEF TypeInv, TypeOK
  <2>4. /\ plan \in proposed'[<<req[r].input, req[r].cand.plan>>]
        /\ \A x \in Questions : proposed[x] \subseteq proposed'[x]
    BY <1>1, <2>1, <2>3
  <2>5. Grown
    BY <1>2, <2>2, <2>4 DEF Grown
  <2> DEFINE res == Rerouted(req[r].cand, plan)
  <2>6. Justified(key, res, proposed')
    <3>1. res.verdict = "reject" /\ res.effective = plan
      BY DEF Rerouted
    <3>2. Hashed(key, req[r].cand.plan) /\ key[1] = req[r].input
      BY DEF Hashed, Key
    <3> QED BY <1>1, <2>4, <3>1, <3>2 DEF Justified
  <2>7. res \in Resolutions
    BY <1>1, ResolutionsMade
  <2> QED BY <1>1, <2>1, <2>2, <2>5, <2>6, <2>7, SoundReply
<1> QED BY <1>4, <1>5, <1>6

LEMMA SoundEnd ==
  ASSUME TypeInv, TypeInv', SoundInv, NEW r \in Requests, Execute(r) \/ VerdictRaises(r)
  PROVE  SoundInv'
<1>1. req' = [req EXCEPT ![r] = Idle] /\ UNCHANGED <<verdicts, calls, proposed>>
  BY DEF Execute, VerdictRaises, histories
<1>2. Grown
  BY <1>1 DEF Grown, TypeInv, TypeOK
<1>3. req'[r] = Idle /\ \A s \in Requests \ {r} : req'[s] = req[s]
  BY <1>1, RequestsMade, OwnRequest DEF TypeInv, TypeOK
<1>4. SoundRequest(req'[r], proposed', calls')
  BY <1>3, RequestsMade DEF SoundRequest
<1>5. \A a \in answers' : a \in answers \/ SoundAnswer(a, proposed', calls')
  <2>1. CASE Execute(r)
    <3> DEFINE b == [input |-> req[r].input, cand |-> req[r].cand, res |-> req[r].res]
    <3>1. answers' = answers \union {b} /\ req[r].pc = "execute"
      BY <2>1 DEF Execute
    <3>2. SoundAnswer(b, proposed', calls')
      BY <1>1, <3>1 DEF SoundInv, SoundRequest, SoundAnswer
    <3> HIDE DEF b
    <3> QED BY <3>1, <3>2
  <2>2. CASE VerdictRaises(r)
    BY <2>2 DEF VerdictRaises, histories
  <2> QED BY <2>1, <2>2
<1> QED BY <1>1, <1>2, <1>3, <1>4, <1>5, SoundFrame

LEMMA SoundStep == TypeInv /\ TypeInv' /\ SoundInv /\ [Next]_vars => SoundInv'
<1> SUFFICES ASSUME TypeInv, TypeInv', SoundInv, [Next]_vars PROVE SoundInv'
  OBVIOUS
<1>1. CASE UNCHANGED <<req, verdicts, answers, calls, proposed>>
  BY <1>1 DEF SoundInv
<1>2. ASSUME NEW k \in GapKeys, GapStep(k)
      PROVE  UNCHANGED <<req, verdicts, answers, calls, proposed>>
  BY <1>2 DEF GapStep, GapSelect, GapUpdate, GapInsert, GapFails, histories
<1>3. UNCHANGED vars => UNCHANGED <<req, verdicts, answers, calls, proposed>>
  BY DEF vars
<1> QED BY <1>1, <1>2, <1>3, SoundAsk, SoundVerdict, SoundEnd DEF Next, RequestStep

LEMMA SoundAlways == Spec => [](TypeInv /\ SoundInv)
<1>1. Init => SoundInv
  <2>1. Init => /\ Len(verdicts) = 0 /\ answers = {}
                /\ \A r \in Requests : req[r].pc = "idle"
    BY DEF Init, Idle
  <2> QED BY <2>1 DEF SoundInv, SoundRequest
<1> QED BY <1>1, TypeInit, TypeStep, SoundStep, PTL DEF Spec

(* What is executed answers its own request: the candidate's plan up to    *)
(* the hash, or a plan the model proposed for this input and this hash,    *)
(* however many requests shared, filled and evicted the verdict cache.     *)
THEOREM ExecutedAlwaysJustified == Spec => []ExecutedPlanJustified
<1>1. SoundInv => ExecutedPlanJustified
  BY DEF SoundInv, SoundAnswer, Sound, Justified, Hashed, Key, ExecutedPlanJustified, SameHash
<1> QED BY <1>1, SoundAlways, PTL

(* No verdict is invented, and the cache that gives them stays bounded and *)
(* unambiguous.                                                            *)
THEOREM VerdictsAlwaysComeFromCalls == Spec => []VerdictsComeFromCalls
<1>1. TypeInv /\ SoundInv => VerdictsComeFromCalls
  <2> SUFFICES ASSUME TypeInv, SoundInv PROVE VerdictsComeFromCalls
    OBVIOUS
  <2>1. ASSUME NEW a \in answers, a.res.verdict \in {"approve", "reject"}
        PROVE  \E p \in Plans : SameHash(p, a.cand.plan) /\ calls[<<a.input, p>>] > 0
    BY <2>1 DEF SoundInv, SoundAnswer, Sound, AskedAbout, Hashed, Key, SameHash
  <2> QED BY <2>1 DEF TypeInv, CacheInv, DistinctKeys, VerdictsComeFromCalls
<1> QED BY <1>1, SoundAlways, PTL
=============================================================================
