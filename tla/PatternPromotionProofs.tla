------------------------ MODULE PatternPromotionProofs ------------------------
(***************************************************************************)
(* For any inputs, plans, entities, files and skill catalogs: what the     *)
(* learning loop keeps true while requests, promotions, crashes and edits  *)
(* of the skill files interleave.  Every pattern of a file has its origin, *)
(* a person or a plan that ran; what the cache holds comes from the files; *)
(* what is answered comes from the cache.  And for any graph: the walk     *)
(* along foreign keys, by induction over what a call has before it, finds  *)
(* its cycles.                                                             *)
(***************************************************************************)
EXTENDS PatternPromotion, FiniteSetTheorems, WellFoundedInduction, TLAPS

(* ---------------------- the walk along foreign keys --------------------- *)

(* A set of numbers has a least one.                                       *)
LEMMA LeastElement ==
  ASSUME NEW T \in SUBSET Nat, T # {}
  PROVE  \E m \in T : \A k \in T : m <= k
<1>1. PICK m \in T : \A k \in T : <<k, m>> \notin OpToRel(<, Nat)
  BY WFMin, NatLessThanWellFounded
<1>2. \A k \in T : ~(k < m)
  BY <1>1 DEF OpToRel
<1> QED BY <1>2

(* One round of the loop of dfs: the entity it looks at, the call for what *)
(* that one refers to, what the visit finds, and the rest of the loop.     *)
First(call) == CHOOSE n \in call.nodes : TRUE
Inner(graph, call) ==
  [nodes |-> Targets(graph, First(call)), path |-> Append(call.path, First(call)),
   found |-> [call.found EXCEPT !.visited = @ \union {First(call)}]]
Closes(call) == ClosesCycle(First(call), call.path, call.found.visited)
Enters(call) == ~Closes(call) /\ First(call) \notin call.found.visited
Visit(graph, g, call) ==
  IF Closes(call)
  THEN [call.found EXCEPT !.cycles = @ \union {Append(call.path, First(call))}]
  ELSE IF First(call) \in call.found.visited THEN call.found
  ELSE g[Inner(graph, call)]
Rest(call, after) == [call EXCEPT !.nodes = @ \ {First(call)}, !.found = after]
Walk(graph, g, call) ==
  IF call.nodes = {} THEN call.found ELSE g[Rest(call, Visit(graph, g, call))]
IsWalk(graph, g) == g = [call \in Calls(graph) |-> Walk(graph, g, call)]

(* CHOOSE takes a function that is the walk, if there is one.              *)
LEMMA DfsIsWalk ==
  ASSUME NEW graph, \E g : IsWalk(graph, g)
  PROVE  IsWalk(graph, Dfs(graph))
BY DEF IsWalk, Dfs, Walk, Visit, First, Rest, Inner, Closes

(* How much of the walk a call has before it: it visits a new entity, or   *)
(* has one less to look at.                                                *)
Left(graph, call) ==
  Cardinality(DOMAIN graph \ call.found.visited) * (Cardinality(DOMAIN graph) + 1)
    + Cardinality(call.nodes)
Most(graph) == Cardinality(DOMAIN graph) * (Cardinality(DOMAIN graph) + 1)
                 + Cardinality(DOMAIN graph)

LEMMA LeftType ==
  ASSUME NEW graph, IsFiniteSet(DOMAIN graph), NEW call \in Calls(graph)
  PROVE  Left(graph, call) \in Nat /\ Left(graph, call) <= Most(graph) /\ Most(graph) \in Nat
<1> DEFINE n == Cardinality(DOMAIN graph)
           u == Cardinality(DOMAIN graph \ call.found.visited)
           k == Cardinality(call.nodes)
<1>1. n \in Nat
  BY FS_CardinalityType
<1>2. call.nodes \in SUBSET DOMAIN graph /\ DOMAIN graph \ call.found.visited \in SUBSET DOMAIN graph
  BY DEF Calls
<1>3. k \in Nat /\ k <= n /\ u \in Nat /\ u <= n
  BY <1>2, FS_Subset, FS_CardinalityType
<1> HIDE DEF n, u, k
<1>4. u * (n + 1) \in Nat /\ u * (n + 1) <= n * (n + 1) /\ n * (n + 1) \in Nat
  BY <1>1, <1>3
<1> QED BY <1>1, <1>3, <1>4 DEF Left, Most, n, u, k

LEMMA FirstIn == \A call : call.nodes # {} => First(call) \in call.nodes
BY DEF First

LEMMA InnerLess ==
  ASSUME NEW graph, IsFiniteSet(DOMAIN graph), NEW call \in Calls(graph),
         call.nodes # {}, Enters(call)
  PROVE  Inner(graph, call) \in Calls(graph) /\ Left(graph, Inner(graph, call)) < Left(graph, call)
<1> DEFINE n == Cardinality(DOMAIN graph)
           new == DOMAIN graph \ call.found.visited
           u == Cardinality(new)
           k == Cardinality(call.nodes)
           in == Inner(graph, call)
           j == Cardinality(in.nodes)
<1>1. /\ First(call) \in DOMAIN graph /\ First(call) \in new
      /\ call.nodes \in SUBSET DOMAIN graph
  BY FirstIn DEF Calls, Enters
<1>2. in \in Calls(graph)
  BY <1>1 DEF Inner, Calls, Found, Targets
<1>3. /\ DOMAIN graph \ in.found.visited = new \ {First(call)}
      /\ in.nodes \in SUBSET DOMAIN graph
  BY <1>1 DEF Inner, Calls, Found, Targets
<1>4. IsFiniteSet(new) /\ u \in Nat /\ n \in Nat /\ k \in Nat /\ j \in Nat /\ j <= n
  BY <1>1, <1>3, FS_Subset, FS_CardinalityType
<1>5. Cardinality(DOMAIN graph \ in.found.visited) = u - 1 /\ u - 1 \in Nat
  <2>1. Cardinality(new \ {First(call)}) = u - 1 /\ IsFiniteSet(new \ {First(call)})
    BY <1>1, <1>4, FS_RemoveElement
  <2> QED BY <1>3, <2>1, FS_CardinalityType
<1>6. Left(graph, in) = (u - 1) * (n + 1) + j /\ Left(graph, call) = u * (n + 1) + k
  BY <1>5 DEF Left
<1> HIDE DEF n, u, k, j, in
<1>7. u * (n + 1) = (u - 1) * (n + 1) + (n + 1) /\ (u - 1) * (n + 1) \in Nat
  BY <1>4, <1>5
<1>8. Left(graph, in) < Left(graph, call)
  BY <1>4, <1>6, <1>7
<1> QED BY <1>2, <1>8 DEF in

LEMMA RestLess ==
  ASSUME NEW graph, IsFiniteSet(DOMAIN graph), NEW call \in Calls(graph), call.nodes # {},
         NEW after \in Found(graph), call.found.visited \subseteq after.visited
  PROVE  Rest(call, after) \in Calls(graph) /\ Left(graph, Rest(call, after)) < Left(graph, call)
<1> DEFINE n == Cardinality(DOMAIN graph)
           u == Cardinality(DOMAIN graph \ call.found.visited)
           v == Cardinality(DOMAIN graph \ after.visited)
           k == Cardinality(call.nodes)
           rest == Rest(call, after)
<1>1. rest \in Calls(graph) /\ rest.nodes = call.nodes \ {First(call)} /\ rest.found = after
  BY DEF Rest, Calls
<1>2. /\ call.nodes \in SUBSET DOMAIN graph
      /\ DOMAIN graph \ call.found.visited \in SUBSET DOMAIN graph
      /\ DOMAIN graph \ after.visited \in SUBSET (DOMAIN graph \ call.found.visited)
  BY DEF Calls
<1>3. /\ n \in Nat /\ IsFiniteSet(call.nodes) /\ k \in Nat /\ u \in Nat /\ v \in Nat /\ v <= u
  BY <1>2, FS_Subset, FS_CardinalityType
<1>4. Cardinality(rest.nodes) = k - 1
  <2>1. First(call) \in call.nodes
    BY FirstIn
  <2>2. Cardinality(call.nodes \ {First(call)}) = k - 1
    BY <1>3, <2>1, FS_RemoveElement
  <2> HIDE DEF rest
  <2> QED BY <1>1, <2>2
<1>5. Left(graph, rest) = v * (n + 1) + (k - 1) /\ Left(graph, call) = u * (n + 1) + k
  <2>1. Cardinality(DOMAIN graph \ rest.found.visited) = v
    BY <1>1
  <2> HIDE DEF rest
  <2> QED BY <1>4, <2>1 DEF Left
<1> HIDE DEF n, u, v, k, rest
<1>6. v * (n + 1) <= u * (n + 1) /\ v * (n + 1) \in Nat /\ u * (n + 1) \in Nat
  BY <1>3
<1>7. Left(graph, rest) < Left(graph, call)
  BY <1>3, <1>5, <1>6
<1> QED BY <1>1, <1>7 DEF rest

-----------------------------------------------------------------------------
(* A function that is the walk for the calls with less than k before them. *)
Upto(graph, g, k) ==
  /\ g \in [Calls(graph) -> Found(graph)]
  /\ \A c \in Calls(graph) : Left(graph, c) < k =>
       g[c] = Walk(graph, g, c) /\ c.found.visited \subseteq g[c].visited

(* It says what the walk is for those with k before them.                  *)
LEMMA NextWalk ==
  ASSUME NEW graph, IsFiniteSet(DOMAIN graph), NEW k \in Nat, NEW g, Upto(graph, g, k),
         NEW call \in Calls(graph), Left(graph, call) <= k
  PROVE  /\ Walk(graph, g, call) \in Found(graph)
         /\ call.found.visited \subseteq Walk(graph, g, call).visited
         /\ \A h : (\A c \in Calls(graph) : Left(graph, c) < k => h[c] = g[c])
                     => Walk(graph, h, call) = Walk(graph, g, call)
<1> DEFINE after == Visit(graph, g, call)
<1>1. CASE call.nodes = {}
  BY <1>1 DEF Walk, Calls
<1>2. CASE call.nodes # {}
  <2>1. First(call) \in DOMAIN graph /\ call.path \in Seq(DOMAIN graph) /\ call.found \in Found(graph)
    BY <1>2, FirstIn DEF Calls
  <2>2. ASSUME Enters(call)
        PROVE  Inner(graph, call) \in Calls(graph) /\ Left(graph, Inner(graph, call)) < k
    BY <1>2, <2>2, InnerLess, LeftType
  <2>3. after \in Found(graph) /\ call.found.visited \subseteq after.visited
    <3>1. CASE Closes(call)
      <4>1. Append(call.path, First(call)) \in Seq(DOMAIN graph)
        BY <2>1
      <4> QED BY <2>1, <3>1, <4>1 DEF Visit, Found
    <3>2. CASE ~Closes(call) /\ First(call) \in call.found.visited
      BY <2>1, <3>2 DEF Visit
    <3>3. CASE Enters(call)
      <4>1. after = g[Inner(graph, call)]
        BY <3>3 DEF Visit, Enters
      <4>2. Inner(graph, call).found.visited = call.found.visited \union {First(call)}
        BY <2>1 DEF Inner, Found
      <4> QED BY <2>2, <3>3, <4>1, <4>2 DEF Upto
    <3> QED BY <3>1, <3>2, <3>3 DEF Enters
  <2>4. Rest(call, after) \in Calls(graph) /\ Left(graph, Rest(call, after)) < k
    BY <1>2, <2>3, RestLess, LeftType
  <2>5. Walk(graph, g, call) = g[Rest(call, after)] /\ Rest(call, after).found = after
    BY <1>2 DEF Walk, Rest, Calls
  <2>6. ASSUME NEW h, \A c \in Calls(graph) : Left(graph, c) < k => h[c] = g[c]
        PROVE  Walk(graph, h, call) = Walk(graph, g, call)
    <3>1. Visit(graph, h, call) = after
      BY <2>2, <2>6 DEF Visit, Enters
    <3> QED BY <1>2, <2>4, <2>6, <3>1 DEF Walk
  <2> QED BY <2>3, <2>4, <2>5, <2>6 DEF Upto
<1> QED BY <1>1, <1>2

LEMMA WalkExists ==
  ASSUME NEW graph, IsFiniteSet(DOMAIN graph)
  PROVE  \E g : IsWalk(graph, g)
<1> DEFINE Without == {k \in Nat : ~ \E g : Upto(graph, g, k)}
<1>1. Without = {}
  <2> SUFFICES ASSUME Without # {} PROVE FALSE
    OBVIOUS
  <2>1. PICK m \in Without : \A k \in Without : m <= k
    <3>1. Without \in SUBSET Nat
      OBVIOUS
    <3> HIDE DEF Without
    <3> QED BY <3>1, LeastElement
  <2>2. m # 0
    <3>1. Upto(graph, [c \in Calls(graph) |-> c.found], 0)
      <4>1. \A c \in Calls(graph) : c.found \in Found(graph) /\ ~(Left(graph, c) < 0)
        BY LeftType DEF Calls
      <4> QED BY <4>1 DEF Upto
    <3> QED BY <3>1
  <2>3. m \in Nat /\ m - 1 \in Nat /\ m - 1 \notin Without
    BY <2>1, <2>2
  <2>4. PICK g : Upto(graph, g, m - 1)
    BY <2>3
  <2> DEFINE h == [c \in Calls(graph) |->
                     IF Left(graph, c) = m - 1 THEN Walk(graph, g, c) ELSE g[c]]
  <2>5. ASSUME NEW c \in Calls(graph), Left(graph, c) <= m - 1
        PROVE  /\ Walk(graph, g, c) \in Found(graph)
               /\ c.found.visited \subseteq Walk(graph, g, c).visited
               /\ Walk(graph, h, c) = Walk(graph, g, c)
    <3>1. \A d \in Calls(graph) : Left(graph, d) < m - 1 => h[d] = g[d]
      BY <2>3, LeftType
    <3> HIDE DEF h
    <3> QED BY <2>3, <2>4, <2>5, <3>1, NextWalk
  <2>6. h \in [Calls(graph) -> Found(graph)]
    <3>1. ASSUME NEW c \in Calls(graph)
          PROVE  (IF Left(graph, c) = m - 1 THEN Walk(graph, g, c) ELSE g[c]) \in Found(graph)
      <4>1. g[c] \in Found(graph)
        BY <2>4 DEF Upto
      <4>2. ASSUME Left(graph, c) = m - 1 PROVE Walk(graph, g, c) \in Found(graph)
        <5>1. Left(graph, c) <= m - 1
          BY <2>3, <4>2
        <5> HIDE DEF h, Without
        <5> QED BY <2>5, <5>1
      <4> HIDE DEF h
      <4> QED BY <4>1, <4>2
    <3> QED BY <3>1
  <2>7. ASSUME NEW c \in Calls(graph), Left(graph, c) < m
        PROVE  h[c] = Walk(graph, h, c) /\ c.found.visited \subseteq h[c].visited
    <3>1. Left(graph, c) <= m - 1
      BY <2>3, <2>7, LeftType
    <3>2. h[c] = Walk(graph, g, c)
      <4>1. CASE Left(graph, c) = m - 1
        BY <4>1
      <4>2. CASE Left(graph, c) < m - 1
        BY <2>3, <2>4, <4>2, LeftType DEF Upto
      <4> QED BY <2>3, <3>1, <4>1, <4>2, LeftType
    <3> QED BY <2>5, <3>1, <3>2
  <2>8. Upto(graph, h, m)
    <3> HIDE DEF h
    <3> QED BY <2>6, <2>7 DEF Upto
  <2> QED BY <2>1, <2>8
<1>2. Most(graph) + 1 \in Nat
  <2>1. Cardinality(DOMAIN graph) \in Nat
    BY FS_CardinalityType
  <2> QED BY <2>1 DEF Most
<1>3. PICK g : Upto(graph, g, Most(graph) + 1)
  BY <1>1, <1>2
<1>4. ASSUME NEW c \in Calls(graph) PROVE g[c] = Walk(graph, g, c)
  BY <1>2, <1>3, LeftType DEF Upto
<1>5. g = [c \in Calls(graph) |-> Walk(graph, g, c)]
  BY <1>3, <1>4 DEF Upto
<1> QED BY <1>5 DEF IsWalk

(* So the walk is what its definition says.                                *)
LEMMA DfsValue ==
  ASSUME NEW graph, IsFiniteSet(DOMAIN graph), NEW call \in Calls(graph)
  PROVE  Dfs(graph)[call] = Walk(graph, Dfs(graph), call)
<1>1. IsWalk(graph, Dfs(graph))
  BY WalkExists, DfsIsWalk
<1> QED BY <1>1 DEF IsWalk

-----------------------------------------------------------------------------
(* A path follows foreign keys, and what a call looks at comes next.       *)
OnPath(graph, call) ==
  LET path == call.path IN
  /\ \A i \in 1..Len(path) - 1 : path[i + 1] \in Targets(graph, path[i])
  /\ path # <<>> => call.nodes \subseteq Targets(graph, path[Len(path)])

(* Entities that depend on each other only, and on none in a circle.       *)
Clean(graph, done) ==
  /\ \A e \in done : Targets(graph, e) \subseteq done
  /\ \A group \in SUBSET done :
       (\A e \in group : Targets(graph, e) \intersect group # {}) => group = {}

(* What was visited and is not on the path is done.                        *)
Settled(call, found) == found.visited \ Range(call.path)
Ready(graph, call) ==
  Range(call.path) \subseteq call.found.visited /\ Clean(graph, Settled(call, call.found))

(* What a call has found at its end, seen being what it looked at: a cycle *)
(* is one of the graph, and when there is none all it saw is done.         *)
Finds(graph, call, seen, found) ==
  /\ found \in Found(graph)
  /\ call.found.visited \subseteq found.visited /\ call.found.cycles \subseteq found.cycles
  /\ OnPath(graph, call) /\ call.found.cycles = {} /\ found.cycles # {} => Circular(graph)
  /\ Ready(graph, call) /\ found.cycles = {} =>
       seen \subseteq Settled(call, found) /\ Clean(graph, Settled(call, found))

LEMMA RangeAppend ==
  ASSUME NEW S, NEW path \in Seq(S), NEW x \in S
  PROVE  Range(Append(path, x)) = Range(path) \union {x}
<1> DEFINE long == Append(path, x)
           n == Len(path)
<1>1. /\ n \in Nat /\ DOMAIN path = 1..n /\ DOMAIN long = 1..n + 1
      /\ long[n + 1] = x /\ \A i \in 1..n : long[i] = path[i]
  OBVIOUS
<1> HIDE DEF long, n
<1>2. 1..n + 1 = 1..n \union {n + 1}
  BY <1>1
<1>3. \A y : y \in Range(long) <=> y \in Range(path) \union {x}
  BY <1>1, <1>2 DEF Range
<1> QED BY <1>3 DEF long

(* Closing a path closes a circle.                                         *)
LEMMA ClosedPath ==
  ASSUME NEW graph, NEW call \in Calls(graph), call.nodes # {}, OnPath(graph, call),
         Closes(call)
  PROVE  Circular(graph)
<1> DEFINE path == call.path
           n == Len(path)
<1>1. path \in Seq(DOMAIN graph) /\ n \in Nat /\ DOMAIN path = 1..n
      /\ First(call) \in call.nodes
  BY FirstIn DEF Calls
<1>2. PICK i \in 1..n : path[i] = First(call)
  BY <1>1 DEF Closes, ClosesCycle, Range
<1>3. path[n] \in DOMAIN graph /\ path[i] \in Targets(graph, path[n])
  BY <1>1, <1>2 DEF OnPath
<1> DEFINE group == {path[j] : j \in i..n}
<1>4. group \subseteq DOMAIN graph /\ group # {}
  <2>1. \A j \in i..n : path[j] \in DOMAIN graph
    BY <1>1, <1>2
  <2>2. i \in i..n
    BY <1>1, <1>2
  <2> QED BY <2>1, <2>2
<1>5. ASSUME NEW e \in group PROVE (graph[e] \ {e}) \intersect group # {}
  <2>1. PICK j \in i..n : e = path[j]
    OBVIOUS
  <2>2. CASE j = n
    <3>1. path[i] \in group
      BY <1>1, <1>2
    <3> QED BY <1>3, <2>1, <2>2, <3>1 DEF Targets
  <2>3. CASE j # n
    <3>1. j \in 1..n - 1 /\ j + 1 \in i..n
      BY <1>1, <1>2, <2>3
    <3>2. path[j + 1] \in Targets(graph, path[j]) /\ path[j + 1] \in group
      BY <3>1 DEF OnPath
    <3> QED BY <2>1, <3>2 DEF Targets
  <2> QED BY <2>2, <2>3
<1> HIDE DEF group
<1> QED BY <1>4, <1>5 DEF Circular

(* An entity whose targets are done is done.                               *)
LEMMA CleanAdd ==
  ASSUME NEW graph, NEW done, Clean(graph, done), NEW e, Targets(graph, e) \subseteq done
  PROVE  Clean(graph, done \union {e})
<1>1. ASSUME NEW group \in SUBSET (done \union {e}),
             \A x \in group : Targets(graph, x) \intersect group # {}
      PROVE  group = {}
  <2>1. CASE e \in done
    BY <1>1, <2>1 DEF Clean
  <2>2. CASE e \notin done
    <3> DEFINE rest == group \ {e}
    <3>1. rest \in SUBSET done
      OBVIOUS
    <3>2. \A x \in rest : Targets(graph, x) \intersect rest # {}
      BY <1>1, <2>2, <3>1 DEF Clean
    <3>3. rest = {}
      BY <3>1, <3>2 DEF Clean
    <3>4. e \notin group
      BY <1>1, <2>2, <3>3
    <3> QED BY <3>3, <3>4
  <2> QED BY <2>1, <2>2
<1> QED BY <1>1 DEF Clean

(* What a visit of one entity finds, given what the calls inside find.     *)
LEMMA VisitFinds ==
  ASSUME NEW graph, NEW g, NEW call \in Calls(graph), call.nodes # {},
         Enters(call) =>
           /\ Inner(graph, call) \in Calls(graph)
           /\ Finds(graph, Inner(graph, call), Inner(graph, call).nodes, g[Inner(graph, call)])
  PROVE  Finds(graph, call, {First(call)}, Visit(graph, g, call))
<1> DEFINE node == First(call)
           path == call.path
           after == Visit(graph, g, call)
           in == Inner(graph, call)
<1>1. /\ node \in call.nodes /\ node \in DOMAIN graph /\ path \in Seq(DOMAIN graph)
      /\ call.found \in Found(graph)
  BY FirstIn DEF Calls
<1>2. CASE Closes(call)
  <2>1. after = [call.found EXCEPT !.cycles = @ \union {Append(path, node)}]
    BY <1>2 DEF Visit
  <2>2. Append(path, node) \in Seq(DOMAIN graph)
    BY <1>1
  <2>3. /\ after \in Found(graph) /\ after.visited = call.found.visited
        /\ call.found.cycles \subseteq after.cycles /\ after.cycles # {}
    BY <1>1, <2>1, <2>2 DEF Found
  <2> QED BY <1>2, <2>3, ClosedPath DEF Finds
<1>3. CASE ~Closes(call) /\ node \in call.found.visited
  <2>1. after = call.found
    BY <1>3 DEF Visit
  <2>2. node \notin Range(path)
    BY <1>3 DEF Closes, ClosesCycle
  <2>3. node \in Settled(call, after)
    BY <1>3, <2>1, <2>2 DEF Settled
  <2> HIDE DEF after
  <2>4. call.found.cycles = {} /\ after.cycles # {} => Circular(graph)
    BY <2>1
  <2>5. Ready(graph, call) => Clean(graph, Settled(call, after))
    BY <2>1 DEF Ready
  <2>6. Finds(graph, call, {node}, after)
    <3>1. after \in Found(graph) /\ {node} \subseteq Settled(call, after)
      BY <1>1, <2>1, <2>3
    <3> QED BY <2>1, <2>4, <2>5, <3>1 DEF Finds
  <2> QED BY <2>6 DEF after
<1>4. CASE Enters(call)
  <2>1. after = g[in] /\ Finds(graph, in, in.nodes, after) /\ in \in Calls(graph)
    BY <1>4 DEF Visit, Enters
  <2>2. /\ in.nodes = Targets(graph, node) /\ in.path = Append(path, node)
        /\ in.found.visited = call.found.visited \union {node}
        /\ in.found.cycles = call.found.cycles
    BY <1>1 DEF Inner, Found
  <2>3. Range(in.path) = Range(path) \union {node}
    BY <1>1, <2>2, RangeAppend
  <2>4. node \notin Range(path) /\ node \notin call.found.visited
    BY <1>4 DEF Enters, Closes, ClosesCycle
  <2> HIDE DEF after, in
  <2>5. OnPath(graph, call) => OnPath(graph, in)
    <3> SUFFICES ASSUME OnPath(graph, call) PROVE OnPath(graph, in)
      OBVIOUS
    <3>1. Len(path) \in Nat /\ Len(in.path) = Len(path) + 1 /\ in.path[Len(path) + 1] = node
      BY <1>1, <2>2
    <3>2. \A i \in 1..Len(path) : in.path[i] = path[i]
      BY <1>1, <2>2
    <3>3. ASSUME NEW i \in 1..Len(in.path) - 1
          PROVE  in.path[i + 1] \in Targets(graph, in.path[i])
      <4>1. CASE i = Len(path)
        <5>1. path # <<>> /\ in.path[i] = path[Len(path)]
          BY <3>2, <3>3, <4>1
        <5> QED BY <1>1, <3>1, <4>1, <5>1 DEF OnPath
      <4>2. CASE i # Len(path)
        <5>1. i \in 1..Len(path) - 1
          BY <3>1, <3>3, <4>2
        <5>2. i + 1 \in 1..Len(path) /\ i \in 1..Len(path)
          BY <3>1, <5>1
        <5>3. path[i + 1] \in Targets(graph, path[i])
          BY <5>1 DEF OnPath
        <5> QED BY <3>2, <5>2, <5>3
      <4> QED BY <4>1, <4>2
    <3> QED BY <2>2, <3>1, <3>3 DEF OnPath
  <2>6. ASSUME Ready(graph, call) PROVE Ready(graph, in)
    <3>1. Settled(in, in.found) = Settled(call, call.found)
      BY <2>2, <2>3, <2>4 DEF Settled
    <3> QED BY <2>2, <2>3, <2>6, <3>1 DEF Ready
  <2>7. ASSUME Ready(graph, call), after.cycles = {}
        PROVE  node \in Settled(call, after) /\ Clean(graph, Settled(call, after))
    <3>1. Targets(graph, node) \subseteq Settled(in, after) /\ Clean(graph, Settled(in, after))
      BY <2>1, <2>2, <2>6, <2>7 DEF Finds
    <3>2. Settled(call, after) = Settled(in, after) \union {node}
      BY <2>1, <2>2, <2>3, <2>4 DEF Settled, Finds
    <3> QED BY <3>1, <3>2, CleanAdd
  <2>8. /\ after \in Found(graph) /\ call.found.visited \subseteq after.visited
        /\ call.found.cycles \subseteq after.cycles
    BY <2>1, <2>2 DEF Finds
  <2>9. OnPath(graph, call) /\ call.found.cycles = {} /\ after.cycles # {} => Circular(graph)
    BY <2>1, <2>2, <2>5 DEF Finds
  <2>10. Finds(graph, call, {node}, after)
    BY <2>7, <2>8, <2>9 DEF Finds
  <2> QED BY <2>10 DEF after
<1> QED BY <1>2, <1>3, <1>4 DEF Enters

(* Every call finds what it should.                                        *)
LEMMA DfsFinds ==
  ASSUME NEW graph, IsFiniteSet(DOMAIN graph)
  PROVE  \A call \in Calls(graph) : Finds(graph, call, call.nodes, Dfs(graph)[call])
<1> DEFINE Holds(call) == Finds(graph, call, call.nodes, Dfs(graph)[call])
           Wrong == {Left(graph, call) : call \in {c \in Calls(graph) : ~Holds(c)}}
<1> SUFFICES ASSUME Wrong # {} PROVE FALSE
  OBVIOUS
<1>1. PICK m \in Wrong : \A k \in Wrong : m <= k
  <2>1. Wrong \in SUBSET Nat
    BY LeftType
  <2> HIDE DEF Wrong
  <2> QED BY <2>1, LeastElement
<1>2. PICK call \in Calls(graph) : m = Left(graph, call) /\ ~Holds(call)
  OBVIOUS
<1>3. ASSUME NEW c \in Calls(graph), Left(graph, c) < Left(graph, call) PROVE Holds(c)
  <2>1. Left(graph, c) \in Nat /\ Left(graph, call) \in Nat
    BY <1>2, LeftType
  <2>2. Left(graph, c) \notin Wrong
    <3> HIDE DEF Wrong
    <3> QED BY <1>1, <1>2, <1>3, <2>1
  <2> QED BY <2>2
<1> HIDE DEF Wrong
<1>4. Dfs(graph)[call] = Walk(graph, Dfs(graph), call)
  BY <1>2, DfsValue
<1>5. CASE call.nodes = {}
  <2>1. Dfs(graph)[call] = call.found /\ call.found \in Found(graph)
    BY <1>2, <1>4, <1>5 DEF Walk, Calls
  <2>2. Holds(call)
    BY <1>5, <2>1 DEF Finds, Ready
  <2> QED BY <1>2, <2>2
<1>6. CASE call.nodes # {}
  <2> DEFINE after == Visit(graph, Dfs(graph), call)
             rest == Rest(call, after)
             end == Dfs(graph)[call]
  <2>1. Finds(graph, call, {First(call)}, after)
    <3>1. ASSUME Enters(call)
          PROVE  Inner(graph, call) \in Calls(graph) /\ Holds(Inner(graph, call))
      BY <1>2, <1>3, <1>6, <3>1, InnerLess
    <3> QED BY <1>2, <1>6, <3>1, VisitFinds
  <2>2. rest \in Calls(graph) /\ Left(graph, rest) < Left(graph, call)
    BY <1>2, <1>6, <2>1, RestLess DEF Finds
  <2>3. Finds(graph, rest, rest.nodes, end)
    <3>1. end = Dfs(graph)[rest]
      BY <1>4, <1>6 DEF Walk
    <3> QED BY <1>3, <2>2, <3>1
  <2>4. /\ rest.nodes = call.nodes \ {First(call)} /\ rest.path = call.path
        /\ rest.found = after
    BY <1>2 DEF Rest, Calls
  <2> HIDE DEF after, rest, end
  <2>5. OnPath(graph, call) => OnPath(graph, rest)
    BY <2>4 DEF OnPath
  <2>6. \A found : Settled(rest, found) = Settled(call, found)
    BY <2>4 DEF Settled
  <2>7. ASSUME OnPath(graph, call), call.found.cycles = {}, end.cycles # {}
        PROVE  Circular(graph)
    BY <2>1, <2>3, <2>4, <2>5, <2>7 DEF Finds
  <2>8. ASSUME Ready(graph, call), end.cycles = {}
        PROVE  call.nodes \subseteq Settled(call, end) /\ Clean(graph, Settled(call, end))
    <3>1. after.cycles = {}
      BY <2>3, <2>4, <2>8 DEF Finds
    <3>2. First(call) \in Settled(call, after) /\ Clean(graph, Settled(call, after))
      BY <2>1, <2>8, <3>1 DEF Finds
    <3>3. Ready(graph, rest)
      BY <2>1, <2>4, <2>6, <2>8, <3>2 DEF Ready, Finds
    <3>4. rest.nodes \subseteq Settled(call, end) /\ Clean(graph, Settled(call, end))
      BY <2>3, <2>6, <2>8, <3>3 DEF Finds
    <3>5. First(call) \in Settled(call, end)
      BY <2>3, <2>4, <3>2 DEF Settled, Finds
    <3> QED BY <2>4, <3>4, <3>5
  <2>9. /\ end \in Found(graph) /\ call.found.visited \subseteq end.visited
        /\ call.found.cycles \subseteq end.cycles
    BY <2>1, <2>3, <2>4 DEF Finds
  <2>10. Holds(call)
    BY <2>7, <2>8, <2>9 DEF Finds, end
  <2> QED BY <1>2, <2>10
<1> QED BY <1>5, <1>6

(* In every graph of finitely many entities, the walk along foreign keys   *)
(* with its one set of visited entities reports a cycle if and only if     *)
(* there are entities that each depend on another one of them.             *)
THEOREM CircularFksFound ==
  ASSUME NEW graph, IsFiniteSet(DOMAIN graph)
  PROVE  DetectCircularFks(graph) # {} <=> Circular(graph)
<1> DEFINE start == [nodes |-> DOMAIN graph, path |-> <<>>,
                     found |-> [visited |-> {}, cycles |-> {}]]
           end == Dfs(graph)[start]
<1>1. /\ start \in Calls(graph) /\ start.nodes = DOMAIN graph /\ start.path = <<>>
      /\ start.found.visited = {} /\ start.found.cycles = {}
  BY DEF Calls, Found
<1>2. Finds(graph, start, DOMAIN graph, end)
  BY <1>1, DfsFinds
<1>3. DetectCircularFks(graph) = end.cycles
  BY DEF DetectCircularFks
<1> HIDE DEF start, end
<1>4. OnPath(graph, start)
  BY <1>1 DEF OnPath
<1>5. Range(start.path) = {}
  BY <1>1 DEF Range
<1>6. Ready(graph, start)
  BY <1>1, <1>5 DEF Ready, Settled, Clean
<1>7. ASSUME end.cycles = {} PROVE ~Circular(graph)
  <2>1. DOMAIN graph \subseteq Settled(start, end) /\ Clean(graph, Settled(start, end))
    BY <1>2, <1>6, <1>7 DEF Finds
  <2>2. ASSUME NEW group \in SUBSET DOMAIN graph, group # {},
               \A x \in group : (graph[x] \ {x}) \intersect group # {}
        PROVE  FALSE
    <3>1. \A x \in group : Targets(graph, x) \intersect group # {}
      BY <2>2 DEF Targets
    <3>2. group \subseteq Settled(start, end)
      BY <2>1
    <3> QED BY <2>1, <2>2, <3>1, <3>2 DEF Clean
  <2> QED BY <2>2 DEF Circular
<1> QED BY <1>1, <1>2, <1>3, <1>4, <1>7 DEF Finds

-----------------------------------------------------------------------------
USE PromotionAssumption

(* ------------------------------- patterns ------------------------------- *)

LEMMA PlanFacts ==
  ASSUME NEW plan \in PlanType
  PROVE  /\ Template(plan) \in PlanType /\ Template(plan).entity = plan.entity
         /\ Parse(plan) \in PlanType /\ Parse(plan).entity = plan.entity
         /\ plan # None
<1>1. Template(plan) \in PlanType /\ Template(plan).entity = plan.entity
  BY DEF PlanType, Template
<1>2. Parse(plan) \in PlanType /\ Parse(plan).entity = plan.entity
  <2>1. /\ [plan EXCEPT !.filters = "none"] \in PlanType
        /\ [plan EXCEPT !.filters = "own"] \in PlanType
    BY DEF PlanType
  <2> QED BY <2>1 DEF PlanType, Parse
<1>3. plan # None
  OBVIOUS
<1> QED BY <1>1, <1>2, <1>3

(* What is served of a plan that ran derives from it.                      *)
LEMMA ParsedDerives ==
  ASSUME NEW plan \in PlanType
  PROVE  Derives(Parse(Template(plan)), plan)
<1> DEFINE t == Template(plan)
           served == Parse(t)
<1>1. /\ t \in PlanType /\ t.entity = plan.entity /\ t.joins = plan.joins
      /\ t.filters = plan.filters /\ t.select = FALSE
  BY DEF PlanType, Template
<1> HIDE DEF t
<1>2. /\ served.entity = t.entity /\ served.joins = t.joins /\ served.select = t.select
      /\ t.filters \notin {"braced", "oddop"} => served.filters = t.filters
  <2>1. CASE t.filters = "braced"
    BY <1>1, <2>1 DEF Parse, PlanType
  <2>2. CASE t.filters = "oddop"
    BY <1>1, <2>2 DEF Parse, PlanType
  <2>3. CASE t.filters \notin {"braced", "oddop"}
    BY <2>3 DEF Parse
  <2> QED BY <2>1, <2>2, <2>3
<1> HIDE DEF served
<1>3. Derives(served, plan)
  BY <1>1, <1>2 DEF Derives
<1> QED BY <1>3 DEF served, t

LEMMA AuthoredFacts ==
  ASSUME NEW e \in WithFile, NEW i \in Inputs
  PROVE  /\ Authored(e, i) \in Pattern
         /\ Authored(e, i).slug = HandSlug /\ Authored(e, i).trigger = i
         /\ Authored(e, i).plan.entity = e
         /\ Parse(Authored(e, i).plan) = Authored(e, i).plan
<1>1. Authored(e, i).plan \in PlanType
  BY DEF Authored, PlanType
<1>2. Parse(Authored(e, i).plan) = Authored(e, i).plan
  BY DEF Authored, Parse
<1> QED BY <1>1, <1>2 DEF Authored, Pattern

LEMMA NewPatternFacts ==
  ASSUME NEW i \in Inputs, NEW plan \in Plans
  PROVE  /\ NewPattern(i, plan) \in Pattern
         /\ NewPattern(i, plan).slug = SlugOf[i]
         /\ NewPattern(i, plan).trigger = i
         /\ NewPattern(i, plan).plan = Template(plan)
<1>1. Template(plan) \in PlanType
  BY PlanFacts
<1> QED BY <1>1 DEF NewPattern, Pattern

(* The index entries and the ids of a file's patterns are of its entity,   *)
(* and every entry is that of a pattern.                                   *)
LEMMA EntriesType ==
  ASSUME NEW e \in WithFile, NEW patterns \in SUBSET Pattern
  PROVE  /\ EntriesOf(e, patterns) \subseteq Entry
         /\ \A x \in EntriesOf(e, patterns) : x.entity = e
         /\ Ids(e, patterns) \subseteq WithFile \X Slugs
<1>1. ASSUME NEW p \in patterns
      PROVE  /\ [entity |-> e, slug |-> p.slug, trigger |-> p.trigger] \in Entry
             /\ <<e, p.slug>> \in WithFile \X Slugs
  BY DEF Pattern, Entry
<1>2. EntriesOf(e, patterns) \subseteq Entry /\ Ids(e, patterns) \subseteq WithFile \X Slugs
  BY <1>1 DEF EntriesOf, Ids
<1>3. ASSUME NEW x \in EntriesOf(e, patterns) PROVE x.entity = e
  BY DEF EntriesOf
<1> QED BY <1>2, <1>3

LEMMA EntriesFacts ==
  ASSUME NEW e \in WithFile, NEW patterns \in SUBSET Pattern
  PROVE  /\ \A x \in EntriesOf(e, patterns) :
              /\ <<x.entity, x.slug>> \in Ids(e, patterns)
              /\ \E p \in patterns : p.slug = x.slug /\ p.trigger = x.trigger
         /\ \A id \in Ids(e, patterns) : id[1] = e
<1>1. ASSUME NEW x \in EntriesOf(e, patterns)
      PROVE  /\ <<x.entity, x.slug>> \in Ids(e, patterns)
             /\ \E p \in patterns : p.slug = x.slug /\ p.trigger = x.trigger
  <2>1. PICK p \in patterns : x = [entity |-> e, slug |-> p.slug, trigger |-> p.trigger]
    BY DEF EntriesOf
  <2> QED BY <2>1 DEF Ids
<1> QED BY <1>1 DEF Ids

LEMMA EntryOf ==
  ASSUME NEW e \in WithFile, NEW patterns \in SUBSET Pattern, NEW x \in Entry, x.entity = e,
         NEW p \in patterns, p.slug = x.slug, p.trigger = x.trigger
  PROVE  x \in EntriesOf(e, patterns)
<1>1. x = [entity |-> e, slug |-> p.slug, trigger |-> p.trigger]
  BY DEF Entry
<1> QED BY <1>1 DEF EntriesOf
-----------------------------------------------------------------------------
(* What a request holds: a task that promotes was started by a plan that   *)
(* ran, r being those that did.                                            *)
RequestType ==
  [pc : {"idle", "synth", "run", "promote", "propose"},
   input : Inputs \union {None}, plan : Plans \union {None}]
RequestOK(q, r) ==
  /\ q \in RequestType
  /\ q.pc = "idle" => q = Idle
  /\ q.pc # "idle" => q.input \in Inputs
  /\ q.pc = "synth" => q.plan = None
  /\ q.pc \in {"run", "promote", "propose"} => q.plan \in Plans
  /\ q.pc = "promote" => [input |-> q.input, plan |-> q.plan] \in r

Candidate == [entity : Entities, at : Seconds, pattern : Pattern]

ReqInv == req \in [Requests -> RequestType] /\ \A r \in Requests : RequestOK(req[r], ran)
FilesType == files \in [WithFile -> SUBSET Pattern]
CacheType ==
  /\ index \in SUBSET Entry /\ \A x \in index : x.entity \in WithFile
  /\ DOMAIN byId \subseteq WithFile \X Slugs
QueueType ==
  /\ reviews \in [Entities \X Seconds -> Pattern \union {None}] /\ second \in Seconds
  /\ queued \in SUBSET Candidate /\ cut \in SUBSET (Entities \X Seconds)
CatalogType == {skills, registry} \subseteq Catalogs

TypeInv == ReqInv /\ FilesType /\ CacheType /\ QueueType /\ CatalogType

LEMMA IdleOK == \A r : RequestOK(Idle, r)
BY DEF Idle, RequestOK, RequestType

LEMMA RequestSet ==
  ASSUME NEW r \in Requests, ReqInv, NEW q, RequestOK(q, ran'), ran \subseteq ran',
         req' = [req EXCEPT ![r] = q]
  PROVE  ReqInv'
<1>1. req' \in [Requests -> RequestType]
  BY DEF ReqInv, RequestOK
<1>2. ASSUME NEW x \in Requests PROVE RequestOK(req'[x], ran')
  <2>1. CASE x = r
    BY <2>1 DEF ReqInv
  <2>2. CASE x # r
    <3>1. req'[x] = req[x] /\ RequestOK(req[x], ran)
      BY <2>2 DEF ReqInv
    <3> QED BY <3>1 DEF RequestOK
  <2> QED BY <2>1, <2>2
<1> QED BY <1>1, <1>2 DEF ReqInv

LEMMA AllIdle == req' = [r \in Requests |-> Idle] => ReqInv'
BY IdleOK DEF ReqInv, RequestOK

(* Reloading an entity's file gives the cache entries of that file.        *)
LEMMA ReloadType ==
  ASSUME CacheType, NEW e \in WithFile, NEW patterns \in SUBSET Pattern, Reload(e, patterns)
  PROVE  CacheType'
<1>1. index' \in SUBSET Entry /\ \A x \in index' : x.entity \in WithFile
  <2>1. EntriesOf(e, patterns) \subseteq Entry /\ \A x \in EntriesOf(e, patterns) : x.entity = e
    BY EntriesType
  <2>2. index' = {x \in index : x.entity # e} \union EntriesOf(e, patterns)
    BY DEF Reload
  <2> QED BY <2>1, <2>2 DEF CacheType
<1>2. DOMAIN byId' = DOMAIN byId \union Ids(e, patterns)
  BY DEF Reload
<1>3. DOMAIN byId' \subseteq WithFile \X Slugs
  BY <1>2, EntriesType DEF CacheType
<1> QED BY <1>1, <1>3 DEF CacheType

LEMMA FileEntries ==
  ASSUME FilesType, NEW e \in WithFile
  PROVE  /\ EntriesOf(e, files[e]) \subseteq Entry
         /\ \A x \in EntriesOf(e, files[e]) : x.entity \in WithFile
         /\ Ids(e, files[e]) \subseteq WithFile \X Slugs
<1>1. files[e] \in SUBSET Pattern
  BY DEF FilesType
<1> QED BY <1>1, EntriesType

LEMMA BuildType ==
  ASSUME FilesType,
         index' = UNION {EntriesOf(e, files[e]) : e \in WithFile},
         DOMAIN byId' = UNION {Ids(e, files[e]) : e \in WithFile}
  PROVE  CacheType'
<1>1. \A e \in WithFile : /\ EntriesOf(e, files[e]) \subseteq Entry
                          /\ \A x \in EntriesOf(e, files[e]) : x.entity \in WithFile
                          /\ Ids(e, files[e]) \subseteq WithFile \X Slugs
  BY FileEntries
<1>2. index' \in SUBSET Entry /\ \A x \in index' : x.entity \in WithFile
  BY <1>1
<1>3. DOMAIN byId' \subseteq WithFile \X Slugs
  BY <1>1
<1> QED BY <1>2, <1>3 DEF CacheType

LEMMA FilesInit ==
  ASSUME Init
  PROVE  /\ FilesType
         /\ \A e \in WithFile : files[e] = {} \/ \E i \in Inputs : files[e] = {Authored(e, i)}
<1>1. ASSUME NEW e \in WithFile
      PROVE  /\ files[e] \in SUBSET Pattern
             /\ files[e] = {} \/ \E i \in Inputs : files[e] = {Authored(e, i)}
  <2>1. files[e] = {} \/ \E d \in WithFile : \E i \in Inputs : files[e] = {Authored(d, i)}
    BY DEF Init
  <2>2. CASE files[e] = {}
    BY <2>2
  <2>3. ASSUME NEW d \in WithFile, NEW i \in Inputs, files[e] = {Authored(d, i)}
        PROVE  files[e] = {Authored(e, i)}
    <3>1. Authored(d, i).plan.entity = e
      BY <2>3 DEF Init
    <3>2. d = e
      BY <3>1, AuthoredFacts
    <3> QED BY <2>3, <3>2
  <2> QED BY <2>1, <2>2, <2>3, AuthoredFacts
<1>2. files = [e \in WithFile |-> files[e]]
  BY DEF Init
<1> QED BY <1>1, <1>2 DEF FilesType

LEMMA TypeInit == Init => TypeInv
<1> SUFFICES ASSUME Init PROVE TypeInv
  OBVIOUS
<1>1. ReqInv
  BY IdleOK DEF Init, ReqInv, RequestOK
<1>2. FilesType
  BY FilesInit
<1>3. CacheType
  <2>1. /\ index = UNION {EntriesOf(e, files[e]) : e \in WithFile}
        /\ DOMAIN byId = UNION {Ids(e, files[e]) : e \in WithFile}
    BY DEF Init
  <2> QED BY <1>2, <2>1, FileEntries DEF CacheType
<1>4. QueueType
  BY DEF Init, QueueType, Seconds
<1>5. CatalogType
  BY DEF Init, SkillsInit, CatalogType
<1> QED BY <1>1, <1>2, <1>3, <1>4, <1>5 DEF TypeInv

(* ------------------------------ the steps ------------------------------- *)

(* What each step of a request but an append leaves alone.                 *)
LEMMA RequestFrame ==
  ASSUME NEW r \in Requests, RequestStep(r), ~PromoteAppend(r)
  PROVE  UNCHANGED <<files, index, byId, up>>
<1>1. CASE ResolveHit(r) \/ ResolveMiss(r) \/ SynthReply(r)
  BY <1>1 DEF ResolveHit, ResolveMiss, SynthReply, cache
<1>2. CASE SynthExecuted(r) \/ SynthFailed(r) \/ Propose(r)
  BY <1>2 DEF SynthExecuted, SynthFailed, Propose, cache
<1>3. CASE PromoteElse(r) \/ PromoteReview(r) \/ PromoteCollides(r)
  BY <1>3 DEF PromoteElse, PromoteReview, PromoteCollides, cache
<1> QED BY <1>1, <1>2, <1>3 DEF RequestStep

(* Only a plan that ran is promoted, into the file of its entity, and only *)
(* if its id is free; the callback reloads the file or nothing.            *)
LEMMA Appended ==
  ASSUME TypeInv, NEW r \in Requests, PromoteAppend(r)
  PROVE  \E e \in WithFile, q \in ran :
           /\ q.input \in Inputs /\ q.plan \in Plans /\ q.plan.entity = e
           /\ Confidence(q.plan) >= 95
           /\ ~Taken(e, SlugOf[q.input])
           /\ files' = [files EXCEPT ![e] = files[e] \union {NewPattern(q.input, q.plan)}]
           /\ \/ Reload(e, files'[e]) /\ up' = up
              \/ ~Loadable(files'[e]) /\ UNCHANGED <<index, byId, up>>
              \/ up' = FALSE /\ UNCHANGED <<index, byId>>
<1> DEFINE e == req[r].plan.entity
           q == [input |-> req[r].input, plan |-> req[r].plan]
           patterns == files[e] \union {NewPattern(req[r].input, req[r].plan)}
<1>1. /\ Promoting(r) /\ Tier(req[r]) = "auto" /\ e \in WithFile
      /\ ~Taken(e, SlugOf[req[r].input])
      /\ files' = [files EXCEPT ![e] = patterns]
  BY DEF PromoteAppend, PromotesTo
<1>2. TaskConfidence(req[r]) >= 95
  BY <1>1 DEF Tier
<1>3. req[r].pc = "promote" /\ Confidence(req[r].plan) >= 95
  BY <1>1, <1>2 DEF Promoting, TaskConfidence
<1>4. q \in ran /\ q.input \in Inputs /\ q.plan \in Plans
  BY <1>3 DEF TypeInv, ReqInv, RequestOK
<1>5. files'[e] = patterns
  BY <1>1 DEF TypeInv, FilesType
<1>6. \/ Reload(e, patterns) /\ up' = up
      \/ ~Loadable(patterns) /\ UNCHANGED <<index, byId, up>>
      \/ up' = FALSE /\ UNCHANGED <<index, byId>>
  BY DEF PromoteAppend, cache
<1> HIDE DEF e, patterns
<1>7. q.input = req[r].input /\ q.plan = req[r].plan
  OBVIOUS
<1>8. q.plan.entity = e /\ patterns = files[e] \union {NewPattern(q.input, q.plan)}
  BY <1>7 DEF e, patterns
<1> HIDE DEF q
<1> QED BY <1>1, <1>3, <1>4, <1>5, <1>6, <1>7, <1>8

LEMMA RanGrows == [Next]_vars => ran \subseteq ran'
<1> SUFFICES ASSUME [Next]_vars PROVE ran \subseteq ran'
  OBVIOUS
<1>1. ASSUME NEW r \in Requests, RequestStep(r) PROVE ran \subseteq ran'
  <2>1. CASE ResolveHit(r) \/ ResolveMiss(r) \/ SynthReply(r)
    BY <2>1 DEF ResolveHit, ResolveMiss, SynthReply, histories
  <2>2. CASE SynthExecuted(r) \/ SynthFailed(r) \/ Propose(r)
    BY <2>2 DEF SynthExecuted, SynthFailed, Propose, histories
  <2>3. CASE PromoteElse(r) \/ PromoteReview(r) \/ PromoteCollides(r) \/ PromoteAppend(r)
    BY <2>3 DEF PromoteElse, PromoteReview, PromoteCollides, PromoteAppend, histories
  <2> QED BY <1>1, <2>1, <2>2, <2>3 DEF RequestStep
<1>2. CASE Crash \/ Tick \/ Restart \/ EditSkillFiles
  BY <1>2 DEF Crash, Tick, Restart, EditSkillFiles, histories
<1>3. CASE UNCHANGED vars
  BY <1>3 DEF vars, histories
<1> QED BY <1>1, <1>2, <1>3 DEF Next

LEMMA ReqStep == TypeInv /\ [Next]_vars => ReqInv'
<1> SUFFICES ASSUME TypeInv, [Next]_vars PROVE ReqInv'
  OBVIOUS
<1>a. ran \subseteq ran' /\ ReqInv
  BY RanGrows DEF TypeInv
<1>b. ASSUME NEW r \in Requests, req' = [req EXCEPT ![r] = Idle] PROVE ReqInv'
  BY <1>a, <1>b, IdleOK, RequestSet
<1>c. CASE req' = req
  BY <1>a, <1>c DEF ReqInv, RequestOK
<1>d. \A r \in Requests : RequestOK(req[r], ran)
  BY <1>a DEF ReqInv
<1>1. ASSUME NEW r \in Requests, ResolveHit(r) PROVE ReqInv'
  BY <1>1, <1>c DEF ResolveHit
<1>2. ASSUME NEW r \in Requests, ResolveMiss(r) PROVE ReqInv'
  <2>1. PICK input \in Inputs : req' = [req EXCEPT ![r] = [Idle EXCEPT !.pc = "synth", !.input = input]]
    BY <1>2 DEF ResolveMiss
  <2> DEFINE q == [Idle EXCEPT !.pc = "synth", !.input = input]
  <2>2. RequestOK(q, ran')
    BY DEF RequestOK, RequestType, Idle
  <2> HIDE DEF q
  <2> QED BY <1>a, <2>1, <2>2, RequestSet DEF q
<1>3. ASSUME NEW r \in Requests, SynthReply(r) PROVE ReqInv'
  <2>1. CASE req' = [req EXCEPT ![r] = Idle]
    BY <1>b, <2>1
  <2>2. ASSUME NEW plan \in Plans, req' = [req EXCEPT ![r] = [@ EXCEPT !.pc = "run", !.plan = plan]]
        PROVE  ReqInv'
    <3> DEFINE q == [req[r] EXCEPT !.pc = "run", !.plan = plan]
    <3>1. RequestOK(q, ran')
      BY <1>3, <1>d DEF SynthReply, RequestOK, RequestType
    <3>2. req' = [req EXCEPT ![r] = q]
      BY <2>2
    <3> HIDE DEF q
    <3> QED BY <1>a, <3>1, <3>2, RequestSet
  <2> QED BY <1>3, <2>1, <2>2 DEF SynthReply
<1>4. ASSUME NEW r \in Requests, SynthExecuted(r) PROVE ReqInv'
  <2> DEFINE q == [req[r] EXCEPT !.pc = "promote"]
  <2>1. /\ req[r].pc = "run" /\ req' = [req EXCEPT ![r] = q]
        /\ [input |-> req[r].input, plan |-> req[r].plan] \in ran'
    BY <1>4 DEF SynthExecuted
  <2>2. RequestOK(q, ran')
    BY <1>d, <2>1 DEF RequestOK, RequestType
  <2> HIDE DEF q
  <2> QED BY <1>a, <2>1, <2>2, RequestSet
<1>5. ASSUME NEW r \in Requests, SynthFailed(r) PROVE ReqInv'
  BY <1>5, <1>b DEF SynthFailed
<1>6. ASSUME NEW r \in Requests, Propose(r) PROVE ReqInv'
  <2>1. PICK p \in Proposals :
          req' = [req EXCEPT ![r] = [pc |-> "propose", input |-> p[1], plan |-> p[2]]]
    BY <1>6 DEF Propose
  <2> DEFINE q == [pc |-> "propose", input |-> p[1], plan |-> p[2]]
  <2>2. RequestOK(q, ran')
    BY DEF RequestOK, RequestType
  <2> HIDE DEF q
  <2> QED BY <1>a, <2>1, <2>2, RequestSet DEF q
<1>7. ASSUME NEW r \in Requests, PromoteElse(r) \/ PromoteReview(r) \/ PromoteCollides(r)
      PROVE  ReqInv'
  BY <1>7, <1>b DEF PromoteElse, PromoteReview, PromoteCollides
<1>8. ASSUME NEW r \in Requests, PromoteAppend(r) PROVE ReqInv'
  BY <1>8, <1>b, AllIdle DEF PromoteAppend
<1>9. CASE Crash
  BY <1>9, AllIdle DEF Crash
<1>10. CASE Tick \/ Restart \/ EditSkillFiles \/ UNCHANGED vars
  BY <1>10, <1>c DEF Tick, Restart, EditSkillFiles, vars
<1>11. ASSUME NEW r \in Requests, RequestStep(r) PROVE ReqInv'
  BY <1>1, <1>2, <1>3, <1>4, <1>5, <1>6, <1>7, <1>8, <1>11 DEF RequestStep
<1> QED BY <1>9, <1>10, <1>11 DEF Next

(* Files are only ever appended to.                                        *)
LEMMA FilesStep ==
  TypeInv /\ [Next]_vars => /\ FilesType'
                            /\ \A e \in WithFile : files[e] \subseteq files'[e]
<1> SUFFICES ASSUME TypeInv, [Next]_vars
             PROVE  FilesType' /\ \A e \in WithFile : files[e] \subseteq files'[e]
  OBVIOUS
<1>1. CASE UNCHANGED files
  BY <1>1 DEF TypeInv, FilesType
<1>2. ASSUME NEW r \in Requests, PromoteAppend(r)
      PROVE  FilesType' /\ \A e \in WithFile : files[e] \subseteq files'[e]
  <2>1. PICK e \in WithFile, q \in ran :
          /\ q.input \in Inputs /\ q.plan \in Plans
          /\ files' = [files EXCEPT ![e] = files[e] \union {NewPattern(q.input, q.plan)}]
    BY <1>2, Appended
  <2>2. NewPattern(q.input, q.plan) \in Pattern
    BY <2>1, NewPatternFacts
  <2> QED BY <2>1, <2>2 DEF TypeInv, FilesType
<1>3. ASSUME NEW r \in Requests, RequestStep(r), ~PromoteAppend(r) PROVE UNCHANGED files
  BY <1>3, RequestFrame
<1>4. CASE Crash \/ Tick \/ Restart \/ EditSkillFiles \/ UNCHANGED vars
  BY <1>1, <1>4 DEF Crash, Tick, Restart, EditSkillFiles, vars
<1> QED BY <1>1, <1>2, <1>3, <1>4 DEF Next

LEMMA CacheStep == TypeInv /\ [Next]_vars => CacheType'
<1> SUFFICES ASSUME TypeInv, [Next]_vars PROVE CacheType'
  OBVIOUS
<1>a. CacheType /\ FilesType /\ FilesType'
  BY FilesStep DEF TypeInv
<1>1. CASE UNCHANGED <<index, byId>>
  BY <1>a, <1>1 DEF CacheType
<1>2. ASSUME NEW r \in Requests, PromoteAppend(r) PROVE CacheType'
  <2>1. PICK e \in WithFile : Reload(e, files'[e]) \/ UNCHANGED <<index, byId>>
    BY <1>2, Appended
  <2>2. files'[e] \in SUBSET Pattern
    BY <1>a DEF FilesType
  <2> QED BY <1>a, <1>1, <2>1, <2>2, ReloadType
<1>3. ASSUME NEW r \in Requests, RequestStep(r), ~PromoteAppend(r) PROVE UNCHANGED <<index, byId>>
  BY <1>3, RequestFrame
<1>4. CASE Crash \/ Tick \/ EditSkillFiles \/ UNCHANGED vars
  BY <1>1, <1>4 DEF Crash, Tick, EditSkillFiles, vars, cache
<1>5. CASE Restart
  <2>1. /\ index' = UNION {EntriesOf(e, files[e]) : e \in WithFile}
        /\ DOMAIN byId' = UNION {Ids(e, files[e]) : e \in WithFile}
    BY <1>5 DEF Restart, Build
  <2> QED BY <1>a, <2>1, BuildType
<1> QED BY <1>1, <1>2, <1>3, <1>4, <1>5 DEF Next

(* The review queue changes when a candidate is written, or its write is   *)
(* cut short, in the second it is written.                                 *)
QueueChanges(e, p) ==
  /\ reviews' = [reviews EXCEPT ![<<e, second>>] = p]
  /\ second' = second
  /\ \/ /\ p \in Pattern
        /\ queued' = queued \union {[entity |-> e, at |-> second, pattern |-> p]}
        /\ cut' = cut \ {<<e, second>>}
     \/ p = None /\ queued' = queued /\ cut' = cut \union {<<e, second>>}

LEMMA QueueChange ==
  ASSUME TypeInv, [Next]_vars
  PROVE  \/ UNCHANGED <<reviews, queued, cut>> /\ second' \in Seconds
         \/ \E e \in Entities, p \in Pattern \union {None} : QueueChanges(e, p)
<1> DEFINE Done == \/ UNCHANGED <<reviews, queued, cut>> /\ second' \in Seconds
                   \/ \E e \in Entities, p \in Pattern \union {None} : QueueChanges(e, p)
<1>a. second \in Seconds
  BY DEF TypeInv, QueueType
<1>1. CASE UNCHANGED <<reviews, second, queued, cut>>
  BY <1>a, <1>1
<1>2. ASSUME NEW r \in Requests, PromoteReview(r) PROVE Done
  <2> DEFINE e == req[r].plan.entity
             p == NewPattern(req[r].input, req[r].plan)
  <2>1. req[r].input \in Inputs /\ req[r].plan \in Plans
    BY <1>2 DEF PromoteReview, Promoting, TypeInv, ReqInv, RequestOK
  <2>2. e \in Entities /\ p \in Pattern
    BY <2>1, NewPatternFacts DEF PlanType
  <2>3. /\ second' = second
        /\ \/ /\ reviews' = [reviews EXCEPT ![<<e, second>>] = p]
              /\ queued' = queued \union {[entity |-> e, at |-> second, pattern |-> p]}
              /\ cut' = cut \ {<<e, second>>}
           \/ /\ reviews' = [reviews EXCEPT ![<<e, second>>] = None]
              /\ cut' = cut \union {<<e, second>>} /\ queued' = queued
           \/ UNCHANGED <<reviews, queued, cut>>
    BY <1>2 DEF PromoteReview, ReviewFile
  <2> HIDE DEF e, p
  <2>4. CASE UNCHANGED <<reviews, queued, cut>>
    BY <1>a, <2>3, <2>4
  <2>5. ASSUME NEW x \in {p, None}, QueueChanges(e, x) PROVE Done
    BY <2>2, <2>5
  <2>6. \/ QueueChanges(e, p) \/ QueueChanges(e, None) \/ UNCHANGED <<reviews, queued, cut>>
    BY <2>2, <2>3 DEF QueueChanges
  <2> QED BY <2>4, <2>5, <2>6
<1>3. CASE Tick
  <2>1. second + 1 \in Seconds
    BY <1>3, <1>a DEF Tick, Seconds
  <2> QED BY <1>3, <2>1 DEF Tick
<1>4. ASSUME NEW r \in Requests, RequestStep(r), ~PromoteReview(r)
      PROVE  UNCHANGED <<reviews, second, queued, cut>>
  <2>1. CASE ResolveHit(r) \/ ResolveMiss(r) \/ SynthReply(r)
    BY <2>1 DEF ResolveHit, ResolveMiss, SynthReply, queue
  <2>2. CASE SynthExecuted(r) \/ SynthFailed(r) \/ Propose(r)
    BY <2>2 DEF SynthExecuted, SynthFailed, Propose, queue
  <2>3. CASE PromoteElse(r) \/ PromoteCollides(r) \/ PromoteAppend(r)
    BY <2>3 DEF PromoteElse, PromoteCollides, PromoteAppend, queue
  <2> QED BY <1>4, <2>1, <2>2, <2>3 DEF RequestStep
<1>5. CASE Crash \/ Restart \/ EditSkillFiles \/ UNCHANGED vars
  BY <1>1, <1>5 DEF Crash, Restart, EditSkillFiles, vars, queue
<1> QED BY <1>1, <1>2, <1>3, <1>4, <1>5 DEF Next

LEMMA QueueStep == TypeInv /\ [Next]_vars => QueueType'
<1> SUFFICES ASSUME TypeInv, [Next]_vars PROVE QueueType'
  OBVIOUS
<1>1. QueueType
  BY DEF TypeInv
<1>2. CASE UNCHANGED <<reviews, queued, cut>> /\ second' \in Seconds
  BY <1>1, <1>2 DEF QueueType
<1>3. ASSUME NEW e \in Entities, NEW p \in Pattern \union {None}, QueueChanges(e, p)
      PROVE  QueueType'
  <2>1. <<e, second>> \in Entities \X Seconds /\ second' \in Seconds
    BY <1>1, <1>3 DEF QueueType, QueueChanges
  <2>2. reviews' \in [Entities \X Seconds -> Pattern \union {None}]
    BY <1>1, <1>3, <2>1 DEF QueueType, QueueChanges
  <2>3. queued' \in SUBSET Candidate
    <3>1. p \in Pattern => [entity |-> e, at |-> second, pattern |-> p] \in Candidate
      BY <1>1 DEF QueueType, Candidate
    <3> QED BY <1>1, <1>3, <3>1 DEF QueueType, QueueChanges
  <2>4. cut' \in SUBSET (Entities \X Seconds)
    BY <1>1, <1>3, <2>1 DEF QueueType, QueueChanges
  <2> QED BY <2>1, <2>2, <2>3, <2>4 DEF QueueType
<1> QED BY <1>2, <1>3, QueueChange

LEMMA CatalogStep == TypeInv /\ [Next]_vars => CatalogType'
<1> SUFFICES ASSUME TypeInv, [Next]_vars PROVE CatalogType'
  OBVIOUS
<1>1. CASE UNCHANGED <<skills, registry>>
  BY <1>1 DEF TypeInv, CatalogType
<1>2. CASE Restart
  BY <1>2 DEF Restart, LoadSkills, TypeInv, CatalogType
<1>3. CASE EditSkillFiles
  BY <1>3 DEF EditSkillFiles, EditSkills, TypeInv, CatalogType
<1> QED BY <1>1, <1>2, <1>3 DEF Next, catalogVars, vars

LEMMA TypeStep == TypeInv /\ [Next]_vars => TypeInv'
BY ReqStep, FilesStep, CacheStep, QueueStep, CatalogStep DEF TypeInv

(* Every variable has its type and a request holds what its phase needs.   *)
THEOREM LearningTypeOK == Spec => []TypeOK
<1>1. Spec => []TypeInv
  BY TypeInit, TypeStep, PTL DEF Spec
<1>2. TypeInv => TypeOK
  <2> SUFFICES ASSUME TypeInv PROVE TypeOK
    OBVIOUS
  <2>1. ASSUME NEW r \in Requests
        PROVE  \/ req[r] = Idle
               \/ req[r].pc = "synth" /\ req[r].input \in Inputs /\ req[r].plan = None
               \/ /\ req[r].pc \in {"run", "promote", "propose"}
                  /\ req[r].input \in Inputs /\ req[r].plan \in Plans
    BY DEF TypeInv, ReqInv, RequestOK, RequestType
  <2>2. files \in [WithFile -> SUBSET Pattern]
    BY DEF TypeInv, FilesType
  <2>3. index \subseteq Entry /\ DOMAIN byId \subseteq WithFile \X Slugs
    BY DEF TypeInv, CacheType
  <2>4. reviews \in [Entities \X Seconds -> Pattern \union {None}] /\ second \in Seconds
    BY DEF TypeInv, QueueType
  <2>5. {skills, registry} \subseteq Catalogs
    BY DEF TypeInv, CatalogType
  <2> QED BY <2>1, <2>2, <2>3, <2>4, <2>5 DEF TypeOK
<1> QED BY <1>1, <1>2, PTL
-----------------------------------------------------------------------------
(* A candidate that was written for review stays there until a write of    *)
(* another of its entity begins in the same second.                        *)
LEMMA KeptStep == TypeInv /\ CandidatesKept /\ [Next]_vars => CandidatesKept'
<1> SUFFICES ASSUME TypeInv, CandidatesKept, [Next]_vars PROVE CandidatesKept'
  OBVIOUS
<1>1. CASE UNCHANGED <<reviews, queued, cut>>
  BY <1>1 DEF CandidatesKept
<1>2. ASSUME NEW e \in Entities, NEW p \in Pattern \union {None}, QueueChanges(e, p)
      PROVE  CandidatesKept'
  <2> DEFINE file == <<e, second>>
  <2>1. /\ reviews \in [Entities \X Seconds -> Pattern \union {None}]
        /\ second \in Seconds /\ queued \in SUBSET Candidate /\ file \in Entities \X Seconds
    BY DEF TypeInv, QueueType
  <2>2. /\ reviews' = [reviews EXCEPT ![file] = p] /\ queued \subseteq queued'
        /\ \A other : other # file => (other \in cut => other \in cut')
    BY <1>2 DEF QueueChanges
  <2>3. ASSUME NEW q \in queued'
        PROVE  \/ <<q.entity, q.at>> \in cut'
               \/ \E x \in queued' : /\ x.entity = q.entity /\ x.at = q.at
                                     /\ reviews'[<<x.entity, x.at>>] = x.pattern
    <3>1. CASE q.entity = e /\ q.at = second
      <4>1. CASE p = None /\ cut' = cut \union {file}
        BY <3>1, <4>1
      <4>2. CASE queued' = queued \union {[entity |-> e, at |-> second, pattern |-> p]}
        <5> DEFINE new == [entity |-> e, at |-> second, pattern |-> p]
        <5>1. /\ new \in queued' /\ new.entity = e /\ new.at = second /\ new.pattern = p
          BY <4>2
        <5>2. reviews'[<<e, second>>] = p
          BY <2>1, <2>2
        <5> HIDE DEF new
        <5> QED BY <3>1, <5>1, <5>2
      <4> QED BY <1>2, <4>1, <4>2 DEF QueueChanges
    <3>2. CASE ~(q.entity = e /\ q.at = second)
      <4>1. q \in queued
        BY <1>2, <2>3, <3>2 DEF QueueChanges
      <4>2. <<q.entity, q.at>> # file /\ <<q.entity, q.at>> \in Entities \X Seconds
        BY <2>1, <3>2, <4>1 DEF Candidate
      <4> HIDE DEF file
      <4>3. CASE <<q.entity, q.at>> \in cut
        BY <2>2, <4>2, <4>3
      <4>4. ASSUME NEW x \in queued, x.entity = q.entity, x.at = q.at,
                   reviews[<<x.entity, x.at>>] = x.pattern
            PROVE  x \in queued' /\ reviews'[<<x.entity, x.at>>] = x.pattern
        BY <2>1, <2>2, <4>2, <4>4
      <4> QED BY <4>1, <4>3, <4>4 DEF CandidatesKept
    <3> QED BY <3>1, <3>2
  <2> QED BY <2>3 DEF CandidatesKept
<1> QED BY <1>1, <1>2, QueueChange

(* The review queue loses a candidate only to a write of another one of    *)
(* its entity and second, be that write completed or cut short, across     *)
(* crashes and restarts.                                                   *)
THEOREM CandidatesStayQueued == Spec => []CandidatesKept
<1>1. Init => CandidatesKept
  BY DEF Init, CandidatesKept
<1> QED BY <1>1, TypeInit, TypeStep, KeptStep, PTL DEF Spec
-----------------------------------------------------------------------------
(* A pattern was written by hand, or its plan ran for its trigger, with    *)
(* the confidence that promotion asks for.                                 *)
Origin(e, p, r) ==
  \/ p.plan = Authored(e, p.trigger).plan
  \/ \E x \in r : /\ x.input = p.trigger /\ x.plan \in Plans /\ Confidence(x.plan) >= 95
                  /\ p.plan = Template(x.plan)

FileInv == IdsUnique /\ \A e \in WithFile : \A p \in files[e] : Origin(e, p, ran)

LEMMA FileInit == Init => FileInv
<1> SUFFICES ASSUME Init PROVE FileInv
  OBVIOUS
<1>1. ASSUME NEW e \in WithFile, NEW p \in files[e], NEW q \in files[e]
      PROVE  p = q /\ p.plan = Authored(e, p.trigger).plan
  <2>1. PICK i \in Inputs : files[e] = {Authored(e, i)}
    BY <1>1, FilesInit
  <2> QED BY <1>1, <2>1, AuthoredFacts
<1> QED BY <1>1 DEF FileInv, IdsUnique, Origin

LEMMA FileInvStep == TypeInv /\ FileInv /\ [Next]_vars => FileInv'
<1> SUFFICES ASSUME TypeInv, FileInv, [Next]_vars PROVE FileInv'
  OBVIOUS
<1>a. ran \subseteq ran'
  BY RanGrows
<1>1. CASE UNCHANGED files
  BY <1>a, <1>1 DEF FileInv, IdsUnique, Origin
<1>2. ASSUME NEW r \in Requests, PromoteAppend(r) PROVE FileInv'
  <2>1. PICK e \in WithFile, q \in ran :
          /\ q.input \in Inputs /\ q.plan \in Plans /\ Confidence(q.plan) >= 95
          /\ ~Taken(e, SlugOf[q.input])
          /\ files' = [files EXCEPT ![e] = files[e] \union {NewPattern(q.input, q.plan)}]
    BY <1>2, Appended
  <2> DEFINE new == NewPattern(q.input, q.plan)
  <2>2. /\ new.slug = SlugOf[q.input] /\ new.trigger = q.input
        /\ new.plan = Template(q.plan)
    BY <2>1, NewPatternFacts
  <2>3. files'[e] = files[e] \union {new} /\ \A d \in WithFile \ {e} : files'[d] = files[d]
    BY <2>1 DEF TypeInv, FilesType
  <2> HIDE DEF new
  <2>4. \A p \in files[e] : p.slug # new.slug
    BY <2>1, <2>2 DEF Taken
  <2>5. \A d \in WithFile : \A p1, p2 \in files'[d] : p1.slug = p2.slug => p1 = p2
    BY <2>3, <2>4 DEF FileInv, IdsUnique
  <2>6. Origin(e, new, ran')
    BY <1>a, <2>1, <2>2 DEF Origin
  <2>7. ASSUME NEW d \in WithFile, NEW p \in files'[d] PROVE Origin(d, p, ran')
    <3>1. CASE p \in files[d]
      BY <1>a, <3>1 DEF FileInv, Origin
    <3>2. CASE p \notin files[d]
      <4>1. d = e /\ p = new
        BY <2>3, <2>7, <3>2
      <4> QED BY <2>6, <4>1
    <3> QED BY <3>1, <3>2
  <2> QED BY <2>5, <2>7 DEF FileInv, IdsUnique
<1>3. ASSUME NEW r \in Requests, RequestStep(r), ~PromoteAppend(r) PROVE UNCHANGED files
  BY <1>3, RequestFrame
<1>4. CASE Crash \/ Tick \/ Restart \/ EditSkillFiles \/ UNCHANGED vars
  BY <1>1, <1>4 DEF Crash, Tick, Restart, EditSkillFiles, vars
<1> QED BY <1>1, <1>2, <1>3, <1>4 DEF Next
-----------------------------------------------------------------------------
(* What the cache holds comes from the files f: an id leads to patterns of *)
(* its entity's file, and an entry i to a pattern of its slug and trigger. *)
FromFiles(f, i, ids) ==
  /\ \A id \in DOMAIN ids : ids[id] \subseteq f[id[1]]
  /\ \A x \in i : \E p \in f[x.entity] : p.slug = x.slug /\ p.trigger = x.trigger
  /\ \A x \in i : /\ <<x.entity, x.slug>> \in DOMAIN ids
                  /\ \E p \in ids[<<x.entity, x.slug>>] : p.slug = x.slug
UpToDate(e) == Loadable(files[e]) => {x \in index : x.entity = e} = EntriesOf(e, files[e])

CacheInv ==
  /\ FromFiles(files, index, byId)
  /\ up => \A e \in WithFile : UpToDate(e)

(* Files that grow take nothing away from what was loaded.                 *)
LEMMA FilesGrow ==
  ASSUME NEW f, NEW g, NEW i, NEW ids,
         \A x \in i : x.entity \in WithFile, DOMAIN ids \subseteq WithFile \X Slugs,
         FromFiles(f, i, ids), \A e \in WithFile : f[e] \subseteq g[e]
  PROVE  FromFiles(g, i, ids)
<1>1. ASSUME NEW id \in DOMAIN ids PROVE ids[id] \subseteq g[id[1]]
  <2>1. id[1] \in WithFile /\ ids[id] \subseteq f[id[1]]
    BY DEF FromFiles
  <2> QED BY <2>1
<1>2. ASSUME NEW x \in i
      PROVE  \E p \in g[x.entity] : p.slug = x.slug /\ p.trigger = x.trigger
  <2>1. PICK p \in f[x.entity] : p.slug = x.slug /\ p.trigger = x.trigger
    BY DEF FromFiles
  <2> QED BY <2>1
<1> QED BY <1>1, <1>2 DEF FromFiles

(* Loading every file from nothing.                                        *)
LEMMA Built ==
  ASSUME FilesType, NEW i, NEW ids,
         i = UNION {EntriesOf(e, files[e]) : e \in WithFile},
         ids = [id \in UNION {Ids(e, files[e]) : e \in WithFile} |-> files[id[1]]]
  PROVE  /\ FromFiles(files, i, ids)
         /\ \A e \in WithFile : {x \in i : x.entity = e} = EntriesOf(e, files[e])
<1>1. ASSUME NEW e \in WithFile
      PROVE  /\ \A x \in EntriesOf(e, files[e]) :
                  /\ x.entity = e
                  /\ <<x.entity, x.slug>> \in Ids(e, files[e])
                  /\ \E p \in files[e] : p.slug = x.slug /\ p.trigger = x.trigger
             /\ \A id \in Ids(e, files[e]) : id[1] = e
  <2>1. files[e] \in SUBSET Pattern
    BY DEF FilesType
  <2> QED BY <2>1, EntriesFacts
<1>2. \A id \in DOMAIN ids : ids[id] \subseteq files[id[1]]
  OBVIOUS
<1>3. ASSUME NEW x \in i
      PROVE  /\ \E p \in files[x.entity] : p.slug = x.slug /\ p.trigger = x.trigger
             /\ <<x.entity, x.slug>> \in DOMAIN ids
             /\ \E p \in ids[<<x.entity, x.slug>>] : p.slug = x.slug
  <2>1. PICK e \in WithFile : x \in EntriesOf(e, files[e])
    OBVIOUS
  <2>2. /\ x.entity = e /\ <<x.entity, x.slug>> \in Ids(e, files[e])
        /\ \E p \in files[e] : p.slug = x.slug /\ p.trigger = x.trigger
    BY <1>1, <2>1
  <2>3. <<x.entity, x.slug>> \in DOMAIN ids
    BY <2>2
  <2>4. ids[<<x.entity, x.slug>>] = files[e]
    BY <2>2, <2>3
  <2> QED BY <2>2, <2>3, <2>4
<1>4. ASSUME NEW e \in WithFile PROVE {x \in i : x.entity = e} = EntriesOf(e, files[e])
  <2>1. ASSUME NEW x \in EntriesOf(e, files[e]) PROVE x \in i /\ x.entity = e
    <3>1. x \in i
      OBVIOUS
    <3> QED BY <1>1, <3>1
  <2>2. ASSUME NEW x \in i, x.entity = e PROVE x \in EntriesOf(e, files[e])
    <3>1. PICK d \in WithFile : x \in EntriesOf(d, files[d])
      OBVIOUS
    <3> QED BY <1>1, <2>2, <3>1
  <2> QED BY <2>1, <2>2
<1> QED BY <1>2, <1>3, <1>4 DEF FromFiles

(* Reloading one entity's file.                                            *)
LEMMA Reloaded ==
  ASSUME CacheType, NEW f, FromFiles(f, index, byId),
         NEW e \in WithFile, f[e] \in SUBSET Pattern, Reload(e, f[e])
  PROVE  /\ FromFiles(f, index', byId')
         /\ {x \in index' : x.entity = e} = EntriesOf(e, f[e])
         /\ \A d \in WithFile \ {e} : {x \in index' : x.entity = d} = {x \in index : x.entity = d}
<1>1. /\ \A x \in EntriesOf(e, f[e]) :
           /\ x.entity = e
           /\ <<x.entity, x.slug>> \in Ids(e, f[e])
           /\ \E p \in f[e] : p.slug = x.slug /\ p.trigger = x.trigger
      /\ \A id \in Ids(e, f[e]) : id[1] = e
  <2>1. ASSUME NEW x \in EntriesOf(e, f[e])
        PROVE  /\ x.entity = e
               /\ <<x.entity, x.slug>> \in Ids(e, f[e])
               /\ \E p \in f[e] : p.slug = x.slug /\ p.trigger = x.trigger
    BY EntriesFacts
  <2>2. ASSUME NEW id \in Ids(e, f[e]) PROVE id[1] = e
    BY EntriesFacts
  <2> QED BY <2>1, <2>2
<1>2. /\ index' = {x \in index : x.entity # e} \union EntriesOf(e, f[e])
      /\ DOMAIN byId' = DOMAIN byId \union Ids(e, f[e])
      /\ \A id \in DOMAIN byId' : byId'[id] = IF id \in Ids(e, f[e]) THEN f[e] ELSE byId[id]
  BY DEF Reload
<1>3. ASSUME NEW id \in DOMAIN byId' PROVE byId'[id] \subseteq f[id[1]]
  BY <1>1, <1>2 DEF FromFiles
<1>4. ASSUME NEW x \in index'
      PROVE  /\ \E p \in f[x.entity] : p.slug = x.slug /\ p.trigger = x.trigger
             /\ <<x.entity, x.slug>> \in DOMAIN byId'
             /\ \E p \in byId'[<<x.entity, x.slug>>] : p.slug = x.slug
  <2>1. CASE x \in EntriesOf(e, f[e])
    <3>1. byId'[<<x.entity, x.slug>>] = f[e]
      BY <1>1, <1>2, <2>1
    <3> QED BY <1>1, <1>2, <2>1, <3>1
  <2>2. CASE x \in index /\ x.entity # e
    <3>1. <<x.entity, x.slug>> \notin Ids(e, f[e])
      BY <1>1, <2>2
    <3>2. <<x.entity, x.slug>> \in DOMAIN byId
      BY <2>2 DEF FromFiles
    <3>3. byId'[<<x.entity, x.slug>>] = byId[<<x.entity, x.slug>>]
      BY <1>2, <3>1, <3>2
    <3> QED BY <1>2, <2>2, <3>2, <3>3 DEF FromFiles
  <2> QED BY <1>2, <2>1, <2>2
<1>5. FromFiles(f, index', byId')
  BY <1>3, <1>4 DEF FromFiles
<1> QED BY <1>1, <1>2, <1>5

LEMMA CacheInit == Init => CacheInv
<1> SUFFICES ASSUME Init PROVE CacheInv
  OBVIOUS
<1>1. FilesType
  BY FilesInit
<1>2. /\ index = UNION {EntriesOf(e, files[e]) : e \in WithFile}
      /\ byId = [id \in UNION {Ids(e, files[e]) : e \in WithFile} |-> files[id[1]]]
  BY DEF Init
<1> QED BY <1>1, <1>2, Built DEF CacheInv, UpToDate

LEMMA CacheInvStep == TypeInv /\ CacheInv /\ [Next]_vars => CacheInv'
<1> SUFFICES ASSUME TypeInv, CacheInv, [Next]_vars PROVE CacheInv'
  OBVIOUS
<1>a. /\ CacheType /\ FilesType /\ FilesType'
      /\ \A e \in WithFile : files[e] \subseteq files'[e]
  BY FilesStep DEF TypeInv
<1>b. FromFiles(files', index, byId)
  <2>1. FromFiles(files, index, byId)
    BY DEF CacheInv
  <2> QED BY <1>a, <2>1, FilesGrow DEF CacheType
<1>1. CASE UNCHANGED <<files, index, byId>> /\ (up' => up)
  BY <1>1 DEF CacheInv, UpToDate
<1>2. ASSUME NEW r \in Requests, PromoteAppend(r) PROVE CacheInv'
  <2>1. PICK e \in WithFile, q \in ran :
          /\ files' = [files EXCEPT ![e] = files[e] \union {NewPattern(q.input, q.plan)}]
          /\ \/ Reload(e, files'[e]) /\ up' = up
             \/ ~Loadable(files'[e]) /\ UNCHANGED <<index, byId, up>>
             \/ up' = FALSE /\ UNCHANGED <<index, byId>>
    BY <1>2, Appended
  <2>2. /\ files'[e] \in SUBSET Pattern
        /\ \A d \in WithFile \ {e} : files'[d] = files[d]
    BY <1>a, <2>1 DEF FilesType
  <2>3. CASE Reload(e, files'[e]) /\ up' = up
    <3>1. /\ FromFiles(files', index', byId')
          /\ {x \in index' : x.entity = e} = EntriesOf(e, files'[e])
          /\ \A d \in WithFile \ {e} :
               {x \in index' : x.entity = d} = {x \in index : x.entity = d}
      BY <1>a, <1>b, <2>2, <2>3, Reloaded
    <3>2. ASSUME up', NEW d \in WithFile PROVE UpToDate(d)'
      <4>1. CASE d = e
        BY <3>1, <4>1 DEF UpToDate
      <4>2. CASE d # e
        <5>1. UpToDate(d) /\ files'[d] = files[d]
          BY <2>2, <2>3, <3>2, <4>2 DEF CacheInv
        <5> QED BY <3>1, <4>2, <5>1 DEF UpToDate
      <4> QED BY <4>1, <4>2
    <3> QED BY <3>1, <3>2 DEF CacheInv
  <2>4. CASE ~Loadable(files'[e]) /\ UNCHANGED <<index, byId, up>>
    <3>1. ASSUME up', NEW d \in WithFile PROVE UpToDate(d)'
      <4>1. CASE d = e
        BY <2>4, <4>1 DEF UpToDate
      <4>2. CASE d # e
        <5>1. UpToDate(d) /\ files'[d] = files[d]
          BY <2>2, <2>4, <3>1, <4>2 DEF CacheInv
        <5> QED BY <2>4, <5>1 DEF UpToDate
      <4> QED BY <4>1, <4>2
    <3> QED BY <1>b, <2>4, <3>1 DEF CacheInv
  <2>5. CASE up' = FALSE /\ UNCHANGED <<index, byId>>
    BY <1>b, <2>5 DEF CacheInv
  <2> QED BY <2>1, <2>3, <2>4, <2>5
<1>3. ASSUME NEW r \in Requests, RequestStep(r), ~PromoteAppend(r)
      PROVE  UNCHANGED <<files, index, byId, up>>
  BY <1>3, RequestFrame
<1>4. CASE Crash \/ Tick \/ EditSkillFiles \/ UNCHANGED vars
  BY <1>1, <1>4 DEF Crash, Tick, EditSkillFiles, vars, cache
<1>5. CASE Restart
  <2>1. /\ index' = UNION {EntriesOf(e, files[e]) : e \in WithFile}
        /\ byId' = [id \in UNION {Ids(e, files[e]) : e \in WithFile} |-> files[id[1]]]
        /\ files' = files
    BY <1>5 DEF Restart, Build
  <2>2. /\ FromFiles(files, index', byId')
        /\ \A e \in WithFile : {x \in index' : x.entity = e} = EntriesOf(e, files[e])
    BY <1>a, <2>1, Built
  <2> QED BY <2>1, <2>2 DEF CacheInv, UpToDate
<1> QED BY <1>1, <1>2, <1>3, <1>4, <1>5 DEF Next

(* While the process runs, its index holds for each file that loads the    *)
(* triggers of exactly that file, and every trigger that matches leads to  *)
(* a pattern.                                                              *)
THEOREM IndexAlwaysFollowsFiles == Spec => []IndexFollowsFiles
<1>1. Spec => [](TypeInv /\ CacheInv)
  BY TypeInit, TypeStep, CacheInit, CacheInvStep, PTL DEF Spec
<1>2. CacheInv => IndexFollowsFiles
  <2> SUFFICES ASSUME CacheInv, up PROVE IndexFollowsFiles
    BY DEF IndexFollowsFiles
  <2>1. \A e \in WithFile :
          Loadable(files[e]) => {x \in index : x.entity = e} = EntriesOf(e, files[e])
    BY DEF CacheInv, UpToDate
  <2>2. ASSUME NEW x \in index PROVE Stored(x) # {}
    <3>1. /\ <<x.entity, x.slug>> \in DOMAIN byId
          /\ \E p \in byId[<<x.entity, x.slug>>] : p.slug = x.slug
      BY DEF CacheInv, FromFiles
    <3> QED BY <3>1 DEF Stored
  <2> QED BY <2>1, <2>2 DEF IndexFollowsFiles
<1> QED BY <1>1, <1>2, PTL

(* A trigger in service leaves it only when the process stops.             *)
THEOREM TriggersAlwaysStay == Spec => TriggersStayInService
<1>1. TypeInv /\ TypeInv' /\ CacheInv /\ [Next]_vars => [up /\ up' => index \subseteq index']_vars
  <2> SUFFICES ASSUME TypeInv, TypeInv', CacheInv, [Next]_vars, up, up'
               PROVE  index \subseteq index'
    OBVIOUS
  <2>1. ASSUME NEW r \in Requests, PromoteAppend(r) PROVE index \subseteq index'
    <3>1. PICK e \in WithFile, q \in ran :
            Reload(e, files'[e]) \/ UNCHANGED index
      BY <2>1, Appended
    <3>2. ASSUME NEW x \in index, Reload(e, files'[e]) PROVE x \in index'
      <4>1. index' = {y \in index : y.entity # e} \union EntriesOf(e, files'[e])
        BY <3>2 DEF Reload
      <4>2. CASE x.entity = e
        <5>1. x \in Entry /\ files'[e] \in SUBSET Pattern /\ files[e] \subseteq files'[e]
          BY FilesStep DEF TypeInv, CacheType, FilesType
        <5>2. PICK p \in files[e] : p.slug = x.slug /\ p.trigger = x.trigger
          BY <4>2 DEF CacheInv, FromFiles
        <5>3. x \in EntriesOf(e, files'[e])
          BY <4>2, <5>1, <5>2, EntryOf
        <5> QED BY <4>1, <5>3
      <4>3. CASE x.entity # e
        BY <4>1, <4>3
      <4> QED BY <4>2, <4>3
    <3> QED BY <3>1, <3>2
  <2>2. ASSUME NEW r \in Requests, RequestStep(r), ~PromoteAppend(r) PROVE index' = index
    BY <2>2, RequestFrame
  <2>3. CASE Crash \/ Tick \/ Restart \/ EditSkillFiles \/ UNCHANGED vars
    BY <2>3 DEF Crash, Tick, Restart, EditSkillFiles, vars, cache
  <2> QED BY <2>1, <2>2, <2>3 DEF Next
<1>2. TypeInv /\ CacheInv /\ [Next]_vars => (TypeInv /\ CacheInv)'
  BY TypeStep, CacheInvStep
<1> QED BY <1>1, <1>2, TypeInit, CacheInit, PTL DEF Spec, TriggersStayInService
-----------------------------------------------------------------------------
(* What the cache answers was written by hand, or derives from a plan that *)
(* ran for an input that this one matches.                                 *)
Derived(a, r) ==
  a.source = "pattern_cache" /\ a.plan # None =>
    \/ a.plan = Authored(a.plan.entity, a.input).plan
    \/ \E x \in r : /\ Score[a.input][x.input] >= 90
                    /\ Confidence(x.plan) >= 95
                    /\ Derives(a.plan, x.plan)

(* A matching entry leads to the one pattern of its id, which has its      *)
(* trigger.                                                                *)
LEMMA StoredDerived ==
  ASSUME TypeInv, FileInv, CacheInv, NEW input \in Inputs, NEW x \in Hits(input),
         NEW plan \in Stored(x)
  PROVE  Derived([input |-> input, source |-> "pattern_cache", plan |-> plan], ran)
<1>1. x \in index /\ x \in Entry /\ x.entity \in WithFile /\ Score[input][x.trigger] >= 90
  BY DEF Hits, TypeInv, CacheType
<1>2. PICK p \in byId[<<x.entity, x.slug>>] : p.slug = x.slug /\ plan = Parse(p.plan)
  BY DEF Stored
<1>3. <<x.entity, x.slug>> \in DOMAIN byId
  BY <1>1 DEF CacheInv, FromFiles
<1>4. p \in files[x.entity]
  BY <1>2, <1>3 DEF CacheInv, FromFiles
<1>5. PICK q \in files[x.entity] : q.slug = x.slug /\ q.trigger = x.trigger
  BY <1>1 DEF CacheInv, FromFiles
<1>6. p = q
  BY <1>1, <1>2, <1>4, <1>5 DEF FileInv, IdsUnique
<1>7. Origin(x.entity, p, ran) /\ p.trigger = x.trigger
  BY <1>1, <1>4, <1>5, <1>6 DEF FileInv
<1> DEFINE a == [input |-> input, source |-> "pattern_cache", plan |-> plan]
<1>8. a.plan = plan /\ a.input = input
  OBVIOUS
<1>9. CASE p.plan = Authored(x.entity, p.trigger).plan
  <2>1. x.trigger \in Inputs
    BY <1>1 DEF Entry
  <2>2. plan = Authored(x.entity, x.trigger).plan /\ plan.entity = x.entity
    BY <1>1, <1>2, <1>7, <1>9, <2>1, AuthoredFacts
  <2>3. Authored(x.entity, x.trigger).plan = Authored(x.entity, input).plan
    BY DEF Authored
  <2> HIDE DEF a
  <2> QED BY <1>8, <2>2, <2>3 DEF Derived, a
<1>10. ASSUME NEW y \in ran, y.input = p.trigger, y.plan \in Plans,
              Confidence(y.plan) >= 95,
              p.plan = Template(y.plan)
       PROVE  Derived(a, ran)
  <2>1. Derives(plan, y.plan)
    BY <1>2, <1>10, ParsedDerives
  <2> HIDE DEF a
  <2> QED BY <1>1, <1>2, <1>7, <1>8, <1>10, <2>1 DEF Derived
<1> QED BY <1>7, <1>9, <1>10 DEF Origin

LEMMA AnswersStep ==
  TypeInv /\ FileInv /\ CacheInv /\ ServedPlansDerived /\ [Next]_vars
    => ServedPlansDerived'
<1> SUFFICES ASSUME TypeInv, FileInv, CacheInv, [Next]_vars,
                    \A a \in answers : Derived(a, ran)
             PROVE  \A a \in answers' : Derived(a, ran')
  BY DEF ServedPlansDerived, Derived
<1>a. \A a : Derived(a, ran) => Derived(a, ran')
  BY RanGrows DEF Derived
<1>1. CASE UNCHANGED answers
  BY <1>a, <1>1
<1>2. ASSUME NEW r \in Requests, ResolveHit(r), NEW a \in answers' PROVE Derived(a, ran')
  <2>0. PICK input \in Inputs : \E x \in Hits(input) :
          \/ \E plan \in Stored(x) : Answer(input, "pattern_cache", plan)
          \/ Answer(input, "pattern_cache", None)
    BY <1>2 DEF ResolveHit
  <2>1. PICK x \in Hits(input) :
          \/ \E plan \in Stored(x) : Answer(input, "pattern_cache", plan)
          \/ Answer(input, "pattern_cache", None)
    BY <2>0
  <2>2. CASE Answer(input, "pattern_cache", None)
    <3>1. a \in answers \/ a.plan = None
      BY <1>2, <2>2 DEF Answer
    <3> QED BY <1>a, <3>1 DEF Derived
  <2>3. ASSUME NEW plan \in Stored(x), Answer(input, "pattern_cache", plan)
        PROVE  Derived(a, ran')
    <3>1. \/ a \in answers
          \/ a = [input |-> input, source |-> "pattern_cache", plan |-> plan]
      BY <1>2, <2>3 DEF Answer
    <3>2. Derived([input |-> input, source |-> "pattern_cache", plan |-> plan], ran)
      BY StoredDerived
    <3> QED BY <1>a, <3>1, <3>2
  <2> QED BY <2>1, <2>2, <2>3
<1>3. ASSUME NEW r \in Requests, SynthReply(r) \/ SynthExecuted(r) \/ SynthFailed(r),
             NEW a \in answers'
      PROVE  Derived(a, ran')
  <2>1. a \in answers \/ a.source # "pattern_cache"
    <3>1. CASE SynthReply(r)
      <4>1. UNCHANGED answers \/ Answer(req[r].input, "none", None)
        BY <3>1 DEF SynthReply
      <4> QED BY <1>3, <4>1 DEF Answer
    <3>2. CASE SynthExecuted(r)
      BY <1>3, <3>2 DEF SynthExecuted, Answer
    <3>3. CASE SynthFailed(r)
      BY <1>3, <3>3 DEF SynthFailed, Answer
    <3> QED BY <1>3, <3>1, <3>2, <3>3
  <2> QED BY <1>a, <2>1 DEF Derived
<1>4. ASSUME NEW r \in Requests,
             \/ ResolveMiss(r) \/ Propose(r) \/ PromoteElse(r)
             \/ PromoteReview(r) \/ PromoteCollides(r) \/ PromoteAppend(r)
      PROVE  UNCHANGED answers
  <2>1. CASE ResolveMiss(r) \/ Propose(r) \/ PromoteElse(r)
    BY <2>1 DEF ResolveMiss, Propose, PromoteElse, histories
  <2>2. CASE PromoteReview(r) \/ PromoteCollides(r) \/ PromoteAppend(r)
    BY <2>2 DEF PromoteReview, PromoteCollides, PromoteAppend, histories
  <2> QED BY <1>4, <2>1, <2>2
<1>5. CASE Crash \/ Tick \/ Restart \/ EditSkillFiles \/ UNCHANGED vars
  BY <1>1, <1>5 DEF Crash, Tick, Restart, EditSkillFiles, vars, histories
<1> QED BY <1>1, <1>2, <1>3, <1>4, <1>5 DEF Next, RequestStep

(* The pattern cache answers only with plans that were written by hand, or *)
(* that derive, as their template is read back, from one that ran for a    *)
(* matching input with the confidence that promotion asks for: nothing     *)
(* that a user proposes is served.                                         *)
THEOREM ServedPlansAlwaysDerived == Spec => []ServedPlansDerived
<1>1. Init => ServedPlansDerived
  BY DEF Init, ServedPlansDerived
<1> QED BY <1>1, TypeInit, TypeStep, FileInit, FileInvStep, CacheInit, CacheInvStep,
           AnswersStep, PTL DEF Spec
-----------------------------------------------------------------------------
LEMMA AcceptedRefs ==
  ASSUME NEW catalog, NEW entities, Accepted(catalog, entities)
  PROVE  ReferencesSound(catalog) /\ DetectCircularFks(FkGraph(catalog)) = {}
<1>1. /\ Parses(catalog) /\ EntitiesUnique(catalog) /\ EnumsUnique(catalog)
      /\ ReferencesResolve(catalog)
      /\ DetectCircularFks(FkGraph(catalog)) = {}
  BY DEF Accepted
<1>2. ASSUME NEW i \in DOMAIN catalog.files, NEW fk \in catalog.files[i].fks
      PROVE  \E j \in DOMAIN catalog.files :
               catalog.files[j].entity = fk.entity /\ catalog.files[j].parses
  <2>1. fk.entity \in EntityNames(catalog)
    BY <1>1 DEF ReferencesResolve
  <2> QED BY <1>1, <2>1 DEF EntityNames, Parses
<1>3. ASSUME NEW i \in DOMAIN catalog.files, NEW j \in DOMAIN catalog.files,
             catalog.files[j].entity = catalog.files[i].entity
      PROVE  i = j
  BY <1>1, <1>3 DEF EntitiesUnique
<1>4. ASSUME NEW i \in DOMAIN catalog.enums
      PROVE  {j \in DOMAIN catalog.enums : catalog.enums[j] = catalog.enums[i]} = {i}
  <2>1. \A j \in DOMAIN catalog.enums : catalog.enums[i] = catalog.enums[j] => i = j
    BY <1>1 DEF EnumsUnique
  <2> DEFINE same == {j \in DOMAIN catalog.enums : catalog.enums[j] = catalog.enums[i]}
  <2>2. \A j : j \in same <=> j \in {i}
    BY <2>1, Zenon
  <2> HIDE DEF same
  <2> QED BY <2>2 DEF same
<1>5. \A name \in Range(catalog.enums) : \E i \in DOMAIN catalog.enums :
        {j \in DOMAIN catalog.enums : catalog.enums[j] = name} = {i}
  BY <1>4 DEF Range
<1> QED BY <1>1, <1>2, <1>3, <1>5 DEF ReferencesSound

(* What runs was accepted when it was loaded, with the patterns of then.   *)
Loaded == up => \E patterns : Accepted(registry, patterns)

LEMMA AcceptedStep ==
  Loaded /\ [Next]_vars => Loaded'
<1> SUFFICES ASSUME Loaded, [Next]_vars, up'
             PROVE  \E patterns : Accepted(registry', patterns)
  BY DEF Loaded
<1>1. CASE UNCHANGED <<registry, up>>
  BY <1>1 DEF Loaded
<1>2. CASE Restart
  BY <1>2 DEF Restart, LoadSkills
<1>3. CASE EditSkillFiles
  BY <1>1, <1>3 DEF EditSkillFiles, EditSkills
<1>4. CASE (Crash \/ Tick) /\ UNCHANGED catalogVars
  BY <1>1, <1>4 DEF Crash, Tick, catalogVars
<1>5. CASE UNCHANGED vars
  BY <1>1, <1>5 DEF vars, catalogVars
<1>6. ASSUME NEW r \in Requests, RequestStep(r), UNCHANGED catalogVars
      PROVE  UNCHANGED registry /\ up
  <2>1. CASE PromoteAppend(r)
    BY <1>6, <2>1 DEF PromoteAppend, PromotesTo, Promoting, catalogVars
  <2>2. CASE ~PromoteAppend(r)
    BY <1>6, <2>2, RequestFrame DEF catalogVars
  <2> QED BY <2>1, <2>2
<1> QED BY <1>1, <1>2, <1>3, <1>4, <1>5, <1>6 DEF Next

LEMMA RegistryGraph ==
  ASSUME NEW catalog \in Catalogs
  PROVE  IsFiniteSet(DOMAIN FkGraph(catalog))
<1> DEFINE places == DOMAIN catalog.files
           names == [i \in places |-> catalog.files[i].entity]
<1>1. IsFiniteSet(places)
  BY SkillRegistryAssumption
<1>2. names \in Surjection(places, EntityNames(catalog))
  BY DEF Surjection, EntityNames
<1>3. IsFiniteSet(EntityNames(catalog))
  BY <1>1, <1>2, FS_Surjection
<1> QED BY <1>3 DEF FkGraph

(* No promotion spoils the files for the next start by writing an id       *)
(* twice; the walk along foreign keys is right; and whatever operators     *)
(* leave on disk before a start, the registry that runs defines each       *)
(* entity and enum once, with no foreign key to nowhere or in a circle.    *)
THEOREM FilesAndRegistryStaySound == Spec => []FilesStaySound
<1>1. Init => Loaded
  BY DEF Init, SkillsInit, Loaded
<1>2. CircularFksDetected
  BY CircularFksFound DEF CircularFksDetected
<1>3. TypeInv /\ FileInv /\ Loaded => FilesStaySound
  <2> SUFFICES ASSUME TypeInv, FileInv, Loaded
               PROVE  FilesStaySound
    OBVIOUS
  <2>1. ASSUME up PROVE SoundCatalog(registry)
    <3>1. ReferencesSound(registry) /\ DetectCircularFks(FkGraph(registry)) = {}
      BY <2>1, AcceptedRefs DEF Loaded
    <3>2. IsFiniteSet(DOMAIN FkGraph(registry))
      BY RegistryGraph DEF TypeInv, CatalogType
    <3> QED BY <3>1, <3>2, CircularFksFound DEF SoundCatalog
  <2> QED BY <1>2, <2>1 DEF FilesStaySound, FileInv
<1> QED BY <1>1, <1>3, TypeInit, TypeStep, FileInit, FileInvStep, AcceptedStep, PTL DEF Spec
=============================================================================
