---------------------------- MODULE SkillRegistry ----------------------------
(***************************************************************************)
(* The skill files that operators edit, and the registry a start of the    *)
(* process makes of them once it has found nothing wrong.  The registry is *)
(* read-only from then on: files that change wait for the next start.      *)
(***************************************************************************)
EXTENDS Naturals, Sequences, FiniteSets, FiniteSetsExt, SequencesExt

CONSTANT Catalogs  \* what the directories of skills, enums and adapters may hold

(* A catalog has its *.skill.yaml files in the order of their paths, the   *)
(* enum of each enum file, and the other names there are: adapters, files  *)
(* that exist.  A skill file parses (has a primary key, distinct fields,   *)
(* ...) or not; it refers to enums and names, and by its foreign keys to   *)
(* entities and their fields.                                              *)
SkillFile(file) ==
  /\ DOMAIN file = {"entity", "parses", "refs", "fks"}
  /\ file.parses \in BOOLEAN
  /\ \A fk \in file.fks : DOMAIN fk = {"entity", "pk"} /\ fk.pk \in BOOLEAN

ASSUME SkillRegistryAssumption ==
  \A catalog \in Catalogs :
    /\ DOMAIN catalog = {"files", "enums", "names"} /\ IsFiniteSet(DOMAIN catalog.files)
    /\ \A i \in DOMAIN catalog.files : SkillFile(catalog.files[i])

VARIABLES
  skills,   \* the catalog on disk
  registry  \* app.state.skill_registry

catalogVars == <<skills, registry>>

EntityNames(catalog) == {catalog.files[i].entity : i \in DOMAIN catalog.files}

(* build_fk_graph: of two files of one entity the last counts.             *)
FkGraph(catalog) ==
  [e \in EntityNames(catalog) |->
    LET last == Max({i \in DOMAIN catalog.files : catalog.files[i].entity = e})
    IN  {fk.entity : fk \in catalog.files[last].fks}]

(* discover_all collects what does not parse.                              *)
Parses(catalog) == \A i \in DOMAIN catalog.files : catalog.files[i].parses

(* ------------------------ phase 2: cross references --------------------- *)

EntitiesUnique(catalog) ==
  \A i, j \in DOMAIN catalog.files :
    catalog.files[i].entity = catalog.files[j].entity => i = j
EnumsUnique(catalog) ==
  \A i, j \in DOMAIN catalog.enums : catalog.enums[i] = catalog.enums[j] => i = j

(* enumRef, adapter, patterns_file and mutations_file name what is there,  *)
(* and a foreign key the primary key of an entity that is.                 *)
ReferencesResolve(catalog) ==
  \A i \in DOMAIN catalog.files :
    /\ catalog.files[i].refs \subseteq Range(catalog.enums) \union catalog.names
    /\ \A fk \in catalog.files[i].fks : fk.entity \in EntityNames(catalog) /\ fk.pk

(* patterns: the ids in each entity's patterns file.                       *)
PatternsBelong(catalog, patterns) ==
  /\ DOMAIN patterns \subseteq EntityNames(catalog)
  /\ \A d, e \in DOMAIN patterns : patterns[d] \intersect patterns[e] # {} => d = e

(* -------------------------- phase 3: semantics -------------------------- *)

ClosesCycle_Unvisited(node, path, visited) ==  \* variant: visited is looked at first
  node \in Range(path) /\ node \notin visited
ClosesCycle(node, path, visited) == node \in Range(path)

(* A call of dfs: what its loop has left, the path to there, the entities  *)
(* visited and cycles found so far.                                        *)
Found(graph) == [visited : SUBSET DOMAIN graph, cycles : SUBSET Seq(DOMAIN graph)]
Calls(graph) ==
  [nodes : SUBSET DOMAIN graph, path : Seq(DOMAIN graph), found : Found(graph)]
Targets(graph, node) == (graph[node] \intersect DOMAIN graph) \ {node}

(* dfs of _detect_circular_fks, and the loops around it.                   *)
Dfs(graph) ==
  LET dfs[call \in Calls(graph)] ==
        IF call.nodes = {} THEN call.found
        ELSE LET node == CHOOSE n \in call.nodes : TRUE
                 after ==
                   IF ClosesCycle(node, call.path, call.found.visited)
                   THEN [call.found EXCEPT !.cycles = @ \union {Append(call.path, node)}]
                   ELSE IF node \in call.found.visited THEN call.found
                   ELSE dfs[[nodes |-> Targets(graph, node), path |-> Append(call.path, node),
                             found |-> [call.found EXCEPT !.visited = @ \union {node}]]]
             IN  dfs[[call EXCEPT !.nodes = @ \ {node}, !.found = after]]
  IN  dfs

DetectCircularFks(graph) ==
  Dfs(graph)[[nodes |-> DOMAIN graph, path |-> <<>>,
              found |-> [visited |-> {}, cycles |-> {}]]].cycles

(* ------------------------------- start ---------------------------------- *)

(* run_validation.  A shadowed trigger or an entity without mutations is   *)
(* only a warning.                                                         *)
Accepted(catalog, patterns) ==
  /\ Parses(catalog)
  /\ EntitiesUnique(catalog) /\ EnumsUnique(catalog) /\ ReferencesResolve(catalog)
  /\ PatternsBelong(catalog, patterns)
  /\ DetectCircularFks(FkGraph(catalog)) = {}

SkillsInit(patterns) ==
  /\ skills \in {catalog \in Catalogs : Accepted(catalog, patterns)}
  /\ registry = skills

(* Anything wrong ends the start (sys.exit), and the process stays down.   *)
LoadSkills(patterns) ==
  /\ Accepted(skills, patterns)
  /\ registry' = skills /\ UNCHANGED skills

(* Operators edit the files, here while the process is down: while it runs *)
(* it does not look.                                                       *)
EditSkills == skills' \in Catalogs /\ UNCHANGED registry
-----------------------------------------------------------------------------
(* The reference for circular dependencies: entities that each depend on   *)
(* another one of them.  An entity may refer to itself.                    *)
Circular(graph) ==
  \E group \in (SUBSET DOMAIN graph) \ {{}} :
    \A e \in group : (graph[e] \ {e}) \intersect group # {}

(* Each entity and each enum is defined once, and a foreign key leads to   *)
(* an entity.                                                              *)
ReferencesSound(catalog) ==
  /\ \A i \in DOMAIN catalog.files :
       LET skill == catalog.files[i] IN
         /\ \A fk \in skill.fks : \E j \in DOMAIN catalog.files :
              catalog.files[j].entity = fk.entity /\ catalog.files[j].parses
         /\ \A j \in DOMAIN catalog.files : catalog.files[j].entity = skill.entity => i = j
  /\ \A name \in Range(catalog.enums) : \E i \in DOMAIN catalog.enums :
       {j \in DOMAIN catalog.enums : catalog.enums[j] = name} = {i}

SoundCatalog(catalog) == ReferencesSound(catalog) /\ ~Circular(FkGraph(catalog))
=============================================================================
