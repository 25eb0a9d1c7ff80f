---------------------------- MODULE GltfConverter ----------------------------
(***************************************************************************)
(* vpak add-gltf (tools/vpak/gltf_parser.cc, main.cc): a tasklet for each  *)
(* material and each primitive of a document adds its entries to the       *)
(* package and leaves what the scenes need to know in maps; when all are   *)
(* done a tasklet for each scene builds its world from these; when all of  *)
(* those are done the package is committed.  Any tasklet may fail, at      *)
(* which convert() returns and takes the converter with it.                *)
(*                                                                         *)
(* Names differ, no material has both a colour and an image (the code      *)
(* stops at one that has), and nodes form trees.                           *)
(***************************************************************************)
EXTENDS Naturals, SequencesExt

CONSTANT Document
(* materials: [name, albedo, normal], whether it has either image;         *)
(* meshes: [name, primitives], the material of each, 0 for none; nodes:    *)
(* [mesh, children], 0 for no mesh; scenes: [name, roots].                 *)

NamesDiffer(items) == \A i, j \in DOMAIN items : items[i].name = items[j].name => i = j

ASSUME DocumentAssumption ==
  /\ Document.materials \in Seq([name : STRING, albedo : BOOLEAN, normal : BOOLEAN])
  /\ Document.meshes \in Seq([name : STRING, primitives : Seq(0 .. Len(Document.materials))])
  /\ Document.nodes \in Seq([mesh : 0 .. Len(Document.meshes), children : Seq(1 .. Len(Document.nodes))])
  /\ Document.scenes \in Seq([name : STRING, roots : Seq(1 .. Len(Document.nodes))])
  /\ NamesDiffer(Document.materials) /\ NamesDiffer(Document.meshes) /\ NamesDiffer(Document.scenes)

VARIABLES
  stage, item, part,  (* how far convert() is                                  *)
  futures,            (* the jobs scheduled and not seen to end, in their order *)
  job,                (* where the tasklet of each job is                      *)
  m_albedo_paths, m_normal_paths, m_mesh_bounds,
  entries,            (* <<name, job>> for each entry that was finished        *)
  calls,              (* of visit_node() that a scene has yet to make          *)
  worlds              (* the entities of each scene                            *)

progress == <<stage, item, part>>
maps == <<m_albedo_paths, m_normal_paths, m_mesh_bounds>>
scenes == <<calls, worlds>>
gltfVars == <<progress, futures, job, maps, entries, scenes>>

Materials == DOMAIN Document.materials
Meshes == DOMAIN Document.meshes
Scenes == DOMAIN Document.scenes
Primitives(m) == DOMAIN Document.meshes[m].primitives

MaterialJobs == {<<"material", i>> : i \in Materials}
PrimitiveJobs == UNION {{<<"primitive", m, p>> : p \in Primitives(m)} : m \in Meshes}
SceneJobs == {<<"scene", s>> : s \in Scenes}
AllJobs == MaterialJobs \cup PrimitiveJobs \cup SceneJobs

(* The names of entries. *)
Albedo(i) == <<"/materials/albedo", Document.materials[i].name>>
Normal(i) == <<"/materials/normal", Document.materials[i].name>>
MeshName(m, p) == <<Document.meshes[m].name, p>>
MeshEntry(m, p) == <<"/meshes", MeshName(m, p)>>
SceneEntry(s) == <<"/scenes", Document.scenes[s].name>>

(* The calls of visit_node() for some nodes, the first of which is next. *)
CallsFor(parent, nodes) == [n \in DOMAIN nodes |-> [parent |-> parent, node |-> nodes[n]]]

GltfInit ==
  /\ stage = "parse" /\ item = 1 /\ part = 1
  /\ futures = <<>> /\ job = [j \in AllJobs |-> "none"]
  /\ m_albedo_paths = <<>> /\ m_normal_paths = <<>> /\ m_mesh_bounds = {}
  /\ entries = {}
  /\ calls = [s \in Scenes |-> CallsFor(0, Document.scenes[s].roots)]
  /\ worlds = [s \in Scenes |-> <<>>]

-----------------------------------------------------------------------------
(* convert(). *)

GoesTo(to) == stage' = to /\ item' = 1 /\ part' = 1

(* It returns an error, which ends the program without a commit. *)
Fails == GoesTo("failed") /\ UNCHANGED <<futures, job>>

Schedules(j) == job' = [job EXCEPT ![j] = j[1]] /\ futures' = Append(futures, j)

(* parse_glb() and json::parse(). *)
Parse ==
  /\ stage = "parse" /\ (GoesTo("materials") \/ GoesTo("failed"))
  /\ UNCHANGED <<futures, job, maps, entries, scenes>>

(* The loops that schedule, up to an item that is malformed. *)
ScheduleMaterial ==
  /\ stage = "materials"
  /\ IF item > Len(Document.materials) THEN GoesTo("meshes") /\ UNCHANGED <<futures, job>>
     ELSE \/ Fails
          \/ Schedules(<<"material", item>>) /\ item' = item + 1 /\ UNCHANGED <<stage, part>>
  /\ UNCHANGED <<maps, entries, scenes>>

SchedulePrimitive ==
  /\ stage = "meshes"
  /\ CASE item > Len(Document.meshes) -> GoesTo("await assets") /\ UNCHANGED <<futures, job>>
       [] item \in Meshes /\ part \notin Primitives(item) ->
            \/ Fails
            \/ item' = item + 1 /\ part' = 1 /\ UNCHANGED <<stage, futures, job>>
       [] item \in Meshes /\ part \in Primitives(item) ->
            \/ Fails
            \/ Schedules(<<"primitive", item, part>>) /\ part' = part + 1 /\ UNCHANGED <<stage, item>>
  /\ UNCHANGED <<maps, entries, scenes>>

ScheduleScene ==
  /\ stage = "scenes"
  /\ IF item > Len(Document.scenes) THEN GoesTo("await scenes") /\ UNCHANGED <<futures, job>>
     ELSE \/ Fails
          \/ Schedules(<<"scene", item>>) /\ item' = item + 1 /\ UNCHANGED <<stage, part>>
  /\ UNCHANGED <<maps, entries, scenes>>

AfterAwait == IF stage = "await assets" THEN "scenes" ELSE "converted"

(* Mutant of Await: only the materials are waited for. *)
AwaitMaterials ==
  /\ stage \in {"await assets", "await scenes"}
  /\ IF item > Len(futures) \/ futures[item][1] = "primitive" THEN GoesTo(AfterAwait) /\ futures' = <<>> /\ UNCHANGED job
     ELSE \/ job[futures[item]] = "done" /\ item' = item + 1 /\ UNCHANGED <<stage, part, futures, job>>
          \/ job[futures[item]] = "error" /\ Fails
  /\ UNCHANGED <<maps, entries, scenes>>

(* The loops that await the futures, in their order. *)
Await ==
  /\ stage \in {"await assets", "await scenes"}
  /\ IF item > Len(futures) THEN GoesTo(AfterAwait) /\ futures' = <<>> /\ UNCHANGED job
     ELSE \/ job[futures[item]] = "done" /\ item' = item + 1 /\ UNCHANGED <<stage, part, futures, job>>
          \/ job[futures[item]] = "error" /\ Fails
  /\ UNCHANGED <<maps, entries, scenes>>

(* pack_file.finish_writing(). *)
CommitPackage ==
  /\ stage = "converted" /\ GoesTo("committed")
  /\ UNCHANGED <<futures, job, maps, entries, scenes>>

-----------------------------------------------------------------------------
(* The tasklets.  They go on after convert() has failed. *)

Step(j, place, then) ==
  /\ job[j] = place
  /\ job' = [job EXCEPT ![j] = then]
  /\ UNCHANGED <<progress, futures>>

(* Anything a tasklet tries may fail. *)
JobFails(j) == \E place \in {"material", "normal", "primitive", "scene", "serialise"} :
  Step(j, place, "error") /\ UNCHANGED <<maps, entries, scenes>>

(* process_texture(): the entry, once it is finished. *)
Texture(j, place, wanted, name, then) ==
  /\ Step(j, place, then)
  /\ entries' = IF wanted THEN entries \cup {<<name, j>>} ELSE entries
  /\ UNCHANGED <<maps, scenes>>

(* process_material(): the images, each followed by its path. *)
AddAlbedo(i) == Texture(<<"material", i>>, "material", Document.materials[i].albedo, Albedo(i), "albedo path")
AddNormal(i) == Texture(<<"material", i>>, "normal", Document.materials[i].normal, Normal(i), "normal path")

WithPath(paths, wanted, i, name) ==
  IF wanted THEN [k \in {i} \cup DOMAIN paths |-> IF k = i THEN name ELSE paths[k]] ELSE paths
SetAlbedoPath(i) ==
  /\ Step(<<"material", i>>, "albedo path", "normal")
  /\ m_albedo_paths' = WithPath(m_albedo_paths, Document.materials[i].albedo, i, Albedo(i))
  /\ UNCHANGED <<m_normal_paths, m_mesh_bounds, entries, scenes>>
SetNormalPath(i) ==
  /\ Step(<<"material", i>>, "normal path", "done")
  /\ m_normal_paths' = WithPath(m_normal_paths, Document.materials[i].normal, i, Normal(i))
  /\ UNCHANGED <<m_albedo_paths, m_mesh_bounds, entries, scenes>>

(* process_primitive(): the entry, then the bounds. *)
AddMesh(m, p) ==
  /\ Step(<<"primitive", m, p>>, "primitive", "bounds")
  /\ entries' = entries \cup {<<MeshEntry(m, p), <<"primitive", m, p>>>>}
  /\ UNCHANGED <<maps, scenes>>
SetBounds(m, p) ==
  /\ Step(<<"primitive", m, p>>, "bounds", "done")
  /\ m_mesh_bounds' = m_mesh_bounds \cup {MeshName(m, p)}
  /\ UNCHANGED <<m_albedo_paths, m_normal_paths, entries, scenes>>

(* make_material() and build_entity(): an empty path where there is none. *)
PathOf(paths, i) == IF i \in DOMAIN paths THEN paths[i] ELSE <<>>
Built(m, p) ==
  LET i == Document.meshes[m].primitives[p]
  IN [mesh |-> MeshEntry(m, p), bounds |-> MeshName(m, p) \in m_mesh_bounds,
      material |-> IF i = 0 THEN <<>> ELSE <<PathOf(m_albedo_paths, i), PathOf(m_normal_paths, i)>>]
BuiltParts(m) == IF m = 0 THEN <<>> ELSE [p \in Primitives(m) |-> Built(m, p)]

(* visit_node(), up to the calls for its children, which come next.  A     *)
(* mesh of several primitives has an entity for each below that of the     *)
(* node.                                                                   *)
EntitiesOf(parent, entity, parts) ==
  IF Len(parts) = 1 THEN <<[parent |-> parent, parts |-> parts]>>
  ELSE <<[parent |-> parent, parts |-> <<>>]>> \o [p \in DOMAIN parts |-> [parent |-> entity, parts |-> <<parts[p]>>]]
VisitNode(s) ==
  LET call == Head(calls[s])
      node == Document.nodes[call.node]
      entity == Len(worlds[s]) + 1
  IN /\ Step(<<"scene", s>>, "scene", "scene") /\ calls[s] # <<>>
     /\ worlds' = [worlds EXCEPT ![s] = @ \o EntitiesOf(call.parent, entity, BuiltParts(node.mesh))]
     /\ calls' = [calls EXCEPT ![s] = CallsFor(entity, node.children) \o Tail(@)]
     /\ UNCHANGED <<maps, entries>>

(* process_scene(), when all nodes have been visited: the entry. *)
EndVisit(s) ==
  /\ Step(<<"scene", s>>, "scene", "serialise") /\ calls[s] = <<>>
  /\ UNCHANGED <<maps, entries, scenes>>
Serialise(s) ==
  /\ Step(<<"scene", s>>, "serialise", "done")
  /\ entries' = entries \cup {<<SceneEntry(s), <<"scene", s>>>>}
  /\ UNCHANGED <<maps, scenes>>

Converting == Parse \/ ScheduleMaterial \/ SchedulePrimitive \/ ScheduleScene \/ Await \/ CommitPackage
Processing ==
  \/ \E j \in AllJobs : JobFails(j)
  \/ \E i \in Materials : AddAlbedo(i) \/ SetAlbedoPath(i) \/ AddNormal(i) \/ SetNormalPath(i)
  \/ \E m \in Meshes : \E p \in Primitives(m) : AddMesh(m, p) \/ SetBounds(m, p)
  \/ \E s \in Scenes : VisitNode(s) \/ EndVisit(s) \/ Serialise(s)
GltfNext == Converting \/ Processing

GltfSpec == GltfInit /\ [][GltfNext]_gltfVars

-----------------------------------------------------------------------------
(* Properties. *)

Finished == {e[1] : e \in entries}

(* The material with the same number, as the primitive's should be. *)
Expected(i) == IF i = 0 THEN <<>> ELSE <<IF Document.materials[i].albedo THEN Albedo(i) ELSE <<>>,
                                         IF Document.materials[i].normal THEN Normal(i) ELSE <<>>>>

(* A part of an entity names a mesh, and images if any, that are in the    *)
(* package, and has its bounds and the material that the document gives.   *)
Resolves(p) ==
  /\ p.bounds /\ p.mesh \in Finished
  /\ \A k \in DOMAIN p.material : p.material[k] \in Finished \cup {<<>>}
  /\ \E m \in Meshes : \E q \in Primitives(m) :
       p.mesh = MeshEntry(m, q) /\ p.material = Expected(Document.meshes[m].primitives[q])

(* gltf_parser.cc: in whatever order the tasklets ran, a package that is   *)
(* committed has one entry of each name, and its scenes name only meshes   *)
(* and images that are in it, each part with its bounds and with the       *)
(* material that the document gives it; all nodes have been visited, and   *)
(* an entity comes after its parent.                                       *)
ScenesResolve ==
  stage = "committed" =>
    /\ \A j \in AllJobs : job[j] = "done"
    /\ \A e, f \in entries : e[1] = f[1] => e = f
    /\ \A s \in Scenes :
         /\ SceneEntry(s) \in Finished /\ calls[s] = <<>>
         /\ \A i \in DOMAIN worlds[s] :
              /\ worlds[s][i].parent < i
              /\ \A k \in DOMAIN worlds[s][i].parts : Resolves(worlds[s][i].parts[k])

=============================================================================
