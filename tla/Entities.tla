------------------------------- MODULE Entities -------------------------------
(***************************************************************************)
(* The entity manager (engine: ecs/entity.cc, ecs/entity_id.hh,            *)
(* ecs/sparse_set.hh, ecs/entity.hh, ecs/world.cc).  An entity is an index *)
(* of a slot; the slots of destroyed entities form a free list through     *)
(* the indices they hold.  The components of a kind lie side by side, with *)
(* a dense list of whose they are and a sparse one that leads there.  A    *)
(* view walks the dense list of its first kind with a pointer, and the     *)
(* entity it is at may be destroyed meanwhile.                             *)
(*                                                                         *)
(* Indices start at 1 here, and 0 is the reserved index.  Versions are left *)
(* out: of all operations only valid() looks at them.                      *)
(***************************************************************************)
EXTENDS Naturals, Sequences, FiniteSetsExt, Functions

CONSTANTS
  EntityLimit,  (* bound: entities                                         *)
  Kinds,        (* kinds of components; FirstKind is what views walk       *)
  FirstKind

(* A view of one kind looks at nothing but the dense list, and would show  *)
(* what was destroyed: the code does not destroy in such a view.           *)
ASSUME EntitiesAssumption == EntityLimit \in Nat /\ FirstKind \in Kinds /\ Kinds # {FirstKind}

ReservedIndex == 0

VARIABLES
  m_entities,       (* per slot its own index; of a free one, the link     *)
  m_free_head,
  m_component_sets, (* per kind, a sparse set: [dense, sparse, data]       *)
  view              (* a walk over a view: where it is, the end it was
                       given, the memory it walks over, and whether the
                       entity it is at is still there                      *)

entityVars == <<m_entities, m_free_head, m_component_sets, view>>

NoView == [at |-> 0, end |-> 0, slots |-> <<>>, shown |-> FALSE]

EntitiesInit ==
  /\ m_entities = <<>> /\ m_free_head = ReservedIndex
  /\ m_component_sets = [k \in Kinds |-> [dense |-> <<>>, sparse |-> <<>>, data |-> <<>>]]
  /\ view = NoView

(* contains(): a slot of m_sparse may be stale. *)
Has(set, index) ==
  /\ index <= Len(set.sparse) /\ set.sparse[index] <= Len(set.dense)
  /\ set.dense[set.sparse[index]] = index

(* m_sparse grown to lead from index to a place; ensure_size() zeroes.     *)
Leading(sparse, index, place) ==
  [i \in 1 .. (IF Len(sparse) < index THEN index ELSE Len(sparse)) |->
     IF i = index THEN place ELSE IF i <= Len(sparse) THEN sparse[i] ELSE 1]

(* emplace(), and raw_ensure_index() with the data read before. *)
Emplaced(set, index, v) ==
  [dense |-> Append(set.dense, index),
   sparse |-> Leading(set.sparse, index, Len(set.dense) + 1),
   data |-> Append(set.data, v)]

(* Mutant of Removed: the slot that leads to the last component stays. *)
RemovedNotMoved(set, index) ==
  LET place == set.sparse[index]
      last == Len(set.dense)
  IN  [dense |-> SubSeq([set.dense EXCEPT ![place] = set.dense[last]], 1, last - 1),
       sparse |-> set.sparse,
       data |-> SubSeq([set.data EXCEPT ![place] = set.data[last]], 1, last - 1)]

(* remove(): the last component takes the place of the removed one; the    *)
(* slot of m_sparse that led to it keeps its value.                        *)
Removed(set, index) ==
  LET place == set.sparse[index]
      last == Len(set.dense)
  IN  [dense |-> SubSeq([set.dense EXCEPT ![place] = set.dense[last]], 1, last - 1),
       sparse |-> [set.sparse EXCEPT ![set.dense[last]] = place],
       data |-> SubSeq([set.data EXCEPT ![place] = set.data[last]], 1, last - 1)]

(* valid(): the slot of a living entity holds its own index. *)
Live == {i \in DOMAIN m_entities : m_entities[i] = i}

(* create_entity(): the head of the free list, or a new slot. *)
CreateEntity ==
  /\ view = NoView
  /\ IF m_free_head # ReservedIndex
     THEN /\ m_free_head' = m_entities[m_free_head]
          /\ m_entities' = [m_entities EXCEPT ![m_free_head] = m_free_head]
     ELSE /\ Len(m_entities) < EntityLimit
          /\ m_entities' = Append(m_entities, Len(m_entities) + 1)
          /\ UNCHANGED m_free_head
  /\ UNCHANGED <<m_component_sets, view>>

(* destroy_entity(). *)
DestroyEntity(index) ==
  /\ m_component_sets' = [k \in Kinds |-> IF Has(m_component_sets[k], index)
                                           THEN Removed(m_component_sets[k], index) ELSE m_component_sets[k]]
  /\ m_entities' = [m_entities EXCEPT ![index] = m_free_head]
  /\ m_free_head' = index

Destroy(index) ==
  /\ view = NoView /\ index \in Live
  /\ DestroyEntity(index)
  /\ UNCHANGED view

(* add_component() and remove_component(), as their assertions allow; the  *)
(* value of a component names the entity it was made for.                  *)
AddComponent(k, index) ==
  /\ view = NoView /\ index \in Live /\ ~Has(m_component_sets[k], index)
  /\ m_component_sets' = [m_component_sets EXCEPT ![k] = Emplaced(@, index, index)]
  /\ UNCHANGED <<m_entities, m_free_head, view>>

RemoveComponent(k, index) ==
  /\ view = NoView /\ Has(m_component_sets[k], index)
  /\ m_component_sets' = [m_component_sets EXCEPT ![k] = Removed(@, index)]
  /\ UNCHANGED <<m_entities, m_free_head, view>>

(* The constructor of an iterator and its operator++: on to the next slot  *)
(* whose entity has the other components, or to the end.                   *)
SkipFrom(slots, place, end) ==
  Min({p \in place .. end : p = end \/ \A k \in Kinds \ {FirstKind} : Has(m_component_sets[k], slots[p])})

(* view(), begin() and end(): the end is where the dense list ends now. *)
BeginView ==
  LET dense == m_component_sets[FirstKind].dense
      end == Len(dense) + 1
  IN  /\ view = NoView /\ dense # <<>>
      /\ view' = [at |-> SkipFrom(dense, 1, end), end |-> end, slots |-> dense, shown |-> TRUE]
      /\ UNCHANGED <<m_entities, m_free_head, m_component_sets>>

StepView ==
  /\ view # NoView
  /\ view' = IF view.at = view.end THEN NoView
             ELSE [view EXCEPT !.at = SkipFrom(view.slots, view.at + 1, view.end), !.shown = TRUE]
  /\ UNCHANGED <<m_entities, m_free_head, m_component_sets>>

(* The entity that the view is at is destroyed.  The last of the dense     *)
(* list moves to its place, and it to the place that is given up.          *)
DestroyVisited ==
  LET index == view.slots[view.at]
      last == Len(m_component_sets[FirstKind].dense)
  IN  /\ view.shown /\ view.at # view.end
      /\ DestroyEntity(index)
      /\ view' = [view EXCEPT !.shown = FALSE, !.slots = [@ EXCEPT ![view.at] = view.slots[last], ![last] = index]]

(* serialise(), and deserialise() into a new world: every slot becomes an  *)
(* entity, and the sparse lists are built again from the dense ones.       *)
Rebuilt(set) ==
  LET known == Range(set.dense)
  IN  [dense |-> set.dense,
       sparse |-> [i \in 1 .. Max(known \cup {0}) |->
                     IF i \in known THEN CHOOSE p \in DOMAIN set.dense : set.dense[p] = i ELSE 1],
       data |-> set.data]

Reload ==
  /\ view = NoView /\ m_entities # <<>>
  /\ m_entities' = [i \in DOMAIN m_entities |-> i]
  /\ m_free_head' = ReservedIndex
  /\ m_component_sets' = [k \in Kinds |-> Rebuilt(m_component_sets[k])]
  /\ UNCHANGED view

EntitiesNext ==
  \/ CreateEntity
  \/ \E index \in DOMAIN m_entities :
       \/ Destroy(index)
       \/ \E k \in Kinds : RemoveComponent(k, index) \/ AddComponent(k, index)
  \/ BeginView \/ StepView \/ DestroyVisited
  \/ Reload

EntitiesSpec == EntitiesInit /\ [][EntitiesNext]_entityVars

-----------------------------------------------------------------------------
(* The abstract table *)

ComponentsOf(set) ==
  [i \in {j \in DOMAIN m_entities : Has(set, j)} |-> set.data[set.sparse[i]]]

Components == [k \in Kinds |-> ComponentsOf(m_component_sets[k])]

(* What the view hands out: the component of the first kind is the one     *)
(* beside the pointer, the others are looked up.                           *)
Shown ==
  IF ~view.shown \/ view.at = view.end THEN [entity |-> 0, shown |-> <<>>]
  ELSE LET index == view.slots[view.at]
       IN  [entity |-> index,
            shown |-> [k \in Kinds |-> LET set == m_component_sets[k]
                                       IN  set.data[IF k = FirstKind THEN view.at ELSE set.sparse[index]]]]

Table == INSTANCE EntityTable WITH
  Indices <- 1 .. EntityLimit,
  live <- Live,
  components <- Components,
  visited <- Shown

(* Entities and their components come, move within their arrays and go,    *)
(* free slots are used again, worlds are written and read, and a view      *)
(* destroys what it shows: all of it does what the table promises.         *)
EntitiesImplementTable == Table!TableSpec

=============================================================================
