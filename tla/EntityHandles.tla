----------------------------- MODULE EntityHandles -----------------------------
(***************************************************************************)
(* ecs::World of engine/sources/ecs2: entities alone, as handles of an     *)
(* index and a version.  A destroyed entity's index is used again with the *)
(* next version, until the versions of the index are used up and it is     *)
(* retired.  Indices start at 1 here.                                      *)
(***************************************************************************)
EXTENDS Naturals, Sequences, FiniteSets

CONSTANTS
  HandleLimit,  (* bound: indices                                          *)
  NullVersion   (* null_version(), the last one                            *)

NullIndex == 0
Null == [index |-> NullIndex, version |-> NullVersion]
Handle(index, version) == [index |-> index, version |-> version]

VARIABLES
  m_entity_list,
  m_free_head,
  given,        (* every handle create() has returned, oldest first        *)
  gone          (* how often destroy() was called                          *)

vars == <<m_entity_list, m_free_head, given, gone>>

Init == m_entity_list = <<>> /\ m_free_head = NullIndex /\ given = <<>> /\ gone = 0

IsValid(handle) ==
  handle.index \in DOMAIN m_entity_list /\ m_entity_list[handle.index] = handle

(* create(): the first free index with the version it has now, or a new one. *)
Create ==
  /\ IF m_free_head = NullIndex
     THEN /\ Len(m_entity_list) < HandleLimit
          /\ m_entity_list' = Append(m_entity_list, Handle(Len(m_entity_list) + 1, 0))
          /\ given' = Append(given, Handle(Len(m_entity_list) + 1, 0))
          /\ UNCHANGED m_free_head
     ELSE LET handle == Handle(m_free_head, m_entity_list[m_free_head].version)
          IN  /\ m_free_head' = m_entity_list[m_free_head].index
              /\ m_entity_list' = [m_entity_list EXCEPT ![m_free_head] = handle]
              /\ given' = Append(given, handle)
  /\ UNCHANGED gone

(* Mutant of Destroy: the version of an index starts again from 0. *)
DestroyWraps(handle) ==
  /\ IsValid(handle)
  /\ m_entity_list' = [m_entity_list EXCEPT ![handle.index] = Handle(m_free_head, (handle.version + 1) % (NullVersion + 1))]
  /\ m_free_head' = handle.index
  /\ gone' = gone + 1 /\ UNCHANGED given

(* destroy(), of a valid handle: the index becomes the head of the free    *)
(* list, or is retired with its last version.                              *)
Destroy(handle) ==
  /\ IsValid(handle)
  /\ IF handle.version = NullVersion
     THEN m_entity_list' = [m_entity_list EXCEPT ![handle.index] = Null] /\ UNCHANGED m_free_head
     ELSE /\ m_entity_list' = [m_entity_list EXCEPT ![handle.index] = Handle(m_free_head, handle.version + 1)]
          /\ m_free_head' = handle.index
  /\ gone' = gone + 1 /\ UNCHANGED given

Next == Create \/ \E i \in DOMAIN given : Destroy(given[i])

Spec == Init /\ [][Next]_vars

-----------------------------------------------------------------------------
(* Properties *)

(* No handle is ever returned twice, not even for an index that was used   *)
(* again, so that a handle that outlives its entity is never mistaken for  *)
(* another; and as many handles are valid as entities were created and not *)
(* destroyed.                                                              *)
HandlesDistinct ==
  /\ \A i, j \in DOMAIN given : i # j => given[i] # given[j]
  /\ Cardinality({i \in DOMAIN given : IsValid(given[i])}) = Len(given) - gone

===============================================================================
