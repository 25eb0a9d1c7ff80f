------------------------------ MODULE EntityTable ------------------------------
(***************************************************************************)
(* What an entity manager promises: entities come and go, each has at most *)
(* one component of each kind, its own, and a view visits only entities    *)
(* that are alive and have all the components it asks for.                 *)
(***************************************************************************)
EXTENDS Functions

CONSTANTS Indices, Kinds

VARIABLES
  live,         (* the entities that exist, by index                       *)
  components,   (* per kind, the value of each entity that has one: a
                   value names the entity it was made for                  *)
  visited       (* what a view shows: an entity and its components         *)

Nothing == [entity |-> 0, shown |-> <<>>]

TableInit == live = {} /\ components = [k \in Kinds |-> <<>>] /\ visited = Nothing

Create == \E i \in Indices \ live : live' = live \cup {i} /\ UNCHANGED <<components, visited>>

Destroy(i) ==
  /\ i \in live /\ live' = live \ {i}
  /\ components' = [k \in Kinds |-> Restrict(components[k], DOMAIN components[k] \ {i})]
  /\ visited' = Nothing

AddComponent(k, i) ==
  /\ i \in live /\ i \notin DOMAIN components[k]
  /\ components' = [components EXCEPT ![k] = [j \in DOMAIN @ \cup {i} |-> IF j = i THEN i ELSE @[j]]]
  /\ UNCHANGED <<live, visited>>

RemoveComponent(k, i) ==
  /\ i \in DOMAIN components[k]
  /\ components' = [components EXCEPT ![k] = Restrict(@, DOMAIN @ \ {i})]
  /\ UNCHANGED <<live, visited>>

(* A view shows an entity that has all kinds, or nothing more. *)
Show ==
  /\ \/ visited' = Nothing
     \/ \E i \in live : /\ \A k \in Kinds : i \in DOMAIN components[k]
                        /\ visited' = [entity |-> i, shown |-> [k \in Kinds |-> components[k][i]]]
  /\ UNCHANGED <<live, components>>

(* A world that was written and read again has the same components; every  *)
(* entity it ever had exists again.                                        *)
Reload == \E n \in SUBSET Indices : live \subseteq n /\ live' = n /\ UNCHANGED <<components, visited>>

TableNext ==
  \/ Create \/ Show \/ Reload
  \/ \E i \in Indices : \/ Destroy(i)
                        \/ \E k \in Kinds : RemoveComponent(k, i) \/ AddComponent(k, i)

TableSpec == TableInit /\ [][TableNext]_<<live, components, visited>>

=============================================================================
