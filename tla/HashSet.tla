-------------------------------- MODULE HashSet --------------------------------
(***************************************************************************)
(* HashSet<T> (engine/include/vull/container/hash_set.hh): an array of     *)
(* root buckets, each with the chain of the elements whose hash leads to   *)
(* it.  The array grows when there are more elements than buckets, which   *)
(* moves every element; removing never shrinks it.                         *)
(***************************************************************************)
EXTENDS Naturals, FiniteSets, SequencesExt

CONSTANTS
  Elements,
  HashOf,      (* HashFn, a function from Elements to numbers              *)
  MaxCapacity  (* bound: the most root buckets asked for                   *)

ASSUME SetAssumption == HashOf \in [Elements -> Nat] /\ MaxCapacity \in Nat

VARIABLES
  m_buckets,   (* the chains, one per root bucket; there are m_capacity    *)
  m_size,
  members      (* what was added and not removed since                     *)

setVars == <<m_buckets, m_size, members>>

SetInit == m_buckets = <<>> /\ m_size = 0 /\ members = {}

(* HashFn(elem) % m_capacity, counted from one. *)
Root(e, buckets) == (HashOf[e] % Len(buckets)) + 1

(* insert(): at the end of the chain. *)
Inserted(buckets, e) == [buckets EXCEPT ![Root(e, buckets)] = Append(@, e)]

(* The iterator: over the chains, one after the other. *)
Iteration(buckets) ==
  LET passed[n \in 0 .. Len(buckets)] == IF n = 0 THEN <<>> ELSE passed[n - 1] \o buckets[n]
  IN passed[Len(buckets)]

(* rehash(): new buckets, into which the elements are moved in the order   *)
(* of the iteration.                                                       *)
Rehashed(capacity) ==
  LET old == Iteration(m_buckets)
      moved[n \in 0 .. Len(old)] ==
        IF n = 0 THEN [i \in 1 .. capacity |-> <<>>] ELSE Inserted(moved[n - 1], old[n])
  IN moved[Len(old)]

(* ensure_capacity() *)
Larger(a, b) == IF a > b THEN a ELSE b
Ensured(capacity) ==
  IF capacity > Len(m_buckets) THEN Rehashed(Larger(Len(m_buckets) * 2 + 1, capacity)) ELSE m_buckets

EnsureCapacity(capacity) ==
  /\ capacity <= MaxCapacity
  /\ m_buckets' = Ensured(capacity)
  /\ UNCHANGED <<m_size, members>>

(* rehash(), called directly, with its assertion: buckets can be given up. *)
Rehash(capacity) ==
  /\ capacity \in m_size .. MaxCapacity /\ capacity > 0
  /\ m_buckets' = Rehashed(capacity)
  /\ UNCHANGED <<m_size, members>>

(* find_hash() looks at nothing while the set is empty: there may be no    *)
(* bucket at all.                                                          *)
Finds(e) == m_size > 0 /\ Contains(m_buckets[Root(e, m_buckets)], e)

(* The bucket add() stops at, the last of the chain, and the array it is   *)
(* part of; in an empty set it looks for none and has a null pointer.      *)
LastBucket(e) ==
  IF m_size = 0 THEN [capacity |-> 0, root |-> 0, place |-> 0]
  ELSE [capacity |-> Len(m_buckets), root |-> Root(e, m_buckets), place |-> Len(m_buckets[Root(e, m_buckets)])]

(* do_append(): behind that bucket.  That it is there and has no successor *)
(* is asserted, and what is put into an array that has been rehashed since *)
(* is not in the set: in each of these cases the element is lost.          *)
DoAppend(buckets, bucket, e) ==
  IF bucket.capacity = Len(buckets) /\ bucket.place = Len(buckets[bucket.root])
    THEN [buckets EXCEPT ![bucket.root] = Append(@, e)] ELSE buckets

(* Mutant of InsertsAnew: add() does not look at whether the set is empty. *)
InsertsAnewIfGrown == m_size + 1 > Len(m_buckets)

(* ensure_capacity(m_size + 1) || empty() *)
InsertsAnew == m_size + 1 > Len(m_buckets) \/ m_size = 0

(* add(): ensure_capacity() comes between the search and the insertion. *)
Add(e) ==
  /\ IF Finds(e) THEN UNCHANGED <<m_buckets, m_size>>
     ELSE /\ LET buckets == Ensured(m_size + 1)
             IN m_buckets' = IF InsertsAnew THEN Inserted(buckets, e) ELSE DoAppend(buckets, LastBucket(e), e)
          /\ m_size' = m_size + 1
  /\ members' = members \cup {e}

(* remove_hash(): the element is taken out of its chain, the first of them *)
(* that is equal.                                                          *)
RemoveElement(e) ==
  /\ \/ /\ Finds(e)
        /\ \E i \in 1 .. Len(m_buckets[Root(e, m_buckets)]) :
             /\ m_buckets[Root(e, m_buckets)][i] = e
             /\ \A k \in 1 .. i - 1 : m_buckets[Root(e, m_buckets)][k] # e
             /\ m_buckets' = [m_buckets EXCEPT ![Root(e, m_buckets)] = RemoveAt(@, i)]
        /\ m_size' = m_size - 1
     \/ ~Finds(e) /\ UNCHANGED <<m_buckets, m_size>>
  /\ members' = members \ {e}

ClearSet == m_buckets' = <<>> /\ m_size' = 0 /\ members' = {}

SetNext ==
  \/ \E e \in Elements : Add(e) \/ RemoveElement(e)
  \/ \E capacity \in 0 .. MaxCapacity : EnsureCapacity(capacity) \/ Rehash(capacity)
  \/ ClearSet

SetSpec == SetInit /\ [][SetNext]_setVars

-----------------------------------------------------------------------------
(* Properties *)

(* However the set has grown, shrunk and been rehashed: what is found is   *)
(* what is in it, the iteration meets each element once, and the size is   *)
(* their number.                                                           *)
HashSetSound ==
  /\ \A e \in Elements : Finds(e) <=> e \in members
  /\ IsInjective(Iteration(m_buckets)) /\ ToSet(Iteration(m_buckets)) = members
  /\ m_size = Cardinality(members)

=============================================================================
