--------------------------- MODULE SemaphoreProofs ---------------------------
(***************************************************************************)
(* Proofs about platform::Semaphore for any finite set of threads and any  *)
(* limit on the outstanding permits that fits the low half of the word.    *)
(*                                                                         *)
(* Safe is inductive.  SemaphoreTyped needs WaitersExact (Acquire          *)
(* decrements the high half) and NoBorrow (every exchange decrements the   *)
(* low half); NoLostWakeup needs WaitersExact, because post() decides by   *)
(* the high half whether anybody could be asleep.                          *)
(***************************************************************************)
EXTENDS Semaphore, FiniteSetTheorems, TLAPS

(* The sets of threads the invariants count are finite. *)
LEMMA FiniteSets ==
  /\ IsFiniteSet(Registered) /\ Cardinality(Registered) \in Nat
  /\ IsFiniteSet(Helping) /\ Cardinality(Helping) \in Nat
<1>1. Registered \in SUBSET Users /\ Helping \in SUBSET Users
  BY DEF Registered, Helping
<1>2. IsFiniteSet(Users)
  BY SemaphoreAssumption
<1>3. IsFiniteSet(Registered) /\ IsFiniteSet(Helping)
  BY <1>1, <1>2, FS_Subset
<1> QED
  BY <1>3, FS_CardinalityType

(* How one move of one thread changes the three sets. *)
LEMMA MoveSets ==
  ASSUME NEW t \in Users, NEW l, SemaphoreTyped, UserGoes(t, l)
  PROVE  /\ Registered' = IF l \in {"sleep", "asleep", "reload", "acquire"}
                          THEN Registered \cup {t} ELSE Registered \ {t}
         /\ Asleep' = IF l = "asleep" THEN Asleep \cup {t} ELSE Asleep \ {t}
         /\ Helping' = IF l \in {"wake", "sleep", "reload", "acquire"}
                       THEN Helping \cup {t} ELSE Helping \ {t}
<1>1. doing \in [Users -> UserPlaces] /\ doing' = [doing EXCEPT ![t] = l]
  BY DEF SemaphoreTyped, UserGoes
<1>2. \A s \in Users : doing'[s] = IF s = t THEN l ELSE doing[s]
  BY <1>1
<1>3. Asleep' = IF l = "asleep" THEN Asleep \cup {t} ELSE Asleep \ {t}
  BY <1>2 DEF Asleep
<1>4. Registered' = IF l \in {"sleep", "asleep", "reload", "acquire"}
                    THEN Registered \cup {t} ELSE Registered \ {t}
  BY <1>2 DEF Registered
<1>5. Helping' = IF l \in {"wake", "sleep", "reload", "acquire"}
                 THEN Helping \cup {t} ELSE Helping \ {t}
  BY <1>2 DEF Helping
<1> QED
  BY <1>3, <1>4, <1>5

(* The cardinalities after one move. *)
LEMMA MoveCounts ==
  ASSUME NEW t \in Users, NEW l, SemaphoreTyped, UserGoes(t, l)
  PROVE  /\ Cardinality(Registered') =
              IF l \in {"sleep", "asleep", "reload", "acquire"}
              THEN IF t \in Registered THEN Cardinality(Registered) ELSE Cardinality(Registered) + 1
              ELSE IF t \in Registered THEN Cardinality(Registered) - 1 ELSE Cardinality(Registered)
         /\ Cardinality(Helping') =
              IF l \in {"wake", "sleep", "reload", "acquire"}
              THEN IF t \in Helping THEN Cardinality(Helping) ELSE Cardinality(Helping) + 1
              ELSE IF t \in Helping THEN Cardinality(Helping) - 1 ELSE Cardinality(Helping)
         /\ Cardinality(Helping') \in Nat
<1>1. IsFiniteSet(Registered) /\ IsFiniteSet(Helping)
  BY FiniteSets
<1>2. /\ Cardinality(Registered \cup {t}) =
           IF t \in Registered THEN Cardinality(Registered) ELSE Cardinality(Registered) + 1
      /\ Cardinality(Registered \ {t}) =
           IF t \in Registered THEN Cardinality(Registered) - 1 ELSE Cardinality(Registered)
  BY <1>1, FS_AddElement, FS_RemoveElement
<1>3. /\ Cardinality(Helping \cup {t}) =
           IF t \in Helping THEN Cardinality(Helping) ELSE Cardinality(Helping) + 1
      /\ Cardinality(Helping \ {t}) =
           IF t \in Helping THEN Cardinality(Helping) - 1 ELSE Cardinality(Helping)
  BY <1>1, FS_AddElement, FS_RemoveElement
<1>4. IsFiniteSet(Helping \cup {t}) /\ IsFiniteSet(Helping \ {t})
  BY <1>1, FS_AddElement, FS_RemoveElement
<1>5. Cardinality(Helping \cup {t}) \in Nat /\ Cardinality(Helping \ {t}) \in Nat
  BY <1>4, FS_CardinalityType
<1> QED
  BY <1>2, <1>3, <1>5, MoveSets

(* A set that has an element has a positive cardinality. *)
LEMMA Inhabited ==
  ASSUME NEW t \in Users
  PROVE  /\ t \in Registered => Cardinality(Registered) > 0
         /\ t \in Helping => Cardinality(Helping) > 0
         /\ Cardinality(Registered) = 0 => Asleep = {}
<1>1. /\ Cardinality(Registered) = 0 <=> Registered = {}
      /\ Cardinality(Helping) = 0 <=> Helping = {}
  BY FiniteSets, FS_EmptySet
<1>2. Asleep \subseteq Registered
  BY DEF Asleep, Registered
<1> QED
  BY <1>1, <1>2, FiniteSets

(* A thread that goes on with a word that has a permit, if it goes on to   *)
(* an exchange, keeps the copies words and the exchanges without borrow.   *)
LEMMA MoveCopies ==
  ASSUME NEW t \in Users, NEW l \in UserPlaces, NEW d \in Word,
         SemaphoreTyped, NoBorrow, GoWith(t, l, d),
         l \in {"try", "fast", "acquire"} => d.count > 0
  PROVE  /\ UserGoes(t, l)
         /\ data' \in [Users -> Word]
         /\ doing' \in [Users -> UserPlaces]
         /\ NoBorrow'
<1>1. ZeroWord \in Word
  BY DEF ZeroWord, Word
<1>2. UserGoes(t, l) /\ doing' = [doing EXCEPT ![t] = l]
  BY DEF GoWith, UserGoes
<1>3. data' \in [Users -> Word] /\ doing' \in [Users -> UserPlaces]
  BY <1>1, <1>2 DEF GoWith, SemaphoreTyped
<1>4. ASSUME NEW s \in Users, doing'[s] \in {"try", "fast", "acquire"}
      PROVE  data'[s].count > 0
  <2>1. CASE s = t
    <3>1. doing'[s] = l
      BY <1>2, <2>1 DEF SemaphoreTyped
    <3>2. data'[s] = d
      BY <1>4, <2>1, <3>1 DEF GoWith, SemaphoreTyped
    <3> QED
      BY <1>4, <3>1, <3>2
  <2>2. CASE s # t
    <3>1. doing'[s] = doing[s] /\ data'[s] = data[s]
      BY <1>2, <2>2 DEF GoWith, SemaphoreTyped
    <3> QED
      BY <1>4, <3>1 DEF NoBorrow
  <2> QED
    BY <2>1, <2>2
<1> QED
  BY <1>2, <1>3, <1>4 DEF NoBorrow

LEMMA InitSafe == SemaphoreInit => Safe
<1> SUFFICES ASSUME SemaphoreInit PROVE Safe
  OBVIOUS
<1>1. SemaphoreTyped /\ NoBorrow
  BY SemaphoreAssumption DEF SemaphoreInit, SemaphoreTyped, Word, ZeroWord, UserPlaces, NoBorrow
<1>2. Registered = {} /\ Asleep = {}
  BY DEF SemaphoreInit, Registered, Asleep
<1>3. WaitersExact /\ NoLostWakeup
  BY <1>2, FS_EmptySet DEF SemaphoreInit, ZeroWord, WaitersExact, NoLostWakeup
<1> QED
  BY <1>1, <1>3 DEF Safe

(* post() and the wake it may owe. *)
LEMMA PostSafe ==
  ASSUME Safe, NEW t \in Users, PostPermit(t) \/ FutexWake(t)
  PROVE  Safe'
<1> USE DEF Safe
<1>1. CASE PostPermit(t)
  <2> DEFINE l == IF m_data.waiters > 0 THEN "wake" ELSE "idle"
  <2>1. /\ doing[t] = "idle" /\ UserGoes(t, l) /\ UNCHANGED data
        /\ m_data' = [m_data EXCEPT !.count = @ + 1]
        /\ m_data.count < PermitLimit
    BY <1>1, SemaphoreAssumption DEF PostPermit, Increment, SemaphoreTyped, Word
  <2>2. t \notin Registered /\ t \notin Helping
    BY <2>1 DEF Registered, Helping
  <2>3. SemaphoreTyped' /\ NoBorrow'
    BY <2>1, SemaphoreAssumption DEF SemaphoreTyped, NoBorrow, Word, UserGoes, UserPlaces
  <2>4. WaitersExact'
    BY <2>1, <2>2, MoveCounts DEF WaitersExact, SemaphoreTyped, Word
  <2>5. NoLostWakeup'
    <3>1. CASE m_data.waiters > 0
      BY <2>1, <2>2, <3>1, MoveCounts, MoveSets, FiniteSets DEF NoLostWakeup, SemaphoreTyped, Word
    <3>2. CASE m_data.waiters = 0
      <4>1. Asleep = {}
        BY <3>2, Inhabited DEF WaitersExact
      <4> QED
        BY <2>1, <3>2, <4>1, MoveSets DEF NoLostWakeup
    <3> QED
      BY <3>1, <3>2 DEF SemaphoreTyped, Word
  <2> QED
    BY <2>3, <2>4, <2>5
<1>2. CASE FutexWake(t) /\ Asleep = {}
  <2>1. doing[t] = "wake" /\ UserGoes(t, "idle") /\ UNCHANGED <<m_data, data>>
    BY <1>2 DEF FutexWake
  <2>2. SemaphoreTyped' /\ NoBorrow'
    BY <2>1 DEF SemaphoreTyped, NoBorrow, Word, UserGoes, UserPlaces
  <2>3. WaitersExact'
    BY <2>1, MoveCounts DEF WaitersExact, Registered
  <2>4. NoLostWakeup'
    BY <1>2, <2>1, MoveSets DEF NoLostWakeup
  <2> QED
    BY <2>2, <2>3, <2>4
<1>3. CASE FutexWake(t) /\ Asleep # {}
  <2>1. PICK s \in Asleep : doing' = [doing EXCEPT ![t] = "idle", ![s] = "reload"]
    BY <1>3 DEF FutexWake
  <2>2. /\ doing[t] = "wake" /\ doing[s] = "asleep" /\ s \in Users /\ s # t
        /\ UNCHANGED <<m_data, data>>
    BY <1>3, <2>1 DEF FutexWake, Asleep
  <2>3. SemaphoreTyped' /\ NoBorrow'
    BY <2>1, <2>2 DEF SemaphoreTyped, NoBorrow, Word, UserPlaces
  <2>4. Registered' = Registered
    BY <2>1, <2>2 DEF Registered, SemaphoreTyped
  <2>5. WaitersExact'
    BY <2>2, <2>4 DEF WaitersExact
  <2>6. /\ Helping' = (Helping \ {t}) \cup {s}
        /\ t \in Helping /\ s \notin Helping
    BY <2>1, <2>2 DEF Helping, SemaphoreTyped
  <2>7. Cardinality(Helping') = Cardinality(Helping)
    <3>1. /\ IsFiniteSet(Helping \ {t})
          /\ Cardinality(Helping \ {t}) = Cardinality(Helping) - 1
      BY <2>6, FiniteSets, FS_RemoveElement
    <3>2. Cardinality((Helping \ {t}) \cup {s}) = Cardinality(Helping) - 1 + 1
      BY <2>6, <3>1, FS_AddElement
    <3> QED
      BY <2>6, <3>2, FiniteSets
  <2>8. NoLostWakeup'
    BY <1>3, <2>2, <2>7 DEF NoLostWakeup
  <2> QED
    BY <2>3, <2>5, <2>8
<1> QED
  BY <1>1, <1>2, <1>3

(* try_wait(), and wait() up to its fast path: none of them registers, so  *)
(* only the number of permits can change, downwards.                       *)
LEMMA TakeSafe ==
  ASSUME Safe, NEW t \in Users,
         TryPermit(t) \/ TryExchange(t) \/ Wait(t) \/ FastExchange(t)
  PROVE  Safe'
<1> USE DEF Safe
<1>1. PICK l \in {"idle", "try", "fast", "register"}, d \in {m_data, data[t]} :
        /\ GoWith(t, l, d)
        /\ doing[t] \in {"idle", "try", "fast"}
        /\ m_data' = m_data \/ (m_data = data[t] /\ m_data' = [m_data EXCEPT !.count = @ - 1]
                                /\ data[t].count > 0)
        /\ l \in {"try", "fast"} => d.count # 0
  <2>1. CASE TryPermit(t)
    BY <2>1 DEF TryPermit
  <2>2. CASE TryExchange(t)
    BY <2>2 DEF TryExchange, NoBorrow
  <2>3. CASE Wait(t)
    BY <2>3 DEF Wait
  <2>4. CASE FastExchange(t)
    BY <2>4 DEF FastExchange, NoBorrow
  <2> QED
    BY <2>1, <2>2, <2>3, <2>4
<1>2. /\ m_data' \in Word
      /\ m_data'.count <= m_data.count
      /\ m_data'.waiters = m_data.waiters
  BY <1>1 DEF SemaphoreTyped, Word
<1>3. /\ UserGoes(t, l) /\ NoBorrow'
      /\ data' \in [Users -> Word] /\ doing' \in [Users -> UserPlaces]
  <2>1. d \in Word /\ d.count \in Nat /\ l \in UserPlaces
    BY DEF SemaphoreTyped, Word, UserPlaces
  <2> QED
    BY <1>1, <2>1, MoveCopies
<1>4. SemaphoreTyped'
  BY <1>2, <1>3, SemaphoreAssumption DEF SemaphoreTyped, Word
<1>5. t \notin Registered /\ t \notin Helping /\ t \notin Asleep
  BY <1>1 DEF Registered, Helping, Asleep
<1>6. Registered' = Registered /\ Helping' = Helping /\ Asleep' = Asleep
  BY <1>1, <1>3, <1>5, MoveSets
<1>7. WaitersExact' /\ NoLostWakeup'
  BY <1>2, <1>6, FiniteSets DEF WaitersExact, NoLostWakeup, SemaphoreTyped, Word
<1> QED
  BY <1>3, <1>4, <1>7

(* fetch_add(1 << 32): the thread becomes a waiter, already on its way. *)
LEMMA RegisterSafe ==
  ASSUME Safe, NEW t \in Users, Register(t)
  PROVE  Safe'
<1> USE DEF Safe
<1> DEFINE l == LoopOn(data[t])
<1>1. /\ doing[t] = "register" /\ GoWith(t, l, data[t]) /\ UserGoes(t, l)
      /\ m_data' = [m_data EXCEPT !.waiters = @ + 1]
      /\ l \in {"sleep", "acquire"} /\ (l = "acquire" => data[t].count # 0)
  BY DEF Register, LoopOn, GoWith
<1>2. t \notin Registered /\ t \notin Helping
  BY <1>1 DEF Registered, Helping
<1>3. SemaphoreTyped' /\ NoBorrow'
  <2>1. data[t] \in Word /\ data[t].count \in Nat /\ l \in UserPlaces
    BY <1>1 DEF SemaphoreTyped, Word, UserPlaces
  <2>2. /\ NoBorrow' /\ data' \in [Users -> Word] /\ doing' \in [Users -> UserPlaces]
    BY <1>1, <2>1, MoveCopies
  <2> QED
    BY <1>1, <2>2 DEF SemaphoreTyped, Word
<1>4. WaitersExact'
  BY <1>1, <1>2, MoveCounts DEF WaitersExact, SemaphoreTyped, Word
<1>5. NoLostWakeup'
  <2>1. Asleep' = {} \/ Asleep # {}
    BY <1>1, MoveSets
  <2>2. m_data'.count = m_data.count
    BY <1>1 DEF SemaphoreTyped, Word
  <2> QED
    BY <1>1, <1>2, <2>1, <2>2, MoveCounts, FiniteSets DEF NoLostWakeup, SemaphoreTyped, Word
<1> QED
  BY <1>3, <1>4, <1>5

(* FUTEX_WAIT sleeps only while there is no permit; however it returns,    *)
(* the thread looks at the word again.                                     *)
LEMMA SleepSafe ==
  ASSUME Safe, NEW t \in Users, FutexWait(t) \/ Interrupted(t) \/ Reload(t)
  PROVE  Safe'
<1> USE DEF Safe
<1>1. PICK l \in {"sleep", "asleep", "reload", "acquire"} :
        /\ UserGoes(t, l)
        /\ doing[t] \in {"sleep", "asleep", "reload"}
        /\ UNCHANGED m_data
        /\ (data' = data /\ l # "acquire") \/ GoWith(t, l, m_data)
        /\ l = "acquire" => m_data.count # 0
        /\ l = "asleep" => m_data.count = 0
  BY DEF FutexWait, Interrupted, Reload, LoopOn, GoWith
<1>2. SemaphoreTyped' /\ NoBorrow'
  <2>1. m_data \in Word /\ m_data.count \in Nat /\ l \in UserPlaces
    BY DEF SemaphoreTyped, Word, UserPlaces
  <2>2. CASE GoWith(t, l, m_data)
    <3>1. /\ NoBorrow' /\ data' \in [Users -> Word] /\ doing' \in [Users -> UserPlaces]
      BY <1>1, <2>1, <2>2, MoveCopies
    <3> QED
      BY <1>1, <3>1 DEF SemaphoreTyped
  <2>3. CASE data' = data /\ l # "acquire"
    BY <1>1, <2>1, <2>3 DEF SemaphoreTyped, NoBorrow, UserGoes
  <2> QED
    BY <1>1, <2>2, <2>3
<1>3. t \in Registered
  BY <1>1 DEF Registered
<1>4. WaitersExact'
  BY <1>1, <1>3, MoveSets DEF WaitersExact
<1>5. NoLostWakeup'
  <2>1. CASE l = "asleep"
    <3>1. m_data'.count = 0 /\ Cardinality(Helping') \in Nat
      BY <1>1, <2>1, MoveCounts
    <3> QED
      BY <3>1 DEF NoLostWakeup
  <2>2. CASE l # "asleep"
    <3>1. Asleep' = Asleep \ {t}
      BY <1>1, <2>2, MoveSets
    <3>2. /\ Cardinality(Helping') >= Cardinality(Helping)
          /\ Cardinality(Helping') \in Nat /\ Cardinality(Helping) \in Nat
      BY <1>1, <2>2, MoveCounts, FiniteSets
    <3>3. m_data' = m_data /\ m_data.count \in Nat
      BY <1>1 DEF SemaphoreTyped, Word
    <3> QED
      BY <3>1, <3>2, <3>3 DEF NoLostWakeup
  <2> QED
    BY <2>1, <2>2
<1> QED
  BY <1>2, <1>4, <1>5

(* The exchange that ends wait(): it takes one permit and one waiter off.  *)
LEMMA AcquireSafe ==
  ASSUME Safe, NEW t \in Users, Acquire(t)
  PROVE  Safe'
<1> USE DEF Safe
<1>1. doing[t] = "acquire" /\ t \in Registered /\ t \in Helping /\ t \notin Asleep
  BY DEF Acquire, Registered, Helping, Asleep
<1>2. CASE m_data = data[t]
  <2>1. /\ m_data' = [count |-> m_data.count - 1, waiters |-> m_data.waiters - 1]
        /\ GoWith(t, "idle", data[t]) /\ UserGoes(t, "idle")
    BY <1>2 DEF Acquire, GoWith
  <2>2. m_data.count > 0 /\ m_data.waiters > 0
    BY <1>1, <1>2, Inhabited, FiniteSets DEF NoBorrow, WaitersExact, SemaphoreTyped, Word
  <2>3. SemaphoreTyped' /\ NoBorrow'
    <3>1. /\ NoBorrow' /\ data' \in [Users -> Word] /\ doing' \in [Users -> UserPlaces]
      BY <2>1, MoveCopies DEF SemaphoreTyped, UserPlaces
    <3>2. m_data' \in Word /\ m_data'.count <= PermitLimit
      BY <2>1, <2>2, SemaphoreAssumption DEF SemaphoreTyped, Word
    <3> QED
      BY <3>1, <3>2 DEF SemaphoreTyped
  <2>4. WaitersExact'
    BY <1>1, <2>1, MoveCounts DEF WaitersExact
  <2>5. NoLostWakeup'
    BY <1>1, <2>1, <2>2, MoveCounts, MoveSets, FiniteSets DEF NoLostWakeup, SemaphoreTyped, Word
  <2> QED
    BY <2>3, <2>4, <2>5
<1>3. CASE m_data # data[t]
  <2> DEFINE l == LoopOn(m_data)
  <2>1. /\ GoWith(t, l, m_data) /\ UserGoes(t, l) /\ UNCHANGED m_data
        /\ l \in {"sleep", "acquire"} /\ (l = "acquire" => m_data.count # 0)
    BY <1>3 DEF Acquire, LoopOn, GoWith
  <2>2. SemaphoreTyped' /\ NoBorrow'
    <3>1. m_data \in Word /\ m_data.count \in Nat /\ l \in UserPlaces
      BY <2>1 DEF SemaphoreTyped, Word, UserPlaces
    <3>2. /\ NoBorrow' /\ data' \in [Users -> Word] /\ doing' \in [Users -> UserPlaces]
      BY <2>1, <3>1, MoveCopies
    <3> QED
      BY <2>1, <3>2 DEF SemaphoreTyped
  <2>3. Registered' = Registered /\ Helping' = Helping /\ Asleep' = Asleep
    BY <1>1, <2>1, MoveSets
  <2>4. WaitersExact' /\ NoLostWakeup'
    BY <2>1, <2>3 DEF WaitersExact, NoLostWakeup
  <2> QED
    BY <2>2, <2>4
<1> QED
  BY <1>2, <1>3

LEMMA StepSafe == Safe /\ [SemaphoreNext]_semaphoreVars => Safe'
<1> SUFFICES ASSUME Safe, [SemaphoreNext]_semaphoreVars PROVE Safe'
  OBVIOUS
<1>1. CASE UNCHANGED semaphoreVars
  BY <1>1 DEF semaphoreVars, Safe, SemaphoreTyped, WaitersExact, NoLostWakeup, NoBorrow,
              Registered, Asleep, Helping
<1>2. ASSUME NEW t \in Users, CallSemaphore(t) PROVE Safe'
  BY <1>2, PostSafe, TakeSafe DEF CallSemaphore
<1>3. ASSUME NEW t \in Users, ContinueCall(t) PROVE Safe'
  BY <1>3, PostSafe, TakeSafe, RegisterSafe, SleepSafe, AcquireSafe DEF ContinueCall
<1>4. ASSUME NEW t \in Users, Interrupted(t) PROVE Safe'
  BY <1>4, SleepSafe
<1> QED
  BY <1>1, <1>2, <1>3, <1>4 DEF SemaphoreNext

-----------------------------------------------------------------------------

(* The inductive invariant holds in every state of platform::Semaphore. *)
THEOREM SemaphoreSafe == SemaphoreSpec => []Safe
BY InitSafe, StepSafe, PTL DEF SemaphoreSpec

(* The word and the local copies always are well formed, and the low half  *)
(* never reaches the value at which post() would carry into the high half. *)
THEOREM SemaphoreTypes == SemaphoreSpec => []SemaphoreTyped
<1>1. Safe => SemaphoreTyped
  BY DEF Safe
<1> QED
  BY <1>1, SemaphoreSafe, PTL

(* The waiter count of the word equals the number of registered threads.   *)
THEOREM SemaphoreWaiters == SemaphoreSpec => []WaitersExact
<1>1. Safe => WaitersExact
  BY DEF Safe
<1> QED
  BY <1>1, SemaphoreSafe, PTL

(* No interleaving of post() and wait() loses a wake-up. *)
THEOREM SemaphoreNoLostWakeup == SemaphoreSpec => []NoLostWakeup
<1>1. Safe => NoLostWakeup
  BY DEF Safe
<1> QED
  BY <1>1, SemaphoreSafe, PTL

(* No exchange borrows from the waiter half. *)
THEOREM SemaphoreNoBorrow == SemaphoreSpec => []NoBorrow
<1>1. Safe => NoBorrow
  BY DEF Safe
<1> QED
  BY <1>1, SemaphoreSafe, PTL

-----------------------------------------------------------------------------
(* The refinement: permits is the low half, waiting the threads in wait(). *)

LEMMA MoveWaiting ==
  ASSUME NEW t \in Users, NEW l, SemaphoreTyped, UserGoes(t, l)
  PROVE  Waiting' = IF l \in {"fast", "register", "sleep", "asleep", "reload", "acquire"}
                    THEN Waiting \cup {t} ELSE Waiting \ {t}
<1>1. \A s \in Users : doing'[s] = IF s = t THEN l ELSE doing[s]
  BY DEF SemaphoreTyped, UserGoes
<1> QED
  BY <1>1 DEF Waiting

LEMMA InitRefines == SemaphoreInit => Abstract!Init
BY DEF SemaphoreInit, ZeroWord, Abstract!Init, Waiting

(* What the steps of post() are to a caller. *)
LEMMA PostRefines ==
  ASSUME Safe, NEW t \in Users, PostPermit(t) \/ FutexWake(t)
  PROVE  [Abstract!Next]_(Abstract!absVars)
<1>1. CASE PostPermit(t)
  <2>1. /\ doing[t] = "idle" /\ m_data.count < PermitLimit
        /\ UserGoes(t, "wake") \/ UserGoes(t, "idle")
        /\ m_data'.count = m_data.count + 1
    BY <1>1, SemaphoreAssumption DEF PostPermit, Increment, Safe, SemaphoreTyped, Word
  <2>2. t \notin Waiting
    BY <2>1 DEF Waiting
  <2>3. Waiting' = Waiting
    BY <2>1, <2>2, MoveWaiting DEF Safe
  <2> QED
    BY <2>1, <2>3 DEF Abstract!Next, Abstract!Post
<1>2. CASE FutexWake(t)
  <2>1. m_data' = m_data
    BY <1>2 DEF FutexWake
  <2>2. Waiting' = Waiting
    BY <1>2 DEF FutexWake, UserGoes, Waiting, Asleep, Safe, SemaphoreTyped
  <2> QED
    BY <2>1, <2>2 DEF Abstract!absVars
<1> QED
  BY <1>1, <1>2

(* try_wait() takes a permit in one step or shows nothing. *)
LEMMA TryWaitRefines ==
  ASSUME Safe, NEW t \in Users, TryPermit(t) \/ TryExchange(t)
  PROVE  [Abstract!Next]_(Abstract!absVars)
<1>1. /\ doing[t] \in {"idle", "try"}
      /\ UserGoes(t, "idle") \/ UserGoes(t, "try")
      /\ m_data' = m_data
         \/ (m_data.count > 0 /\ m_data' = [m_data EXCEPT !.count = @ - 1])
  BY DEF TryPermit, TryExchange, GoWith, Safe, NoBorrow
<1>2. t \notin Waiting
  BY <1>1 DEF Waiting
<1>3. Waiting' = Waiting
  BY <1>1, <1>2, MoveWaiting DEF Safe
<1>4. CASE m_data' = m_data
  BY <1>3, <1>4 DEF Abstract!absVars
<1>5. CASE m_data.count > 0 /\ m_data' = [m_data EXCEPT !.count = @ - 1]
  <2>1. m_data'.count = m_data.count - 1
    BY <1>5 DEF Safe, SemaphoreTyped, Word
  <2> QED
    BY <1>2, <1>3, <1>5, <2>1 DEF Abstract!Next, Abstract!Take, Abstract!TryWait
<1> QED
  BY <1>1, <1>4, <1>5

(* wait() begins in its first step, ends in the exchange that succeeds,    *)
(* and everything between, sleeping included, is invisible.                *)
LEMMA WaitRefines ==
  ASSUME Safe, NEW t \in Users,
         \/ Wait(t) \/ FastExchange(t) \/ Register(t) \/ FutexWait(t)
         \/ Interrupted(t) \/ Reload(t) \/ Acquire(t)
  PROVE  [Abstract!Next]_(Abstract!absVars)
<1> DEFINE Inside == {"fast", "register", "sleep", "asleep", "reload", "acquire"}
<1>1. CASE Wait(t)
  <2>1. /\ doing[t] = "idle" /\ m_data' = m_data
        /\ UserGoes(t, "register") \/ UserGoes(t, "fast")
    BY <1>1 DEF Wait, GoWith
  <2>2. t \notin Waiting /\ Waiting' = Waiting \cup {t}
    BY <2>1, MoveWaiting DEF Waiting, Safe
  <2> QED
    BY <2>1, <2>2 DEF Abstract!Next, Abstract!BeginWait
<1>2. CASE \/ FastExchange(t) /\ m_data' # m_data
           \/ Acquire(t) /\ m_data' # m_data
  <2>1. /\ doing[t] \in {"fast", "acquire"} /\ UserGoes(t, "idle")
        /\ m_data.count > 0 /\ m_data'.count = m_data.count - 1
    BY <1>2 DEF FastExchange, Acquire, GoWith, Safe, NoBorrow, SemaphoreTyped, Word
  <2>2. t \in Waiting /\ Waiting' = Waiting \ {t}
    BY <2>1, MoveWaiting DEF Waiting, Safe
  <2> QED
    BY <2>1, <2>2 DEF Abstract!Next, Abstract!Take, Abstract!EndWait
<1>3. CASE \/ FastExchange(t) /\ m_data' = m_data
           \/ Register(t) \/ FutexWait(t) \/ Interrupted(t) \/ Reload(t)
           \/ Acquire(t) /\ m_data' = m_data
  <2>1. m_data'.count = m_data.count
    BY <1>3 DEF FastExchange, Register, FutexWait, Interrupted, Reload, Acquire,
                Safe, SemaphoreTyped, Word
  <2>2. /\ doing[t] \in Inside
        /\ \E l \in Inside : UserGoes(t, l)
    BY <1>3 DEF FastExchange, Register, FutexWait, Interrupted, Reload, Acquire, LoopOn, GoWith,
                Safe, SemaphoreTyped, Word, NoBorrow
  <2>3. Waiting' = Waiting
    BY <2>2, MoveWaiting DEF Waiting, Safe
  <2> QED
    BY <2>1, <2>3 DEF Abstract!absVars
<1> QED
  BY <1>1, <1>2, <1>3

(* The futex implementation is a counting semaphore (its safety half): a   *)
(* permit is taken once, by one caller, and wait() ends with a permit.     *)
THEOREM SemaphoreRefines == SemaphoreSpec => ImplementsCountingSemaphore
<1>1. Safe /\ [SemaphoreNext]_semaphoreVars => [Abstract!Next]_(Abstract!absVars)
  <2> SUFFICES ASSUME Safe, [SemaphoreNext]_semaphoreVars PROVE [Abstract!Next]_(Abstract!absVars)
    OBVIOUS
  <2>1. CASE UNCHANGED semaphoreVars
    BY <2>1 DEF semaphoreVars, Abstract!absVars, Waiting
  <2>2. ASSUME NEW t \in Users, CallSemaphore(t) \/ ContinueCall(t) \/ Interrupted(t)
        PROVE  [Abstract!Next]_(Abstract!absVars)
    BY <2>2, PostRefines, TryWaitRefines, WaitRefines DEF CallSemaphore, ContinueCall
  <2> QED
    BY <2>1, <2>2 DEF SemaphoreNext
<1> QED
  BY <1>1, InitRefines, SemaphoreSafe, PTL
     DEF SemaphoreSpec, ImplementsCountingSemaphore, Abstract!Spec

=============================================================================
