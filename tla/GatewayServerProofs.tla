------------------------ MODULE GatewayServerProofs ------------------------
(***************************************************************************)
(* Proofs about three components of the gateway server, each for every     *)
(* value of its constants: the manager of channel accounts, the            *)
(* coordination of restart requests, and the registry of connected nodes.  *)
(* They share no state; what each models is named with a prefix of its own *)
(* (Channel, Restart, Node), so that this module can speak of all of them. *)
(***************************************************************************)
EXTENDS ChannelManager, RestartCoordination, NodeRegistry,
        Integers, FiniteSetTheorems, WellFoundedInduction, TLAPS

-----------------------------------------------------------------------------
(***************************************************************************)
(* Proofs about ChannelManager for any number of calls, exits and restart  *)
(* attempts: the types, that tasks of calls which do not overlap can be    *)
(* reached, that the registered entry is a live one, that a stop is final, *)
(* and that the task it waits for is on the way to its end.                *)
(***************************************************************************)

ChannelTypes ==
  /\ hook \in BOOLEAN
  /\ task \in [Tasks -> {"none", "up", "down", "sleeping", "configuring", "gone"}]
  /\ aborted \subseteq Tasks /\ registered \in Tasks \cup {0}
  /\ manual \in BOOLEAN /\ running \in BOOLEAN /\ attempts \in Nat
  /\ call \in [Calls -> [ kind : Kinds, task : Tasks \cup {0},
                          stage : {"new", "hook", "waiting", "stopped", "configuring", "over"} ]]
  /\ exits \in 0 .. MaxExits
  /\ overlapped \in BOOLEAN /\ halted \in BOOLEAN

\* Who may still launch a task: the calls that are not over, and the chains of tasks
\* that have ended by themselves.  Each is paid for by its call or its exit, so that
\* there is a number for every task.
Used == { t \in Tasks : task[t] # "none" }
Unfinished == { c \in Calls : call[c].stage # "over" }
Returning ==
  { t \in Tasks : task[t] = "configuring" \/ (task[t] \in {"down", "sleeping"} /\ t \notin aborted) }
RoomForTasks ==
  Cardinality(Used) + Cardinality(Unfinished) + Cardinality(Returning) <= NumCalls + exits

\* A task counts as one attempt at most.
Ended == { t \in Tasks : task[t] \in {"sleeping", "configuring", "gone"} }
AttemptsAreEnds == attempts <= Cardinality(Ended)

Restarting == { t \in Tasks : task[t] = "configuring" }
Asking == { c \in Calls : call[c].stage \in {"hook", "waiting"} }

\* While calls do not overlap: whoever is configuring a start is alone, with no task
\* and no stop beside it; a stop that is under way has found the only task; nothing is
\* left of an account that was stopped or whose attempts are used up.
OneAtATime ==
  /\ \A t \in Live : registered = t
  /\ Configuring => Live = {} /\ ~Stopping
  /\ \A c \in At("configuring") : \A d \in At("configuring") : c = d
  /\ \A t \in Restarting : \A u \in Restarting : t = u
  /\ At("configuring") # {} => Restarting = {}
  /\ \A c \in Asking : \A t \in Live : call[c].task = t
  /\ halted => Live = {} /\ ~Configuring
  /\ attempts > MaxRestartAttempts =>
       Live = {} /\ Restarting = {} /\ attempts = MaxRestartAttempts + 1

ChannelIInv ==
  /\ ChannelTypes /\ RoomForTasks /\ AttemptsAreEnds /\ RegistrationIsLive
  /\ ~overlapped => OneAtATime

-----------------------------------------------------------------------------
(* Counting.                                                               *)

\* The bounds are natural numbers, and calls and tasks are finitely many.
LEMMA Bounds ==
  /\ NumCalls \in Nat /\ MaxExits \in Nat /\ MaxRestartAttempts \in Nat
  /\ IsFiniteSet(Tasks) /\ Cardinality(Tasks) = NumCalls + MaxExits
  /\ IsFiniteSet(Calls) /\ Cardinality(Calls) = NumCalls
  /\ \A t \in Tasks : t \in Nat /\ t # 0
  /\ \A c \in Calls : c \in Nat /\ c # 0
<1>1. NumCalls \in Nat /\ MaxExits \in Nat /\ MaxRestartAttempts \in Nat
  BY ChannelConstants
<1>2. ASSUME NEW n \in Nat
      PROVE  IsFiniteSet(1 .. n) /\ Cardinality(1 .. n) = n
  <2>1. IsFiniteSet(1 .. n) /\ Cardinality(1 .. n) = IF 1 > n THEN 0 ELSE n - 1 + 1
    BY FS_Interval
  <2> QED
    BY <2>1
<1>3. NumCalls + MaxExits \in Nat
  BY <1>1
<1> QED
  BY <1>1, <1>2, <1>3 DEF Tasks, Calls

\* A set that grows by one element at most, or loses one at least.
LEMMA Sizes ==
  ASSUME NEW S, IsFiniteSet(S), NEW T, NEW x
  PROVE  /\ Cardinality(S) \in Nat
         /\ T \subseteq S => Cardinality(T) \in Nat /\ Cardinality(T) <= Cardinality(S)
         /\ T \subseteq S \cup {x} => Cardinality(T) \in Nat /\ Cardinality(T) <= Cardinality(S) + 1
         /\ T \subseteq S \ {x} /\ x \in S => Cardinality(T) + 1 <= Cardinality(S)
<1>1. Cardinality(S) \in Nat
  BY FS_CardinalityType
<1>2. T \subseteq S => Cardinality(T) \in Nat /\ Cardinality(T) <= Cardinality(S)
  BY FS_Subset, FS_CardinalityType
<1>3. /\ IsFiniteSet(S \cup {x}) /\ Cardinality(S \cup {x}) <= Cardinality(S) + 1
      /\ Cardinality(S \cup {x}) \in Nat
  BY <1>1, FS_AddElement, FS_CardinalityType
<1>4. T \subseteq S \cup {x} => Cardinality(T) \in Nat /\ Cardinality(T) <= Cardinality(S) + 1
  <2> SUFFICES ASSUME T \subseteq S \cup {x}
               PROVE  Cardinality(T) \in Nat /\ Cardinality(T) <= Cardinality(S) + 1
    OBVIOUS
  <2>1. IsFiniteSet(T) /\ Cardinality(T) <= Cardinality(S \cup {x})
    BY <1>3, FS_Subset
  <2>2. Cardinality(T) \in Nat
    BY <2>1, FS_CardinalityType
  <2> QED
    BY <1>1, <1>3, <2>1, <2>2
<1>5. T \subseteq S \ {x} /\ x \in S => Cardinality(T) + 1 <= Cardinality(S)
  <2> SUFFICES ASSUME T \subseteq S \ {x}, x \in S
               PROVE  Cardinality(T) + 1 <= Cardinality(S)
    OBVIOUS
  <2>1. IsFiniteSet(S \ {x}) /\ Cardinality(S \ {x}) = Cardinality(S) - 1
    BY FS_RemoveElement
  <2>2. IsFiniteSet(T) /\ Cardinality(T) <= Cardinality(S \ {x})
    BY <2>1, FS_Subset
  <2>3. Cardinality(T) \in Nat
    BY <2>2, FS_CardinalityType
  <2> QED
    BY <1>1, <2>1, <2>2, <2>3
<1> QED
  BY <1>1, <1>2, <1>4, <1>5

\* The sets that are counted are finite.
LEMMA Finite ==
  /\ IsFiniteSet(Used) /\ Cardinality(Used) \in Nat
  /\ IsFiniteSet(Unfinished) /\ Cardinality(Unfinished) \in Nat
  /\ IsFiniteSet(Returning) /\ Cardinality(Returning) \in Nat
  /\ IsFiniteSet(Ended) /\ Cardinality(Ended) \in Nat /\ Cardinality(Ended) <= NumCalls + MaxExits
<1>1. Used \subseteq Tasks /\ Unfinished \subseteq Calls /\ Returning \subseteq Tasks /\ Ended \subseteq Tasks
  BY DEF Used, Unfinished, Returning, Ended
<1>2. IsFiniteSet(Used) /\ IsFiniteSet(Unfinished) /\ IsFiniteSet(Returning) /\ IsFiniteSet(Ended)
  BY <1>1, Bounds, FS_Subset
<1>3. Cardinality(Ended) <= Cardinality(Tasks)
  BY <1>1, Bounds, FS_Subset
<1> QED
  BY <1>2, <1>3, Bounds, FS_CardinalityType

\* The same in the next state.
LEMMA FinitePrimed ==
  /\ Cardinality(Used') \in Nat /\ Cardinality(Unfinished') \in Nat
  /\ Cardinality(Returning') \in Nat /\ Cardinality(Ended') \in Nat /\ IsFiniteSet(Ended')
<1>1. Used' \subseteq Tasks /\ Unfinished' \subseteq Calls /\ Returning' \subseteq Tasks /\ Ended' \subseteq Tasks
  BY DEF Used, Unfinished, Returning, Ended
<1>2. IsFiniteSet(Used') /\ IsFiniteSet(Unfinished') /\ IsFiniteSet(Returning') /\ IsFiniteSet(Ended')
  BY <1>1, Bounds, FS_Subset
<1> QED
  BY <1>2, FS_CardinalityType

\* A non-empty set of tasks has a first one.
LEMMA FirstTask ==
  ASSUME NEW S \in SUBSET Tasks, S # {}
  PROVE  \E t \in S : \A u \in S : ~(u < t)
<1>1. S \subseteq Nat
  BY Bounds
<1>2. PICK t \in S : \A u \in S : ~(<< u, t >> \in OpToRel(<, Nat))
  BY <1>1, NatLessThanWellFounded, WFMin
<1>3. \A u \in S : u < t => << u, t >> \in OpToRel(<, Nat)
  BY <1>1 DEF OpToRel
<1> QED
  BY <1>2, <1>3

\* Whoever may launch a task finds a number for it that was never used.
LEMMA NextTaskIsNew ==
  ASSUME ChannelTypes, RoomForTasks, Unfinished # {} \/ Returning # {}
  PROVE  NextTask \in Tasks /\ task[NextTask] = "none"
<1>1. Cardinality(Used) < NumCalls + MaxExits
  <2>1. Cardinality(Unfinished) # 0 \/ Cardinality(Returning) # 0
    BY Finite, FS_EmptySet
  <2>2. exits \in Nat /\ exits <= MaxExits
    BY Bounds DEF ChannelTypes
  <2> QED
    BY <2>1, <2>2, Finite, Bounds DEF RoomForTasks
<1>2. Used # Tasks
  BY <1>1, Finite, Bounds
<1> DEFINE free == { t \in Tasks : task[t] = "none" }
<1>3. free \in SUBSET Tasks /\ free # {}
  BY <1>2 DEF Used
<1>4. PICK t \in free : \A u \in free : ~(u < t)
  BY <1>3, FirstTask
<1>5. t \in Tasks /\ task[t] = "none" /\ \A u \in Tasks : u < t => task[u] # "none"
  BY <1>4
<1> QED
  BY <1>5 DEF NextTask

\* The room for tasks is kept by every step that launches nothing new; by an exit that
\* is counted; and by a launch that somebody gave up a claim for.
LEMMA RoomKept ==
  ASSUME ChannelTypes, RoomForTasks, exits' \in Nat, NEW x,
         \/ /\ Used' \subseteq Used /\ Unfinished' \subseteq Unfinished /\ Returning' \subseteq Returning
            /\ exits' = exits
         \/ /\ Used' \subseteq Used /\ Unfinished' \subseteq Unfinished /\ Returning' \subseteq Returning \cup {x}
            /\ exits' = exits + 1
         \/ \E t \in Returning :
              /\ Used' \subseteq Used \cup {x} /\ Unfinished' \subseteq Unfinished
              /\ Returning' \subseteq Returning \ {t} /\ exits' = exits
         \/ \E c \in Unfinished :
              /\ Used' \subseteq Used \cup {x} /\ Unfinished' \subseteq Unfinished \ {c}
              /\ Returning' \subseteq Returning /\ exits' = exits
  PROVE  RoomForTasks'
<1> DEFINE u == Cardinality(Used)   uu == Cardinality(Used')
           f == Cardinality(Unfinished)   ff == Cardinality(Unfinished')
           r == Cardinality(Returning)   rr == Cardinality(Returning')
<1>1. /\ u \in Nat /\ f \in Nat /\ r \in Nat /\ uu \in Nat /\ ff \in Nat /\ rr \in Nat
      /\ NumCalls \in Nat /\ exits \in Nat
  BY Finite, FinitePrimed, Bounds DEF ChannelTypes
<1>2. u + f + r <= NumCalls + exits
  BY DEF RoomForTasks
<1>3. /\ Used' \subseteq Used => uu <= u
      /\ Used' \subseteq Used \cup {x} => uu <= u + 1
      /\ Unfinished' \subseteq Unfinished => ff <= f
      /\ \A c \in Unfinished : Unfinished' \subseteq Unfinished \ {c} => ff + 1 <= f
      /\ Returning' \subseteq Returning => rr <= r
      /\ Returning' \subseteq Returning \cup {x} => rr <= r + 1
      /\ \A t \in Returning : Returning' \subseteq Returning \ {t} => rr + 1 <= r
  BY Finite, Sizes
<1>4. uu + ff + rr <= NumCalls + exits'
  <2> HIDE DEF u, uu, f, ff, r, rr
  <2>1. ASSUME uu <= u, ff <= f, rr <= r, exits' = exits  PROVE uu + ff + rr <= NumCalls + exits'
    BY <1>1, <1>2, <2>1
  <2>2. ASSUME uu <= u, ff <= f, rr <= r + 1, exits' = exits + 1  PROVE uu + ff + rr <= NumCalls + exits'
    BY <1>1, <1>2, <2>2
  <2>3. ASSUME uu <= u + 1, ff <= f, rr + 1 <= r, exits' = exits  PROVE uu + ff + rr <= NumCalls + exits'
    BY <1>1, <1>2, <2>3
  <2>4. ASSUME uu <= u + 1, ff + 1 <= f, rr <= r, exits' = exits  PROVE uu + ff + rr <= NumCalls + exits'
    BY <1>1, <1>2, <2>4
  <2> QED
    BY <1>3, <2>1, <2>2, <2>3, <2>4
<1> QED
  BY <1>4 DEF RoomForTasks, uu, ff, rr

\* An attempt is counted only when a task ends.
LEMMA AttemptsKept ==
  ASSUME ChannelTypes, AttemptsAreEnds, attempts' \in Nat, Ended \subseteq Ended', NEW x,
         attempts' <= attempts \/ (attempts' <= attempts + 1 /\ x \in Ended' /\ x \notin Ended)
  PROVE  AttemptsAreEnds'
<1>1. /\ Cardinality(Ended) \in Nat /\ Cardinality(Ended') \in Nat /\ IsFiniteSet(Ended')
      /\ attempts \in Nat
  BY Finite, FinitePrimed DEF ChannelTypes
<1>2. attempts <= Cardinality(Ended)
  BY DEF AttemptsAreEnds
<1>3. CASE attempts' <= attempts
  <2>1. Cardinality(Ended) <= Cardinality(Ended')
    BY <1>1, Sizes
  <2>2. attempts' <= Cardinality(Ended')
    BY <1>1, <1>2, <1>3, <2>1
  <2> QED
    BY <2>2 DEF AttemptsAreEnds
<1>4. CASE attempts' <= attempts + 1 /\ x \in Ended' /\ x \notin Ended
  <2>1. Ended \subseteq Ended' \ {x}
    BY <1>4
  <2>2. Cardinality(Ended) + 1 <= Cardinality(Ended')
    BY <1>1, <1>4, <2>1, Sizes
  <2>3. attempts' <= Cardinality(Ended')
    BY <1>1, <1>2, <1>4, <2>2
  <2> QED
    BY <2>3 DEF AttemptsAreEnds
<1> QED
  BY <1>3, <1>4

-----------------------------------------------------------------------------
(* The steps of a task's chain.                                            *)

LEMMA ExitStep ==
  ASSUME ChannelIInv, NEW t \in Tasks, TaskExit(t)
  PROVE  ChannelIInv'
<1>1. ChannelTypes
  BY DEF ChannelIInv
<1>2. /\ \A u \in Tasks : task'[u] = IF u = t THEN "down" ELSE task[u]
      /\ task[t] = "up"
      /\ UNCHANGED << hook, aborted, registered, manual, attempts, call, overlapped, halted >>
  BY <1>1 DEF ChannelTypes, TaskExit
<1>3. exits \in Nat /\ MaxExits \in Nat
  BY <1>1, Bounds DEF ChannelTypes
<1>4. ChannelTypes'
  <2>1. exits' \in 0 .. MaxExits
    BY <1>3 DEF TaskExit
  <2>2. task' \in [Tasks -> {"none", "up", "down", "sleeping", "configuring", "gone"}] /\ running' \in BOOLEAN
    BY <1>1 DEF ChannelTypes, TaskExit
  <2> QED
    BY <1>1, <1>2, <2>1, <2>2 DEF ChannelTypes
<1>5. /\ Used' = Used /\ Unfinished' = Unfinished /\ Ended' = Ended /\ Live' = Live
      /\ Restarting' = Restarting /\ Asking' = Asking /\ Configuring' = Configuring /\ Stopping' = Stopping
      /\ Returning' = IF t \in aborted THEN Returning ELSE Returning \cup {t}
  BY <1>2 DEF Used, Unfinished, Ended, Live, Restarting, Asking, Configuring, Stopping, Returning, At
<1>6. RoomForTasks'
  <2>1. exits' = IF t \in aborted THEN exits ELSE exits + 1
    BY DEF TaskExit
  <2> QED
    BY <1>1, <1>3, <1>5, <2>1, RoomKept DEF ChannelIInv
<1>7. AttemptsAreEnds'
  BY <1>2, <1>5 DEF ChannelIInv, AttemptsAreEnds
<1>8. RegistrationIsLive'
  BY <1>2, <1>5 DEF ChannelIInv, RegistrationIsLive
<1>9. ~overlapped' => OneAtATime'
  BY <1>2, <1>5 DEF ChannelIInv, OneAtATime, At
<1> QED
  BY <1>4, <1>6, <1>7, <1>8, <1>9 DEF ChannelIInv

\* While calls do not overlap, a task whose chain is going on is the only thing there.
LEMMA Alone ==
  ASSUME ChannelIInv, ~overlapped, NEW t \in Live
  PROVE  /\ registered = t /\ Live = {t} /\ ~Configuring /\ ~halted
         /\ attempts <= MaxRestartAttempts /\ Restarting = {} /\ At("configuring") = {}
<1>1. OneAtATime /\ ChannelTypes
  BY DEF ChannelIInv
<1>2. registered = t /\ Live = {t} /\ ~Configuring /\ ~halted
  BY <1>1 DEF OneAtATime
<1>3. Restarting = {} /\ At("configuring") = {}
  BY <1>2 DEF Configuring, Restarting
<1>4. attempts <= MaxRestartAttempts
  BY <1>1, Bounds DEF OneAtATime, ChannelTypes
<1> QED
  BY <1>2, <1>3, <1>4

LEMMA GiveUpStep ==
  ASSUME ChannelIInv, NEW t \in Tasks, GiveUp(t)
  PROVE  ChannelIInv'
<1>1. ChannelTypes
  BY DEF ChannelIInv
<1>2. /\ \A u \in Tasks : task'[u] = IF u = t THEN "gone" ELSE task[u]
      /\ task[t] = "down" /\ registered' = Without(t)
      /\ UNCHANGED << hook, aborted, manual, running, call, exits, overlapped, halted >>
  BY <1>1 DEF ChannelTypes, GiveUp
<1>3. attempts \in Nat /\ attempts' \in Nat /\ attempts' <= attempts + 1 /\ exits \in Nat
  BY <1>1, Bounds DEF ChannelTypes, GiveUp
<1>4. ChannelTypes'
  BY <1>1, <1>3 DEF ChannelTypes, GiveUp, Without
<1>5. /\ Used' = Used /\ Unfinished' = Unfinished /\ Ended' = Ended \cup {t} /\ t \notin Ended
      /\ t \in Live /\ Live' = Live \ {t} /\ Returning' \subseteq Returning
      /\ Restarting' = Restarting /\ Asking' = Asking /\ Configuring' = Configuring /\ Stopping' = Stopping
  BY <1>2 DEF Used, Unfinished, Ended, Live, Restarting, Asking, Configuring, Stopping, Returning, At
<1>6. RoomForTasks'
  BY <1>1, <1>2, <1>3, <1>5, RoomKept DEF ChannelIInv
<1>7. AttemptsAreEnds'
  BY <1>1, <1>3, <1>5, AttemptsKept DEF ChannelIInv
<1>8. RegistrationIsLive'
  BY <1>2, <1>5 DEF ChannelIInv, RegistrationIsLive, Without
<1>9. ~overlapped' => OneAtATime'
  <2> SUFFICES ASSUME ~overlapped PROVE OneAtATime'
    BY <1>2
  <2>1. Live' = {} /\ ~Configuring /\ ~halted /\ attempts <= MaxRestartAttempts /\ Restarting = {}
        /\ At("configuring") = {}
    BY <1>5, Alone
  <2>2. At("configuring")' = {}
    BY <1>2, <2>1 DEF At
  <2>3. attempts' > MaxRestartAttempts => attempts' = MaxRestartAttempts + 1
    BY <1>3, <2>1, Bounds
  <2> QED
    BY <1>2, <1>5, <2>1, <2>2, <2>3 DEF OneAtATime
<1> QED
  BY <1>4, <1>6, <1>7, <1>8, <1>9 DEF ChannelIInv

LEMMA BackoffStep ==
  ASSUME ChannelIInv, NEW t \in Tasks, Backoff(t)
  PROVE  ChannelIInv'
<1>1. ChannelTypes
  BY DEF ChannelIInv
<1>2. /\ \A u \in Tasks : task'[u] = IF u = t THEN "sleeping" ELSE task[u]
      /\ task[t] = "down" /\ attempts' = attempts + 1 /\ attempts + 1 <= MaxRestartAttempts
      /\ UNCHANGED << hook, aborted, registered, manual, running, call, exits, overlapped, halted >>
  BY <1>1 DEF ChannelTypes, Backoff
<1>3. attempts \in Nat /\ attempts' \in Nat /\ exits \in Nat
  BY <1>1, <1>2, Bounds DEF ChannelTypes
<1>4. ChannelTypes'
  BY <1>1, <1>3 DEF ChannelTypes, Backoff
<1>5. /\ Used' = Used /\ Unfinished' = Unfinished /\ Ended' = Ended \cup {t} /\ t \notin Ended
      /\ t \in Live /\ Live' = Live /\ Returning' = Returning
      /\ Restarting' = Restarting /\ Asking' = Asking /\ Configuring' = Configuring /\ Stopping' = Stopping
  BY <1>2 DEF Used, Unfinished, Ended, Live, Restarting, Asking, Configuring, Stopping, Returning, At
<1>6. RoomForTasks'
  BY <1>1, <1>2, <1>3, <1>5, RoomKept DEF ChannelIInv
<1>7. AttemptsAreEnds'
  BY <1>1, <1>2, <1>3, <1>5, AttemptsKept DEF ChannelIInv
<1>8. RegistrationIsLive'
  BY <1>2, <1>5 DEF ChannelIInv, RegistrationIsLive
<1>9. ~overlapped' => OneAtATime'
  <2> SUFFICES ASSUME ~overlapped PROVE OneAtATime'
    BY <1>2
  <2>1. OneAtATime /\ ~(attempts' > MaxRestartAttempts)
    BY <1>2, <1>3, Bounds DEF ChannelIInv
  <2> QED
    BY <1>2, <1>5, <2>1 DEF OneAtATime, At
<1> QED
  BY <1>4, <1>6, <1>7, <1>8, <1>9 DEF ChannelIInv

LEMMA WakeStep ==
  ASSUME ChannelIInv, NEW t \in Tasks, Wake(t)
  PROVE  ChannelIInv'
<1>1. ChannelTypes
  BY DEF ChannelIInv
<1>2. PICK on \in BOOLEAN :
        /\ task' = [task EXCEPT ![t] = IF on THEN "configuring" ELSE "gone"]
        /\ IF manual \/ t \in aborted
           THEN ~on /\ UNCHANGED << running, overlapped >>
           ELSE Look(on, Without(t))
  BY DEF Wake
<1>3. /\ \A u \in Tasks : task'[u] = IF u = t THEN (IF on THEN "configuring" ELSE "gone") ELSE task[u]
      /\ task[t] = "sleeping" /\ registered' = Without(t)
      /\ UNCHANGED << hook, aborted, manual, attempts, call, exits, halted >>
  BY <1>1, <1>2 DEF ChannelTypes, Wake
<1>4. /\ on => t \notin aborted
      /\ overlapped' \in BOOLEAN /\ (overlapped => overlapped')
      /\ on /\ ~overlapped' => ~Stopping
      /\ running' \in BOOLEAN
  BY <1>1, <1>2 DEF Look, ChannelTypes, Configuring, Stopping
<1>5. ChannelTypes'
  BY <1>1, <1>2, <1>3, <1>4 DEF ChannelTypes, Without
<1>6. /\ Used' = Used /\ Unfinished' = Unfinished /\ Ended' = Ended
      /\ t \in Live /\ Live' = Live \ {t} /\ Returning' \subseteq Returning
      /\ Restarting' = (IF on THEN Restarting \cup {t} ELSE Restarting)
      /\ Asking' = Asking /\ Stopping' = Stopping /\ At("configuring")' = At("configuring")
  BY <1>3, <1>4 DEF Used, Unfinished, Ended, Live, Restarting, Asking, Stopping, Returning, At
<1>7. RoomForTasks'
  BY <1>1, <1>3, <1>6, Bounds, RoomKept DEF ChannelIInv, ChannelTypes
<1>8. AttemptsAreEnds'
  BY <1>3, <1>6 DEF ChannelIInv, AttemptsAreEnds
<1>9. RegistrationIsLive'
  BY <1>3, <1>6 DEF ChannelIInv, RegistrationIsLive, Without
<1>10. ~overlapped' => OneAtATime'
  <2> SUFFICES ASSUME ~overlapped' PROVE OneAtATime'
    OBVIOUS
  <2>1. /\ Live' = {} /\ ~Configuring /\ ~halted /\ attempts <= MaxRestartAttempts
        /\ Restarting = {} /\ At("configuring") = {}
    BY <1>4, <1>6, Alone
  <2>2. /\ Restarting' = (IF on THEN {t} ELSE {}) /\ At("configuring")' = {}
        /\ (on => ~Stopping') /\ ~halted'
    BY <1>3, <1>4, <1>6, <2>1
  <2>3. Configuring' => on
    BY <2>2 DEF Configuring, Restarting
  <2>4. ~(attempts' > MaxRestartAttempts)
    BY <1>1, <1>3, <2>1, Bounds DEF ChannelTypes
  <2> QED
    BY <2>1, <2>2, <2>3, <2>4 DEF OneAtATime
<1> QED
  BY <1>5, <1>7, <1>8, <1>9, <1>10 DEF ChannelIInv

LEMMA RestartStep ==
  ASSUME ChannelIInv, NEW t \in Tasks, Restart(t)
  PROVE  ChannelIInv'
<1> DEFINE left == [task EXCEPT ![t] = "gone"]
<1>1. ChannelTypes
  BY DEF ChannelIInv
<1>2. /\ task[t] = "configuring" /\ (Launch(left) \/ NoLaunch(left))
      /\ UNCHANGED << hook, aborted, manual, attempts, call, exits, overlapped, halted >>
      /\ t \in Returning /\ t \in Restarting /\ Configuring
  BY DEF Restart, Returning, Restarting, Configuring
<1>3. NextTask \in Tasks /\ task[NextTask] = "none"
  BY <1>1, <1>2, NextTaskIsNew DEF ChannelIInv
<1>4. ~overlapped => /\ Live = {} /\ ~Stopping /\ Restarting = {t} /\ At("configuring") = {}
                     /\ ~halted /\ ~(attempts > MaxRestartAttempts)
  BY <1>2 DEF ChannelIInv, OneAtATime
<1>5. CASE Launch(left)
  <2>1. /\ \A u \in Tasks : task'[u] = IF u = NextTask THEN "up" ELSE IF u = t THEN "gone" ELSE task[u]
        /\ registered' = NextTask /\ running' = TRUE
    BY <1>1, <1>3, <1>5 DEF ChannelTypes, Launch
  <2>2. ChannelTypes'
    BY <1>1, <1>2, <1>3, <1>5, <2>1 DEF ChannelTypes, Launch
  <2>3. /\ Used' \subseteq Used \cup {NextTask} /\ Unfinished' = Unfinished /\ Ended \subseteq Ended'
        /\ Live' = Live \cup {NextTask} /\ Returning' \subseteq Returning \ {t}
        /\ Restarting' = Restarting \ {t} /\ Asking' = Asking /\ Stopping' = Stopping
        /\ At("configuring")' = At("configuring")
    BY <1>2, <1>3, <2>1 DEF Used, Unfinished, Ended, Live, Restarting, Asking, Stopping, Returning, At
  <2>4. RoomForTasks'
    BY <1>1, <1>2, <2>3, Bounds, RoomKept DEF ChannelIInv, ChannelTypes
  <2>5. AttemptsAreEnds'
    BY <1>1, <1>2, <2>3, AttemptsKept DEF ChannelIInv, ChannelTypes
  <2>6. RegistrationIsLive'
    BY <1>3, <2>1, <2>3 DEF RegistrationIsLive
  <2>7. ~overlapped' => OneAtATime'
    <3> SUFFICES ASSUME ~overlapped PROVE OneAtATime'
      BY <1>2
    <3>1. Live' = {NextTask} /\ Restarting' = {} /\ At("configuring")' = {} /\ Asking' = {}
      BY <1>4, <2>3 DEF Stopping, Asking, At
    <3>2. ~Configuring'
      BY <3>1 DEF Configuring, Restarting
    <3> QED
      BY <1>2, <1>4, <2>1, <3>1, <3>2 DEF OneAtATime
  <2> QED
    BY <2>2, <2>4, <2>5, <2>6, <2>7 DEF ChannelIInv
<1>6. CASE NoLaunch(left)
  <2>1. /\ \A u \in Tasks : task'[u] = IF u = t THEN "gone" ELSE task[u]
        /\ registered' = registered /\ running' \in BOOLEAN
    BY <1>1, <1>6 DEF ChannelTypes, NoLaunch
  <2>2. ChannelTypes'
    BY <1>1, <1>2, <1>6, <2>1 DEF ChannelTypes, NoLaunch
  <2>3. /\ Used' = Used /\ Unfinished' = Unfinished /\ Ended \subseteq Ended'
        /\ Live' = Live /\ Returning' \subseteq Returning
        /\ Restarting' = Restarting \ {t} /\ Asking' = Asking /\ Stopping' = Stopping
        /\ At("configuring")' = At("configuring")
    BY <1>2, <2>1 DEF Used, Unfinished, Ended, Live, Restarting, Asking, Stopping, Returning, At
  <2>4. RoomForTasks'
    BY <1>1, <1>2, <2>3, Bounds, RoomKept DEF ChannelIInv, ChannelTypes
  <2>5. AttemptsAreEnds'
    BY <1>1, <1>2, <2>3, AttemptsKept DEF ChannelIInv, ChannelTypes
  <2>6. RegistrationIsLive'
    BY <2>1, <2>3 DEF ChannelIInv, RegistrationIsLive
  <2>7. ~overlapped' => OneAtATime'
    <3> SUFFICES ASSUME ~overlapped PROVE OneAtATime'
      BY <1>2
    <3>1. Live' = {} /\ Restarting' = {} /\ At("configuring")' = {}
      BY <1>4, <2>3
    <3>2. ~Configuring'
      BY <3>1 DEF Configuring, Restarting
    <3> QED
      BY <1>2, <1>4, <3>1, <3>2 DEF OneAtATime
  <2> QED
    BY <2>2, <2>4, <2>5, <2>6, <2>7 DEF ChannelIInv
<1> QED
  BY <1>2, <1>5, <1>6

-----------------------------------------------------------------------------
(* The steps of the calls.                                                 *)

\* A call that moves changes neither its kind nor its task, and no other call.
LEMMA CallMoves ==
  ASSUME ChannelTypes, NEW c \in Calls, NEW s, call' = [call EXCEPT ![c].stage = s]
  PROVE  /\ \A d \in Calls : d # c => call'[d] = call[d]
         /\ call'[c].stage = s /\ call'[c].kind = call[c].kind /\ call'[c].task = call[c].task
         /\ s \in {"new", "hook", "waiting", "stopped", "configuring", "over"} =>
              call' \in [Calls -> [ kind : Kinds, task : Tasks \cup {0},
                                    stage : {"new", "hook", "waiting", "stopped", "configuring", "over"} ]]
BY DEF ChannelTypes

LEMMA BeginStartStep ==
  ASSUME ChannelIInv, NEW c \in Calls, NEW kind \in Kinds, BeginStart(c, kind),
         call[c].stage \in {"new", "stopped"}
  PROVE  ChannelIInv'
<1>1. ChannelTypes
  BY DEF ChannelIInv
<1>2. PICK on \in BOOLEAN :
        /\ Look(on, registered)
        /\ call' = [call EXCEPT ![c] = [kind |-> kind, stage |-> IF on THEN "configuring" ELSE "over", task |-> 0]]
  BY DEF BeginStart
<1>3. /\ \A d \in Calls : d # c => call'[d] = call[d]
      /\ call'[c] = [kind |-> kind, stage |-> IF on THEN "configuring" ELSE "over", task |-> 0]
      /\ halted' = FALSE /\ attempts' \in Nat /\ attempts' \in {attempts, 0}
      /\ UNCHANGED << hook, task, aborted, registered, manual, exits >>
  BY <1>1, <1>2 DEF ChannelTypes, BeginStart
<1>4. /\ overlapped' \in BOOLEAN /\ (overlapped => overlapped')
      /\ on => registered = 0
      /\ on /\ ~overlapped' => ~Stopping /\ ~Configuring
      /\ running' \in BOOLEAN
  BY <1>1, <1>2 DEF Look, ChannelTypes, Configuring, Stopping
<1>5. ChannelTypes'
  <2>1. call' \in [Calls -> [ kind : Kinds, task : Tasks \cup {0},
                              stage : {"new", "hook", "waiting", "stopped", "configuring", "over"} ]]
    BY <1>1, <1>2 DEF ChannelTypes
  <2> QED
    BY <1>1, <1>3, <1>4, <2>1 DEF ChannelTypes
<1>6. /\ Used' = Used /\ Unfinished' \subseteq Unfinished /\ Ended' = Ended
      /\ Live' = Live /\ Returning' = Returning /\ Restarting' = Restarting
      /\ Asking' = Asking
      /\ At("configuring")' = (IF on THEN At("configuring") \cup {c} ELSE At("configuring"))
      /\ At("hook")' = At("hook") /\ At("waiting")' = At("waiting")
      /\ \A d \in At("stopped")' : d \in At("stopped") /\ d # c
  BY <1>3 DEF Used, Unfinished, Ended, Live, Restarting, Asking, Returning, At
<1>7. Stopping' => Stopping
  BY <1>3, <1>6 DEF Stopping
<1>8. RoomForTasks'
  BY <1>1, <1>3, <1>6, Bounds, RoomKept DEF ChannelIInv, ChannelTypes
<1>9. AttemptsAreEnds'
  BY <1>1, <1>3, <1>6, AttemptsKept DEF ChannelIInv, ChannelTypes
<1>10. RegistrationIsLive'
  BY <1>3, <1>6 DEF ChannelIInv, RegistrationIsLive
<1>11. ~overlapped' => OneAtATime'
  <2> SUFFICES ASSUME ~overlapped' PROVE OneAtATime'
    OBVIOUS
  <2>1. OneAtATime /\ ~overlapped
    BY <1>4 DEF ChannelIInv
  <2>2. attempts' > MaxRestartAttempts =>
          Live' = {} /\ Restarting' = {} /\ attempts' = MaxRestartAttempts + 1
    BY <1>3, <1>6, <2>1, Bounds DEF OneAtATime
  <2>3. \A d \in Asking' : \A t \in Live' : call'[d].task = t
    <3>1. \A d \in Asking' : d # c
      BY <1>3 DEF Asking
    <3> QED
      BY <1>3, <1>6, <2>1, <3>1 DEF OneAtATime, Asking
  <2>4. CASE on
    <3>1. Live = {} /\ ~Stopping /\ ~Configuring
      BY <1>4, <2>1, <2>4, Bounds DEF OneAtATime, Live
    <3>2. Restarting = {} /\ At("configuring") = {}
      BY <3>1 DEF Configuring, Restarting
    <3> QED
      BY <1>3, <1>6, <1>7, <2>2, <2>3, <2>4, <3>1, <3>2 DEF OneAtATime
  <2>5. CASE ~on
    <3>1. Configuring' => Configuring
      BY <1>3, <1>6, <2>5 DEF Configuring
    <3> QED
      BY <1>3, <1>6, <1>7, <2>1, <2>2, <2>3, <2>5, <3>1 DEF OneAtATime
  <2> QED
    BY <2>4, <2>5
<1> QED
  BY <1>5, <1>8, <1>9, <1>10, <1>11 DEF ChannelIInv

LEMMA BeginStopStep ==
  ASSUME ChannelIInv, NEW c \in Calls, NEW kind \in Kinds, BeginStop(c, kind), call[c].stage = "new"
  PROVE  ChannelIInv'
<1>1. ChannelTypes
  BY DEF ChannelIInv
<1>2. PICK s \in {"over", "stopped", "hook", "waiting"} :
        /\ call' = [call EXCEPT ![c] = [kind |-> kind, task |-> registered, stage |-> s]]
        /\ registered = 0 \/ s \in {"hook", "waiting"}
  BY <1>1 DEF BeginStop, AfterStop, ChannelTypes
<1>3. /\ \A d \in Calls : d # c => call'[d] = call[d]
      /\ call'[c] = [kind |-> kind, task |-> registered, stage |-> s]
      /\ overlapped' = (overlapped \/ Configuring)
      /\ aborted \subseteq aborted' /\ halted' \in BOOLEAN
      /\ halted' => halted \/ registered = 0
      /\ UNCHANGED << hook, task, registered, attempts, running, exits >>
  BY <1>1, <1>2 DEF ChannelTypes, BeginStop
<1>4. ChannelTypes'
  <2>1. call' \in [Calls -> [ kind : Kinds, task : Tasks \cup {0},
                              stage : {"new", "hook", "waiting", "stopped", "configuring", "over"} ]]
    BY <1>1, <1>2 DEF ChannelTypes
  <2>2. aborted' \subseteq Tasks /\ manual' \in BOOLEAN
    BY <1>1 DEF ChannelTypes, BeginStop
  <2>3. overlapped' \in BOOLEAN
    BY <1>1, <1>3 DEF ChannelTypes, Configuring
  <2> QED
    BY <1>1, <1>3, <2>1, <2>2, <2>3 DEF ChannelTypes
<1>5. /\ Used' = Used /\ Unfinished' \subseteq Unfinished /\ Ended' = Ended
      /\ Live' = Live /\ Returning' \subseteq Returning /\ Restarting' = Restarting
      /\ Asking' \subseteq Asking \cup {c} /\ At("configuring")' = At("configuring")
  BY <1>3 DEF Used, Unfinished, Ended, Live, Restarting, Asking, Returning, At
<1>6. RoomForTasks'
  BY <1>1, <1>3, <1>5, Bounds, RoomKept DEF ChannelIInv, ChannelTypes
<1>7. AttemptsAreEnds'
  BY <1>3, <1>5 DEF ChannelIInv, AttemptsAreEnds
<1>8. RegistrationIsLive'
  BY <1>3, <1>5 DEF ChannelIInv, RegistrationIsLive
<1>9. ~overlapped' => OneAtATime'
  <2> SUFFICES ASSUME ~overlapped' PROVE OneAtATime'
    OBVIOUS
  <2>1. OneAtATime /\ ~Configuring
    BY <1>3 DEF ChannelIInv
  <2>2. ~Configuring' /\ At("configuring") = {}
    BY <1>3, <1>5, <2>1 DEF Configuring
  <2>3. \A d \in Asking' : \A t \in Live' : call'[d].task = t
    BY <1>3, <1>5, <2>1 DEF OneAtATime, Asking
  <2>4. halted' => Live' = {}
    BY <1>3, <1>5, <2>1, Bounds DEF OneAtATime, Live
  <2> QED
    BY <1>3, <1>5, <2>1, <2>2, <2>3, <2>4 DEF OneAtATime
<1> QED
  BY <1>4, <1>6, <1>7, <1>8, <1>9 DEF ChannelIInv

LEMMA FinishStartStep ==
  ASSUME ChannelIInv, NEW c \in Calls, FinishStart(c)
  PROVE  ChannelIInv'
<1>1. ChannelTypes
  BY DEF ChannelIInv
<1>2. /\ call[c].stage = "configuring" /\ call' = [call EXCEPT ![c].stage = "over"]
      /\ UNCHANGED << hook, aborted, exits, overlapped, halted >>
      /\ c \in Unfinished /\ c \in At("configuring") /\ Configuring
  BY DEF FinishStart, At, Unfinished, Configuring
<1>3. /\ \A d \in Calls : d # c => call'[d] = call[d]
      /\ call'[c].stage = "over"
      /\ call' \in [Calls -> [ kind : Kinds, task : Tasks \cup {0},
                               stage : {"new", "hook", "waiting", "stopped", "configuring", "over"} ]]
  BY <1>1, <1>2, CallMoves
<1>4. NextTask \in Tasks /\ task[NextTask] = "none"
  BY <1>1, <1>2, NextTaskIsNew DEF ChannelIInv
<1>5. /\ Unfinished' \subseteq Unfinished \ {c} /\ Asking' = Asking
      /\ At("configuring")' = At("configuring") \ {c}
      /\ At("hook")' = At("hook") /\ At("waiting")' = At("waiting")
      /\ \A d \in At("stopped")' : d \in At("stopped") /\ d # c
  BY <1>2, <1>3 DEF Unfinished, Asking, At
<1>6. Stopping' => Stopping
  BY <1>3, <1>5 DEF Stopping
<1>7. ~overlapped => /\ Live = {} /\ ~Stopping /\ Restarting = {} /\ At("configuring")' = {}
                     /\ ~halted
  BY <1>2, <1>5 DEF ChannelIInv, OneAtATime
<1>8. CASE Launch(task) /\ manual' = FALSE /\ attempts' = 0
  <2>1. /\ \A u \in Tasks : task'[u] = IF u = NextTask THEN "up" ELSE task[u]
        /\ registered' = NextTask /\ running' = TRUE
    BY <1>1, <1>4, <1>8 DEF ChannelTypes, Launch
  <2>2. ChannelTypes'
    BY <1>1, <1>2, <1>3, <1>4, <1>8, <2>1 DEF ChannelTypes, Launch
  <2>3. /\ Used' \subseteq Used \cup {NextTask} /\ Ended \subseteq Ended'
        /\ Live' = Live \cup {NextTask} /\ Returning' \subseteq Returning /\ Restarting' = Restarting
    BY <1>2, <1>4, <2>1 DEF Used, Ended, Live, Restarting, Returning
  <2>4. RoomForTasks'
    <3>1. RoomForTasks /\ exits' \in Nat /\ exits' = exits
      BY <1>1, <1>2, Bounds DEF ChannelIInv, ChannelTypes
    <3>2. \E d \in Unfinished :
            /\ Used' \subseteq Used \cup {NextTask} /\ Unfinished' \subseteq Unfinished \ {d}
            /\ Returning' \subseteq Returning /\ exits' = exits
      BY <1>2, <1>5, <2>3, <3>1
    <3> QED
      BY <1>1, <3>1, <3>2, RoomKept
  <2>5. AttemptsAreEnds'
    BY <1>1, <1>8, <2>3, AttemptsKept DEF ChannelIInv, ChannelTypes
  <2>6. RegistrationIsLive'
    BY <1>4, <2>1, <2>3 DEF RegistrationIsLive
  <2>7. ~overlapped' => OneAtATime'
    <3> SUFFICES ASSUME ~overlapped PROVE OneAtATime'
      BY <1>2
    <3>1. Live' = {NextTask} /\ Restarting' = {} /\ At("configuring")' = {} /\ Asking' = {}
      BY <1>5, <1>7, <2>3 DEF Stopping, Asking, At
    <3>2. ~Configuring'
      BY <3>1 DEF Configuring, Restarting
    <3>3. ~(attempts' > MaxRestartAttempts)
      BY <1>8, Bounds
    <3> QED
      BY <1>2, <1>7, <2>1, <3>1, <3>2, <3>3 DEF OneAtATime
  <2> QED
    BY <2>2, <2>4, <2>5, <2>6, <2>7 DEF ChannelIInv
<1>9. CASE NoLaunch(task) /\ UNCHANGED << manual, attempts >>
  <2>1. UNCHANGED << task, registered, manual, attempts >> /\ running' \in BOOLEAN
    BY <1>1, <1>9 DEF ChannelTypes, NoLaunch
  <2>2. ChannelTypes'
    BY <1>1, <1>2, <1>3, <2>1 DEF ChannelTypes
  <2>3. /\ Used' = Used /\ Ended' = Ended /\ Live' = Live
        /\ Returning' = Returning /\ Restarting' = Restarting
    BY <1>2, <2>1 DEF Used, Ended, Live, Restarting, Returning
  <2>4. RoomForTasks'
    BY <1>1, <1>2, <1>5, <2>3, Bounds, RoomKept DEF ChannelIInv, ChannelTypes
  <2>5. AttemptsAreEnds'
    BY <2>1, <2>3 DEF ChannelIInv, AttemptsAreEnds
  <2>6. RegistrationIsLive'
    BY <2>1, <2>3 DEF ChannelIInv, RegistrationIsLive
  <2>7. ~overlapped' => OneAtATime'
    <3> SUFFICES ASSUME ~overlapped PROVE OneAtATime'
      BY <1>2
    <3>1. Live' = {} /\ Restarting' = {} /\ At("configuring")' = {} /\ OneAtATime
      BY <1>7, <2>3 DEF ChannelIInv
    <3>2. ~Configuring'
      BY <3>1 DEF Configuring, Restarting
    <3> QED
      BY <1>2, <1>7, <2>1, <3>1, <3>2 DEF OneAtATime
  <2> QED
    BY <2>2, <2>4, <2>5, <2>6, <2>7 DEF ChannelIInv
<1> QED
  BY <1>8, <1>9 DEF FinishStart

\* A stop or a logout that moves on, or is over, while the account stays as it is.
LEMMA StopMoves ==
  ASSUME ChannelIInv, NEW c \in Calls, NEW s \in {"waiting", "over"},
         call[c].stage \in {"hook", "stopped"}, s = "waiting" => call[c].stage = "hook",
         call' = [call EXCEPT ![c].stage = s], running' \in BOOLEAN,
         UNCHANGED << hook, task, aborted, registered, manual, attempts, exits, overlapped, halted >>
  PROVE  ChannelIInv'
<1>1. ChannelTypes
  BY DEF ChannelIInv
<1>2. /\ \A d \in Calls : d # c => call'[d] = call[d]
      /\ call'[c].stage = s /\ call'[c].task = call[c].task
      /\ call' \in [Calls -> [ kind : Kinds, task : Tasks \cup {0},
                               stage : {"new", "hook", "waiting", "stopped", "configuring", "over"} ]]
  BY <1>1, CallMoves
<1>3. ChannelTypes'
  BY <1>1, <1>2 DEF ChannelTypes
<1>4. /\ Used' = Used /\ Ended' = Ended /\ Live' = Live /\ Returning' = Returning
      /\ Restarting' = Restarting /\ Unfinished' \subseteq Unfinished /\ Asking' \subseteq Asking
      /\ At("configuring")' = At("configuring")
      /\ \A d \in Asking' : call'[d].task = call[d].task
      /\ \A d \in At("hook")' \cup At("waiting")' : d \in At("hook") \cup At("waiting")
      /\ \A d \in At("stopped")' : d \in At("stopped") /\ d # c
  BY <1>2 DEF Used, Ended, Live, Restarting, Returning, Unfinished, Asking, At
<1>5. (Stopping' => Stopping) /\ Configuring' = Configuring
  BY <1>2, <1>4 DEF Stopping, Configuring
<1>6. RoomForTasks'
  BY <1>1, <1>4, Bounds, RoomKept DEF ChannelIInv, ChannelTypes
<1>7. AttemptsAreEnds' /\ RegistrationIsLive'
  BY <1>4 DEF ChannelIInv, AttemptsAreEnds, RegistrationIsLive
<1>8. ~overlapped' => OneAtATime'
  BY <1>4, <1>5 DEF ChannelIInv, OneAtATime
<1> QED
  BY <1>3, <1>6, <1>7, <1>8 DEF ChannelIInv

LEMMA FinishStopStep ==
  ASSUME ChannelIInv, NEW c \in Calls, FinishStop(c)
  PROVE  ChannelIInv'
<1> DEFINE s == AfterStop(call[c].kind)
<1>1. ChannelTypes
  BY DEF ChannelIInv
<1>2. /\ call[c].stage = "waiting" /\ call' = [call EXCEPT ![c].stage = s] /\ s \in {"over", "stopped"}
      /\ call[c].task # 0 => task[call[c].task] = "gone"
      /\ registered' = 0 /\ running' = FALSE /\ halted' \in BOOLEAN
      /\ UNCHANGED << hook, task, aborted, manual, attempts, exits, overlapped >>
  BY <1>1 DEF FinishStop, At, AfterStop, ChannelTypes
<1>3. /\ \A d \in Calls : d # c => call'[d] = call[d]
      /\ call'[c].stage = s
      /\ call' \in [Calls -> [ kind : Kinds, task : Tasks \cup {0},
                               stage : {"new", "hook", "waiting", "stopped", "configuring", "over"} ]]
  BY <1>1, <1>2, CallMoves
<1>4. ChannelTypes'
  BY <1>1, <1>2, <1>3 DEF ChannelTypes
<1>5. /\ Used' = Used /\ Ended' = Ended /\ Live' = Live /\ Returning' = Returning
      /\ Restarting' = Restarting /\ Unfinished' \subseteq Unfinished
      /\ At("configuring")' = At("configuring") /\ c \in Asking
  BY <1>2, <1>3 DEF Used, Ended, Live, Restarting, Returning, Unfinished, Asking, At
<1>6. Stopping
  BY <1>2 DEF Stopping, At
<1>7. RoomForTasks'
  BY <1>1, <1>2, <1>5, Bounds, RoomKept DEF ChannelIInv, ChannelTypes
<1>8. AttemptsAreEnds' /\ RegistrationIsLive'
  BY <1>2, <1>5 DEF ChannelIInv, AttemptsAreEnds, RegistrationIsLive
<1>9. ~overlapped' => OneAtATime'
  <2> SUFFICES ASSUME ~overlapped PROVE OneAtATime'
    BY <1>2
  <2>1. OneAtATime /\ ~Configuring
    BY <1>6 DEF ChannelIInv, OneAtATime
  <2>2. Live = {}
    BY <1>2, <1>5, <2>1, Bounds DEF OneAtATime, Live
  <2>3. ~Configuring'
    BY <1>2, <1>5, <2>1 DEF Configuring
  <2> QED
    BY <1>2, <1>5, <2>1, <2>2, <2>3 DEF OneAtATime
<1> QED
  BY <1>4, <1>7, <1>8, <1>9 DEF ChannelIInv

-----------------------------------------------------------------------------
(* The invariant, and what it gives.                                       *)

LEMMA InitIInv == ChannelInit => ChannelIInv
<1> SUFFICES ASSUME ChannelInit PROVE ChannelIInv
  OBVIOUS
<1>1. ChannelTypes
  <2>1. hook \in BOOLEAN /\ exits \in 0 .. MaxExits
    BY Bounds, ChannelConstants DEF ChannelInit
  <2>2. call \in [Calls -> [ kind : Kinds, task : Tasks \cup {0},
                            stage : {"new", "hook", "waiting", "stopped", "configuring", "over"} ]]
    BY DEF ChannelInit, Kinds
  <2> QED
    BY <2>1, <2>2 DEF ChannelInit, ChannelTypes
<1>2. /\ Used = {} /\ Returning = {} /\ Ended = {} /\ Live = {} /\ Unfinished \subseteq Calls
      /\ At("configuring") = {} /\ Restarting = {} /\ Asking = {} /\ ~Configuring
  BY DEF ChannelInit, Used, Returning, Ended, Live, Unfinished, At, Restarting, Asking, Configuring
<1>3. Cardinality(Unfinished) <= NumCalls
  BY <1>2, Bounds, Sizes
<1>4. RoomForTasks
  BY <1>2, <1>3, FS_EmptySet, Finite, Bounds DEF RoomForTasks, ChannelInit
<1>5. AttemptsAreEnds /\ RegistrationIsLive
  BY <1>2, FS_EmptySet DEF AttemptsAreEnds, RegistrationIsLive, ChannelInit
<1>6. OneAtATime
  BY <1>2, Bounds DEF OneAtATime, ChannelInit
<1> QED
  BY <1>1, <1>4, <1>5, <1>6 DEF ChannelIInv

LEMMA NextIInv == ChannelIInv /\ [ChannelNext]_channelVars => ChannelIInv'
<1> SUFFICES ASSUME ChannelIInv, [ChannelNext]_channelVars PROVE ChannelIInv'
  OBVIOUS
<1>1. ASSUME NEW t \in Tasks, Chain(t) PROVE ChannelIInv'
  BY <1>1, ExitStep, GiveUpStep, BackoffStep, WakeStep, RestartStep DEF Chain
<1>2. ASSUME NEW c \in Calls, HookReturns(c) \/ HookThrows(c) \/ MarkLoggedOut(c) PROVE ChannelIInv'
  <2>1. running' \in BOOLEAN
    BY <1>2 DEF HookReturns, HookThrows, MarkLoggedOut, account, ChannelIInv, ChannelTypes
  <2> QED
    BY <1>2, <2>1, StopMoves DEF HookReturns, HookThrows, MarkLoggedOut, account, At
<1>3. ASSUME NEW c \in Calls, StartAgain(c) PROVE ChannelIInv'
  BY <1>3, BeginStartStep DEF StartAgain, At, Kinds
<1>4. ASSUME NEW c \in Calls, StartCall(c) \/ MonitorCall(c) PROVE ChannelIInv'
  BY <1>4, BeginStartStep, BeginStopStep DEF StartCall, MonitorCall, Fresh, At, Kinds
<1>5. ASSUME NEW c \in Calls, NEW kind \in Kinds, StopCall(c, kind) PROVE ChannelIInv'
  BY <1>5, BeginStopStep DEF StopCall, Fresh, At
<1>6. CASE UNCHANGED channelVars
  BY <1>6 DEF channelVars, account, ChannelIInv, ChannelTypes, RoomForTasks, AttemptsAreEnds, RegistrationIsLive, OneAtATime,
     Used, Unfinished, Returning, Ended, Live, Restarting, Asking, Configuring, Stopping, At
<1> QED
  BY <1>1, <1>2, <1>3, <1>4, <1>5, <1>6, FinishStartStep, FinishStopStep DEF ChannelNext, GoOn

THEOREM Invariance == ChannelSpec => []ChannelIInv
BY InitIInv, NextIInv, PTL DEF ChannelSpec

\* Every variable keeps its type, and the restart attempts stay within
\* MAX_RESTART_ATTEMPTS + 1 while calls do not overlap.
THEOREM ChannelTypeCorrect == ChannelSpec => []ChannelTypeOK
<1>1. ChannelIInv => ChannelTypeOK
  <2> SUFFICES ASSUME ChannelIInv PROVE ChannelTypeOK
    OBVIOUS
  <2>1. ChannelTypes /\ AttemptsAreEnds /\ (~overlapped => OneAtATime)
    BY DEF ChannelIInv
  <2>2. attempts <= NumCalls + MaxExits /\ attempts \in Nat
    BY <2>1, Finite, Bounds DEF ChannelTypes, AttemptsAreEnds
  <2>3. ~overlapped => attempts <= MaxRestartAttempts + 1
    BY <2>1, <2>2, Bounds DEF OneAtATime
  <2>4. attempts \in 0 .. IF overlapped THEN NumCalls + MaxExits ELSE MaxRestartAttempts + 1
    BY <2>2, <2>3, Bounds
  <2> QED
    BY <2>1, <2>4 DEF ChannelTypeOK, ChannelTypes
<1> QED
  BY <1>1, Invariance, PTL

\* However many calls, exits and restarts there are: while calls do not overlap, every
\* task that is running or about to be restarted is the one store.tasks names.
THEOREM TasksCanBeReached == ChannelSpec => []EveryTaskIsRegistered
<1>1. ChannelIInv => EveryTaskIsRegistered
  BY DEF ChannelIInv, OneAtATime, EveryTaskIsRegistered
<1> QED
  BY <1>1, Invariance, PTL

\* Whatever the calls do, overlapping or not, no dead task stays in store.tasks.
THEOREM NoDeadEntry == ChannelSpec => []RegistrationIsLive
<1>1. ChannelIInv => RegistrationIsLive
  BY DEF ChannelIInv
<1> QED
  BY <1>1, Invariance, PTL

\* A stop or a logout that is over has left no task running.
THEOREM StopHolds == ChannelSpec => []StopIsFinal
<1>1. ChannelIInv => StopIsFinal
  BY DEF ChannelIInv, OneAtATime, StopIsFinal, Live, Up
<1> QED
  BY <1>1, Invariance, PTL

\* A chain starts no task of an account that a stop or logout has ended, unless calls
\* overlapped before.  (Without the last condition it is NoRestartAfterStop, which the code
\* does not keep: the stop that a restart escapes came while the restart was being
\* configured, and nothing else can go wrong.)
OnlyAnOverlapRestarts == [][Up' \ Up # {} /\ call' = call => ~halted \/ overlapped]_channelVars

THEOREM RestartsOnlyThroughOverlap == ChannelSpec => OnlyAnOverlapRestarts
<1>1. ChannelIInv /\ [ChannelNext]_channelVars => [Up' \ Up # {} /\ call' = call => ~halted \/ overlapped]_channelVars
  <2> SUFFICES ASSUME ChannelIInv, ChannelNext, Up' \ Up # {}, call' = call, ~overlapped PROVE ~halted
    BY DEF channelVars
  <2>1. PICK u \in Tasks : u \in Up' /\ u \notin Up
    BY DEF Up
  <2>2. ASSUME NEW t \in Tasks, Chain(t) PROVE ~halted
    <3>1. task'[u] = "up" /\ task[u] # "up"
      BY <2>1 DEF Up
    <3>2. TaskExit(t) \/ GiveUp(t) \/ Backoff(t) \/ Wake(t) => task'[u] # "up"
      BY <3>1 DEF TaskExit, GiveUp, Backoff, Wake, ChannelIInv, ChannelTypes
    <3>3. Restart(t)
      BY <2>2, <3>1, <3>2 DEF Chain
    <3>4. Configuring
      BY <3>3 DEF Restart, Configuring
    <3> QED
      BY <3>4 DEF ChannelIInv, OneAtATime
  <2>3. ASSUME NEW c \in Calls, GoOn(c) \/ StartCall(c) \/ MonitorCall(c) \/ \E kind \in Kinds : StopCall(c, kind)
        PROVE  ~halted
    <3>1. ChannelTypes
      BY DEF ChannelIInv
    <3>2. ~(task' = task)
      BY <2>1 DEF Up
    <3>3. FinishStart(c)
      BY <2>3, <3>2 DEF GoOn, StartCall, MonitorCall, StopCall, HookReturns, HookThrows, FinishStop, StartAgain,
         MarkLoggedOut, BeginStart, BeginStop, account
    <3>4. Configuring
      BY <3>3 DEF FinishStart, Configuring
    <3> QED
      BY <3>4 DEF ChannelIInv, OneAtATime
  <2> QED
    BY <2>2, <2>3 DEF ChannelNext
<1> QED
  BY <1>1, Invariance, PTL DEF ChannelSpec, OnlyAnOverlapRestarts

\* A stop waits for nothing that somebody else must end: the task it found has been told
\* to stop, and its chain is on the way to its end, with no start of the account before
\* it (a chain that is configuring one has given its entries up, and no stop finds it).
\* Whatever calls overlap.  It is the safety half of CallsReturn: what is left to
\* fairness is that a plugin settles once its signal has fired.
StopsEndTheirTask ==
  \A c \in Asking : LET t == call[c].task IN
    t # 0 => t \in aborted /\ task[t] \in {"up", "down", "sleeping", "gone"}

\* No step brings a task that is told to stop off the way to its end.
LEMMA ToldToStop ==
  ASSUME ChannelIInv, [ChannelNext]_channelVars, NEW t \in Tasks,
         t \in aborted, task[t] \in {"up", "down", "sleeping", "gone"}
  PROVE  t \in aborted' /\ task'[t] \in {"up", "down", "sleeping", "gone"}
<1>1. ChannelTypes /\ RoomForTasks
  BY DEF ChannelIInv
<1>2. t \in aborted'
  BY DEF ChannelNext, Chain, GoOn, TaskExit, GiveUp, Backoff, Wake, Restart, FinishStart, HookReturns, HookThrows,
     FinishStop, StartAgain, MarkLoggedOut, StartCall, MonitorCall, StopCall, BeginStart, BeginStop, channelVars, account
<1>3. ASSUME NEW u \in Tasks, TaskExit(u) \/ GiveUp(u) \/ Backoff(u) \/ Wake(u)
      PROVE  task'[t] \in {"up", "down", "sleeping", "gone"}
  <2>1. CASE u = t
    BY <1>1, <1>3, <2>1 DEF TaskExit, GiveUp, Backoff, Wake, ChannelTypes
  <2>2. CASE u # t
    BY <1>1, <1>3, <2>2 DEF TaskExit, GiveUp, Backoff, Wake, ChannelTypes
  <2> QED
    BY <2>1, <2>2
<1>4. ASSUME NEW u \in Tasks, Restart(u)
      PROVE  task'[t] \in {"up", "down", "sleeping", "gone"}
  <2>1. u \in Returning /\ t # u
    BY <1>4 DEF Restart, Returning
  <2>2. NextTask \in Tasks /\ task[NextTask] = "none"
    BY <1>1, <2>1, NextTaskIsNew
  <2> QED
    BY <1>1, <1>4, <2>1, <2>2 DEF Restart, Launch, NoLaunch, ChannelTypes
<1>5. ASSUME NEW c \in Calls, FinishStart(c)
      PROVE  task'[t] \in {"up", "down", "sleeping", "gone"}
  <2>1. c \in Unfinished
    BY <1>5 DEF FinishStart, At, Unfinished
  <2>2. NextTask \in Tasks /\ task[NextTask] = "none"
    BY <1>1, <2>1, NextTaskIsNew
  <2> QED
    BY <1>1, <1>5, <2>2 DEF FinishStart, Launch, NoLaunch, ChannelTypes
<1>6. ASSUME NEW c \in Calls, \/ HookReturns(c) \/ HookThrows(c) \/ FinishStop(c) \/ StartAgain(c) \/ MarkLoggedOut(c)
                              \/ StartCall(c) \/ MonitorCall(c) \/ \E kind \in Kinds : StopCall(c, kind)
      PROVE  task' = task
  BY <1>6 DEF HookReturns, HookThrows, FinishStop, StartAgain, MarkLoggedOut, StartCall, MonitorCall, StopCall,
     BeginStart, BeginStop, account
<1> QED
  BY <1>2, <1>3, <1>4, <1>5, <1>6 DEF ChannelNext, Chain, GoOn, channelVars, account

\* A call that is stopping was stopping already, for the same task, or has just told the
\* task registered to stop.
LEMMA StopBegins ==
  ASSUME ChannelIInv, [ChannelNext]_channelVars, NEW c \in Asking'
  PROVE  \/ c \in Asking /\ call'[c].task = call[c].task
         \/ call'[c].task = registered /\ (registered # 0 => registered \in aborted' /\ task' = task)
<1>1. ChannelTypes /\ c \in Calls /\ call'[c].stage \in {"hook", "waiting"}
  BY DEF ChannelIInv, Asking
<1>2. ASSUME NEW d \in Calls, NEW kind \in Kinds, BeginStop(d, kind)
      PROVE  \/ c \in Asking /\ call'[c].task = call[c].task
             \/ call'[c].task = registered /\ (registered # 0 => registered \in aborted' /\ task' = task)
  BY <1>1, <1>2 DEF BeginStop, AfterStop, Asking, ChannelTypes
<1>3. ASSUME NEW d \in Calls, NEW kind \in Kinds, BeginStart(d, kind)
      PROVE  c \in Asking /\ call'[c].task = call[c].task
  BY <1>1, <1>3 DEF BeginStart, Asking, ChannelTypes
<1>4. ASSUME NEW d \in Calls, FinishStart(d) \/ HookReturns(d) \/ HookThrows(d) \/ FinishStop(d) \/ MarkLoggedOut(d)
      PROVE  c \in Asking /\ call'[c].task = call[c].task
  <2>1. ASSUME NEW s, call' = [call EXCEPT ![d].stage = s], d \in Asking \/ s \notin {"hook", "waiting"}
        PROVE  c \in Asking /\ call'[c].task = call[c].task
    <3>1. c # d => call'[c] = call[c]
      BY <1>1, <2>1, CallMoves
    <3>2. call'[d].stage = s /\ call'[d].task = call[d].task
      BY <1>1, <2>1, CallMoves
    <3> QED
      BY <1>1, <2>1, <3>1, <3>2 DEF Asking
  <2>2. CASE FinishStart(d) \/ HookThrows(d) \/ MarkLoggedOut(d)
    <3>1. call' = [call EXCEPT ![d].stage = "over"]
      BY <2>2 DEF FinishStart, HookThrows, MarkLoggedOut
    <3>2. "over" \notin {"hook", "waiting"}
      OBVIOUS
    <3> QED
      BY <2>1, <3>1, <3>2
  <2>3. CASE HookReturns(d)
    <3>1. call' = [call EXCEPT ![d].stage = "waiting"] /\ d \in Asking
      BY <2>3 DEF HookReturns, At, Asking
    <3> QED
      BY <2>1, <3>1
  <2>4. CASE FinishStop(d)
    <3>1. call' = [call EXCEPT ![d].stage = AfterStop(call[d].kind)] /\ d \in Asking
      BY <2>4 DEF FinishStop, At, Asking
    <3> QED
      BY <2>1, <3>1
  <2> QED
    BY <1>4, <2>2, <2>3, <2>4
<1>5. ASSUME NEW d \in Calls, StartAgain(d)
      PROVE  c \in Asking /\ call'[c].task = call[c].task
  BY <1>5, <1>3 DEF StartAgain, Kinds
<1>6. ASSUME NEW d \in Calls, StartCall(d) \/ MonitorCall(d) \/ \E kind \in Kinds : StopCall(d, kind)
      PROVE  \/ c \in Asking /\ call'[c].task = call[c].task
             \/ call'[c].task = registered /\ (registered # 0 => registered \in aborted' /\ task' = task)
  BY <1>6, <1>2, <1>3 DEF StartCall, MonitorCall, StopCall, Kinds
<1>7. ASSUME call' = call PROVE c \in Asking /\ call'[c].task = call[c].task
  BY <1>1, <1>7 DEF Asking
<1>8. ASSUME NEW t \in Tasks, Chain(t) PROVE call' = call
  BY <1>8 DEF Chain, TaskExit, GiveUp, Backoff, Wake, Restart
<1> QED
  BY <1>4, <1>5, <1>6, <1>7, <1>8 DEF ChannelNext, GoOn, channelVars

THEOREM StopsAreAnswered == ChannelSpec => []StopsEndTheirTask
<1>1. ChannelInit => StopsEndTheirTask
  BY DEF ChannelInit, StopsEndTheirTask, Asking
<1>2. ChannelIInv /\ StopsEndTheirTask /\ [ChannelNext]_channelVars => StopsEndTheirTask'
  <2> SUFFICES ASSUME ChannelIInv, StopsEndTheirTask, [ChannelNext]_channelVars,
                      NEW c \in Asking', call'[c].task # 0
               PROVE  /\ call'[c].task \in aborted'
                      /\ task'[call'[c].task] \in {"up", "down", "sleeping", "gone"}
    BY DEF StopsEndTheirTask
  <2>1. CASE c \in Asking /\ call'[c].task = call[c].task
    <3>1. call[c].task \in Tasks
      BY <2>1 DEF Asking, ChannelIInv, ChannelTypes
    <3> QED
      BY <2>1, <3>1, ToldToStop DEF StopsEndTheirTask
  <2>2. CASE call'[c].task = registered /\ (registered # 0 => registered \in aborted' /\ task' = task)
    BY <2>2 DEF ChannelIInv, RegistrationIsLive, Live
  <2> QED
    BY <2>1, <2>2, StopBegins
<1> QED
  BY <1>1, <1>2, Invariance, PTL DEF ChannelSpec

-----------------------------------------------------------------------------
(***************************************************************************)
(* Proofs about RestartCoordination for any number of requests and any     *)
(* amount of work.  A restart begins only for a request not served yet:    *)
(* the invariant says that a timer or a poll that is still there when no   *)
(* request waits, or when a restart is under way, is one that no emission  *)
(* clears.                                                                 *)
(***************************************************************************)

AllPolls == polls["timer"] + polls["watcher"] + polls["former"]

\* Every timer and every poll stands for a request of its own.
PollsAreRequested == AllPolls <= requests /\ (timer => AllPolls + 1 <= requests)

\* What waits on is for a request that waits, or is left over.
ArmedForARequest ==
  (timer \/ Polling(polls)) /\ (~outstanding \/ shuttingDown # "no") => leftover

\* RestartTypeOK without the counters.
Flags ==
  /\ timer \in BOOLEAN /\ restartPending \in BOOLEAN
  /\ loop \in {"starting", "serving", "failed", "exited"}
  /\ shuttingDown \in {"no", "draining", "closing"}
  /\ outstanding \in BOOLEAN /\ leftover \in BOOLEAN /\ swallowed \in BOOLEAN

Counters ==
  /\ work \in 0 .. MaxWork /\ requests \in 0 .. MaxRequests
  /\ polls \in [Paths -> Nat]
  /\ PollsAreRequested

RestartIInv == Flags /\ Counters /\ ArmedForARequest

-----------------------------------------------------------------------------
\* The bounds are natural numbers.
LEMMA ConstantsNat == MaxRequests \in Nat /\ MaxWork \in Nat
BY RestartConstants

\* One more poll, for a path, is one more in the sum.
LEMMA OneMorePoll ==
  ASSUME NEW ps \in [Paths -> Nat], NEW path \in Paths
  PROVE  LET more == [ps EXCEPT ![path] = @ + 1]
         IN  /\ more \in [Paths -> Nat]
             /\ more["timer"] + more["watcher"] + more["former"]
                  = ps["timer"] + ps["watcher"] + ps["former"] + 1
BY DEF Paths

\* One poll less is one less.
LEMMA OneLessPoll ==
  ASSUME NEW ps \in [Paths -> Nat], NEW path \in Paths, ps[path] > 0,
         NEW less, less = [ps EXCEPT ![path] = @ - 1]
  PROVE  /\ less \in [Paths -> Nat]
         /\ less["timer"] + less["watcher"] + less["former"]
              = ps["timer"] + ps["watcher"] + ps["former"] - 1
         /\ \A p \in Paths : less[p] > 0 => ps[p] > 0
BY DEF Paths

\* The initial state satisfies the invariant.
LEMMA RestartInitInv == RestartInit => RestartIInv
<1> SUFFICES ASSUME RestartInit PROVE RestartIInv
  OBVIOUS
<1>1. Flags
  BY DEF RestartInit, Flags
<1>2. Counters
  BY ConstantsNat DEF RestartInit, Counters, PollsAreRequested, AllPolls, Paths
<1>3. ArmedForARequest
  BY DEF RestartInit, ArmedForARequest, Polling
<1> QED
  BY <1>1, <1>2, <1>3 DEF RestartIInv

-----------------------------------------------------------------------------
(* The steps.                                                              *)

\* What a signal does to the flags, given whether something will be left over.
LEMMA SignalFlags ==
  ASSUME Flags, NEW armed \in BOOLEAN, Signal(armed)
  PROVE  /\ shuttingDown' \in {"draining", "closing"} /\ leftover' \in BOOLEAN
         /\ leftover => leftover'
         /\ shuttingDown = "no" /\ armed => leftover'
<1>1. shuttingDown' = IF shuttingDown = "no" THEN "draining" ELSE shuttingDown
  BY DEF Signal
<1>2. leftover' = (leftover \/ (shuttingDown = "no" /\ armed))
  BY DEF Signal
<1> QED
  BY <1>1, <1>2 DEF Flags

\* Work comes and goes.
LEMMA WorkInv == RestartIInv /\ (Begin \/ End) => RestartIInv'
<1> SUFFICES ASSUME RestartIInv, Begin \/ End PROVE RestartIInv'
  OBVIOUS
<1>1. UNCHANGED << timer, polls, restartPending, loop, shuttingDown, requests, outstanding, leftover, swallowed >>
  BY DEF Begin, End, deferral
<1>2. work' \in 0 .. MaxWork
  BY ConstantsNat DEF Begin, End, RestartIInv, Counters
<1>3. Flags'
  BY <1>1 DEF RestartIInv, Flags
<1>4. Counters'
  BY <1>1, <1>2 DEF RestartIInv, Counters, PollsAreRequested, AllPolls
<1>5. ArmedForARequest'
  BY <1>1 DEF RestartIInv, ArmedForARequest, Polling
<1> QED
  BY <1>3, <1>4, <1>5 DEF RestartIInv

\* A scheduled restart sets the timer.
LEMMA ScheduleInv == RestartIInv /\ Schedule => RestartIInv'
<1> SUFFICES ASSUME RestartIInv, Schedule PROVE RestartIInv'
  OBVIOUS
<1>1. UNCHANGED << work, polls, restartPending, loop, shuttingDown, swallowed >> /\ timer' = TRUE
      /\ outstanding' = TRUE /\ requests' = requests + 1 /\ requests < MaxRequests
  BY DEF Schedule, Request
<1>2. leftover' \in BOOLEAN /\ (leftover => leftover') /\ (shuttingDown # "no" => leftover')
  BY DEF Schedule
<1>3. Flags'
  BY <1>1, <1>2 DEF RestartIInv, Flags
<1>4. Counters'
  BY <1>1, ConstantsNat DEF RestartIInv, Counters, PollsAreRequested, AllPolls, Paths
<1>5. ArmedForARequest'
  BY <1>1, <1>2 DEF ArmedForARequest
<1> QED
  BY <1>3, <1>4, <1>5 DEF RestartIInv

\* The timer fires: what is emitted or polled for is the request it stood for.
LEMMA TimerFiresInv == RestartIInv /\ TimerFires => RestartIInv'
<1> SUFFICES ASSUME RestartIInv, TimerFires PROVE RestartIInv'
  OBVIOUS
<1>1. /\ UNCHANGED << work, restartPending, loop, requests, outstanding, swallowed >>
      /\ timer' = FALSE /\ timer = TRUE
  BY DEF TimerFires, RestartIInv, Flags
<1>2. polls \in [Paths -> Nat] /\ Flags /\ "timer" \in Paths /\ requests \in Nat
  BY ConstantsNat DEF RestartIInv, Counters, Paths
<1>3. CASE work = 0
  <2>1. polls' = polls /\ Signal(Polling(polls))
    BY <1>3 DEF TimerFires, Defer, Emit
  <2>2. /\ shuttingDown' \in {"draining", "closing"} /\ leftover' \in BOOLEAN
        /\ leftover => leftover'
        /\ shuttingDown = "no" /\ Polling(polls) => leftover'
    <3>1. Polling(polls) \in BOOLEAN
      BY DEF Polling
    <3> QED
      BY <1>2, <2>1, <3>1, SignalFlags
  <2>3. Flags'
    BY <1>1, <1>2, <2>2 DEF Flags
  <2>4. Counters'
    BY <1>1, <2>1 DEF RestartIInv, Counters, PollsAreRequested, AllPolls
  <2>5. ArmedForARequest'
    BY <1>1, <2>1, <2>2 DEF RestartIInv, ArmedForARequest, Polling
  <2> QED
    BY <2>3, <2>4, <2>5 DEF RestartIInv
<1>4. CASE work # 0
  <2>1. UNCHANGED shuttingDown /\ polls' = [polls EXCEPT !["timer"] = @ + 1]
    BY <1>4 DEF TimerFires, Defer
  <2>2. leftover' \in BOOLEAN /\ (leftover => leftover') /\ (shuttingDown # "no" => leftover')
    BY <1>4 DEF TimerFires, Defer
  <2>3. Flags'
    BY <1>1, <1>2, <2>1, <2>2 DEF Flags
  <2>4. Counters'
    <3>1. polls' \in [Paths -> Nat] /\ AllPolls' = AllPolls + 1
      BY <1>2, <2>1, OneMorePoll DEF AllPolls
    <3>2. AllPolls + 1 <= requests
      BY <1>1 DEF RestartIInv, Counters, PollsAreRequested
    <3> QED
      BY <1>1, <3>1, <3>2 DEF RestartIInv, Counters, PollsAreRequested
  <2>5. ArmedForARequest'
    <3>1. ~outstanding => leftover
      BY <1>1 DEF RestartIInv, ArmedForARequest
    <3> QED
      BY <1>1, <2>1, <2>2, <3>1 DEF ArmedForARequest
  <2> QED
    BY <2>3, <2>4, <2>5 DEF RestartIInv
<1> QED
  BY <1>3, <1>4

\* The watcher's path: nothing, a restart now, or one poll more.
LEMMA ConfigChangedInv == RestartIInv /\ ConfigChanged => RestartIInv'
<1> SUFFICES ASSUME RestartIInv, ConfigChanged PROVE RestartIInv'
  OBVIOUS
<1>1. UNCHANGED << work, loop, swallowed >> /\ outstanding' = TRUE
      /\ requests' = requests + 1 /\ requests < MaxRequests
  BY DEF ConfigChanged, Request
<1>2. polls \in [Paths -> Nat] /\ Flags /\ "watcher" \in Paths /\ requests \in Nat
      /\ requests' \in 0 .. MaxRequests
  BY <1>1, ConstantsNat DEF RestartIInv, Counters, Paths
<1>3. CASE work > 0 /\ restartPending
  <2>1. UNCHANGED << timer, polls, restartPending, shuttingDown, leftover >>
    BY <1>3 DEF ConfigChanged, deferral
  <2>2. Flags'
    BY <1>1, <1>2, <2>1 DEF Flags
  <2>3. Counters'
    BY <1>1, <1>2, <2>1 DEF RestartIInv, Counters, PollsAreRequested, AllPolls, Paths
  <2>4. ArmedForARequest'
    BY <1>1, <2>1 DEF RestartIInv, ArmedForARequest, Polling
  <2> QED
    BY <2>2, <2>3, <2>4 DEF RestartIInv
<1>4. CASE ~(work > 0 /\ restartPending)
  <2>1. restartPending' \in BOOLEAN /\ Defer("watcher") /\ (work > 0 => UNCHANGED timer)
    BY <1>4 DEF ConfigChanged
  <2>2. CASE work = 0
    <3>1. polls' = polls /\ timer' = FALSE /\ Signal(Polling(polls))
      BY <2>1, <2>2 DEF Defer, Emit
    <3>2. /\ shuttingDown' \in {"draining", "closing"} /\ leftover' \in BOOLEAN
          /\ leftover => leftover'
          /\ shuttingDown = "no" /\ Polling(polls) => leftover'
      <4>1. Polling(polls) \in BOOLEAN
        BY DEF Polling
      <4> QED
        BY <1>2, <3>1, <4>1, SignalFlags
    <3>3. Flags'
      BY <1>1, <1>2, <2>1, <3>1, <3>2 DEF Flags
    <3>4. Counters'
      BY <1>1, <1>2, <3>1 DEF RestartIInv, Counters, PollsAreRequested, AllPolls, Paths
    <3>5. ArmedForARequest'
      BY <1>1, <3>1, <3>2 DEF RestartIInv, ArmedForARequest, Polling
    <3> QED
      BY <3>3, <3>4, <3>5 DEF RestartIInv
  <2>3. CASE work # 0
    <3>1. UNCHANGED << timer, shuttingDown >> /\ polls' = [polls EXCEPT !["watcher"] = @ + 1]
      <4>1. work > 0
        BY <2>3, ConstantsNat DEF RestartIInv, Counters
      <4> QED
        BY <2>1, <2>3, <4>1 DEF Defer
    <3>2. leftover' \in BOOLEAN /\ (leftover => leftover') /\ (shuttingDown # "no" => leftover')
      BY <2>1, <2>3 DEF Defer
    <3>3. Flags'
      BY <1>1, <1>2, <2>1, <3>1, <3>2 DEF Flags
    <3>4. Counters'
      <4>1. polls' \in [Paths -> Nat] /\ AllPolls' = AllPolls + 1 /\ AllPolls \in Nat
        BY <1>2, <3>1, OneMorePoll DEF AllPolls, Paths
      <4> QED
        BY <1>1, <1>2, <3>1, <4>1 DEF RestartIInv, Counters, PollsAreRequested
    <3>5. ArmedForARequest'
      BY <1>1, <3>1, <3>2 DEF ArmedForARequest
    <3> QED
      BY <3>3, <3>4, <3>5 DEF RestartIInv
  <2> QED
    BY <2>2, <2>3
<1> QED
  BY <1>3, <1>4

\* A signal from outside leaves the timer and the polls as they are.
LEMMA ExternalSignalInv == RestartIInv /\ ExternalSignal => RestartIInv'
<1> SUFFICES ASSUME RestartIInv, ExternalSignal PROVE RestartIInv'
  OBVIOUS
<1>1. UNCHANGED << work, timer, polls, restartPending, loop, swallowed >> /\ outstanding' = TRUE
      /\ requests' = requests + 1 /\ requests < MaxRequests
  BY DEF ExternalSignal, Request, deferral
<1>2. /\ shuttingDown' \in {"draining", "closing"} /\ leftover' \in BOOLEAN
      /\ leftover => leftover'
      /\ shuttingDown = "no" /\ (timer \/ Polling(polls)) => leftover'
  <2>1. (timer \/ Polling(polls)) \in BOOLEAN /\ Signal(timer \/ Polling(polls)) /\ Flags
    BY DEF ExternalSignal, RestartIInv
  <2> QED
    BY <2>1, SignalFlags
<1>3. Flags'
  BY <1>1, <1>2 DEF RestartIInv, Flags
<1>4. Counters'
  BY <1>1, ConstantsNat DEF RestartIInv, Counters, PollsAreRequested, AllPolls, Paths
<1>5. ArmedForARequest'
  BY <1>1, <1>2 DEF RestartIInv, ArmedForARequest, Polling
<1> QED
  BY <1>3, <1>4, <1>5 DEF RestartIInv

\* A poll ends in a restart, and the others go on.
LEMMA PollEndsInv == ASSUME NEW path \in Paths PROVE RestartIInv /\ PollEnds(path) => RestartIInv'
<1> SUFFICES ASSUME RestartIInv, PollEnds(path) PROVE RestartIInv'
  OBVIOUS
<1>1. UNCHANGED << work, loop, requests, outstanding, swallowed >> /\ timer' = FALSE
      /\ polls' = [polls EXCEPT ![path] = @ - 1] /\ polls[path] > 0 /\ Signal(Polling(polls'))
      /\ restartPending' \in BOOLEAN
  <2>1. restartPending' = IF path = "watcher" THEN FALSE ELSE restartPending
    BY DEF PollEnds
  <2>2. restartPending' \in BOOLEAN
    BY <2>1 DEF RestartIInv, Flags
  <2> QED
    BY <2>2 DEF PollEnds, Emit
<1>2. polls \in [Paths -> Nat] /\ Flags /\ requests \in Nat
  BY ConstantsNat DEF RestartIInv, Counters
<1>3. /\ polls' \in [Paths -> Nat] /\ AllPolls' = AllPolls - 1
      /\ Polling(polls') => Polling(polls)
  <2>1. /\ polls' \in [Paths -> Nat]
        /\ polls'["timer"] + polls'["watcher"] + polls'["former"]
             = polls["timer"] + polls["watcher"] + polls["former"] - 1
        /\ \A p \in Paths : polls'[p] > 0 => polls[p] > 0
    <3>1. polls' = [polls EXCEPT ![path] = @ - 1] /\ polls[path] > 0
      BY <1>1
    <3> QED
      BY <1>2, <3>1, OneLessPoll
  <2>2. Polling(polls') => Polling(polls)
    BY <2>1 DEF Polling
  <2>3. AllPolls' = AllPolls - 1
    <3>1. \A p \in Paths : polls[p] \in Nat /\ polls'[p] \in Nat
      BY <1>2, <2>1
    <3> QED
      BY <2>1, <3>1 DEF AllPolls, Paths
  <2> QED
    BY <2>1, <2>2, <2>3
<1>4. /\ shuttingDown' \in {"draining", "closing"} /\ leftover' \in BOOLEAN
      /\ leftover => leftover'
      /\ shuttingDown = "no" /\ Polling(polls') => leftover'
  <2>1. Polling(polls') \in BOOLEAN
    BY DEF Polling
  <2> QED
    BY <1>1, <1>2, <2>1, SignalFlags
<1>5. Flags'
  BY <1>1, <1>2, <1>4 DEF Flags
<1>6. Counters'
  <2>1. AllPolls \in Nat
    BY <1>2 DEF AllPolls, Paths
  <2> QED
    BY <1>1, <1>3, <2>1 DEF RestartIInv, Counters, PollsAreRequested
<1>7. ArmedForARequest'
  <2>1. Polling(polls)' = Polling(polls')
    BY DEF Polling
  <2> QED
    BY <1>1, <1>3, <1>4, <2>1 DEF RestartIInv, ArmedForARequest
<1> QED
  BY <1>5, <1>6, <1>7 DEF RestartIInv

\* The loop goes round: the watcher's polls become those of a former server.
LEMMA RestartInProcessInv == RestartIInv /\ RestartInProcess => RestartIInv'
<1> SUFFICES ASSUME RestartIInv, RestartInProcess PROVE RestartIInv'
  OBVIOUS
<1>1. /\ UNCHANGED << work, timer, requests, leftover, swallowed >>
      /\ shuttingDown' = "no" /\ loop' = "starting" /\ outstanding' = FALSE /\ restartPending' = FALSE
      /\ polls' = [polls EXCEPT !["watcher"] = 0, !["former"] = @ + polls["watcher"]]
      /\ shuttingDown = "closing"
  BY DEF RestartInProcess
<1>2. polls \in [Paths -> Nat]
  BY DEF RestartIInv, Counters
<1>3. polls' \in [Paths -> Nat] /\ AllPolls' = AllPolls /\ (Polling(polls)' => Polling(polls))
  BY <1>1, <1>2 DEF AllPolls, Paths, Polling
<1>4. Flags'
  BY <1>1 DEF RestartIInv, Flags
<1>5. Counters'
  BY <1>1, <1>3 DEF RestartIInv, Counters, PollsAreRequested
<1>6. ArmedForARequest'
  BY <1>1, <1>3 DEF RestartIInv, ArmedForARequest
<1> QED
  BY <1>4, <1>5, <1>6 DEF RestartIInv

\* The rest of the loop touches neither timer nor polls.
LEMMA LoopInv == RestartIInv /\ (Drained \/ RestartSwallowed \/ Started \/ Exit) => RestartIInv'
<1> SUFFICES ASSUME RestartIInv, Drained \/ RestartSwallowed \/ Started \/ Exit PROVE RestartIInv'
  OBVIOUS
<1>1. /\ UNCHANGED << work, timer, polls, restartPending, requests, outstanding, leftover >>
      /\ loop' \in {"starting", "serving", "failed", "exited"} /\ swallowed' \in BOOLEAN
      /\ shuttingDown' \in {"no", "draining", "closing"}
      /\ shuttingDown' # "no" => shuttingDown # "no"
  <2>1. CASE Drained
    BY <2>1 DEF Drained, deferral, RestartIInv, Flags
  <2>2. CASE RestartSwallowed
    BY <2>2 DEF RestartSwallowed, deferral, RestartIInv, Flags
  <2>3. CASE Started
    BY <2>3 DEF Started, deferral, RestartIInv, Flags
  <2>4. CASE Exit
    BY <2>4 DEF Exit, deferral, RestartIInv, Flags
  <2> QED
    BY <2>1, <2>2, <2>3, <2>4
<1>2. Flags'
  BY <1>1 DEF RestartIInv, Flags
<1>3. Counters'
  BY <1>1 DEF RestartIInv, Counters, PollsAreRequested, AllPolls
<1>4. ArmedForARequest'
  BY <1>1 DEF RestartIInv, ArmedForARequest, Polling
<1> QED
  BY <1>2, <1>3, <1>4 DEF RestartIInv

\* Every step keeps the invariant.
LEMMA RestartNextInv == RestartIInv /\ [RestartNext]_restartVars => RestartIInv'
<1> SUFFICES ASSUME RestartIInv, [RestartNext]_restartVars PROVE RestartIInv'
  OBVIOUS
<1>1. CASE UNCHANGED restartVars
  <2>1. UNCHANGED << work, timer, polls, restartPending, loop, shuttingDown, requests,
                     outstanding, leftover, swallowed >>
    BY <1>1 DEF restartVars, deferral
  <2>2. Flags'
    BY <2>1 DEF RestartIInv, Flags
  <2>3. Counters'
    BY <2>1 DEF RestartIInv, Counters, PollsAreRequested, AllPolls
  <2>4. ArmedForARequest'
    BY <2>1 DEF RestartIInv, ArmedForARequest, Polling
  <2> QED
    BY <2>2, <2>3, <2>4 DEF RestartIInv
<1>2. CASE Begin \/ End \/ Schedule \/ ConfigChanged \/ ExternalSignal
  BY <1>2, WorkInv, ScheduleInv, ConfigChangedInv, ExternalSignalInv
<1>3. CASE TimerFires \/ \E path \in Paths : PollEnds(path)
  BY <1>3, TimerFiresInv, PollEndsInv
<1>4. CASE Handle \/ Exit
  BY <1>4, RestartInProcessInv, LoopInv DEF Handle
<1> QED
  BY <1>1, <1>2, <1>3, <1>4 DEF RestartNext

\* Every reachable state satisfies the invariant.
LEMMA RestartInvariant == RestartSpec => []RestartIInv
<1>1. RestartInit => RestartIInv
  BY RestartInitInv
<1>2. RestartIInv /\ [RestartNext]_restartVars => RestartIInv'
  BY RestartNextInv
<1> QED
  BY <1>1, <1>2, PTL DEF RestartSpec

-----------------------------------------------------------------------------
\* Every variable keeps its type; no path ever has more polls than requests came.
THEOREM RestartTypeCorrect == RestartSpec => []RestartTypeOK
<1>1. RestartIInv => RestartTypeOK
  <2> SUFFICES ASSUME RestartIInv PROVE RestartTypeOK
    OBVIOUS
  <2>1. polls \in [Paths -> 0 .. MaxRequests]
    <3>1. polls \in [Paths -> Nat] /\ AllPolls <= requests /\ requests \in 0 .. MaxRequests
      BY DEF RestartIInv, Counters, PollsAreRequested
    <3>2. \A path \in Paths : polls[path] \in 0 .. MaxRequests
      BY <3>1, ConstantsNat DEF AllPolls, Paths
    <3> QED
      BY <3>1, <3>2
  <2> QED
    BY <2>1 DEF RestartIInv, Flags, Counters, RestartTypeOK
<1> QED
  BY <1>1, RestartInvariant, PTL

\* A shutdown begins only on a signal.
LEMMA BeginsOnSignal ==
  ASSUME RestartIInv, [RestartNext]_restartVars, shuttingDown = "no", shuttingDown' = "draining"
  PROVE  \/ outstanding' = TRUE
         \/ outstanding' = outstanding /\ (timer \/ Polling(polls))
<1>1. CASE Schedule \/ ConfigChanged \/ ExternalSignal
  BY <1>1 DEF Schedule, ConfigChanged, ExternalSignal, Request
<1>2. CASE TimerFires
  BY <1>2 DEF TimerFires
<1>3. CASE \E path \in Paths : PollEnds(path)
  BY <1>3 DEF PollEnds, Polling
<1>4. CASE Begin \/ End \/ Handle \/ Exit \/ UNCHANGED restartVars
  BY <1>4 DEF Begin, End, Handle, Drained, RestartInProcess, RestartSwallowed, Started, Exit, restartVars
<1> QED
  BY <1>1, <1>2, <1>3, <1>4 DEF RestartNext

\* A restart begins only while a request waits for it, or is one that no emission
\* clears.
THEOREM RestartsAreNeeded == RestartSpec => NoNeedlessRestart
<1>1. RestartIInv /\ [RestartNext]_restartVars
        => [shuttingDown = "no" /\ shuttingDown' = "draining" => outstanding' \/ leftover]_restartVars
  <2> SUFFICES ASSUME RestartIInv, [RestartNext]_restartVars, shuttingDown = "no", shuttingDown' = "draining"
               PROVE  outstanding' \/ leftover
    OBVIOUS
  <2>1. CASE outstanding' = TRUE
    BY <2>1
  <2>2. CASE outstanding' = outstanding /\ (timer \/ Polling(polls))
    BY <2>2 DEF RestartIInv, ArmedForARequest
  <2> QED
    BY <2>1, <2>2, BeginsOnSignal
<1> QED
  BY <1>1, RestartInvariant, PTL DEF RestartSpec, NoNeedlessRestart

\* What carries a request that waits: a timer, a poll or a restart under way.  Only a
\* restart that was swallowed, or the end of the process, leaves it with nothing.
Carried ==
  outstanding => timer \/ Polling(polls) \/ shuttingDown # "no" \/ loop = "exited" \/ swallowed

\* The watcher's flag, for which the next change of the configuration arms nothing,
\* is set only while a poll of the watcher's goes on.
FlagHasPoll == restartPending => polls["watcher"] > 0

\* An emission leaves a restart under way, and no timer.
LEMMA EmissionShutsDown ==
  ASSUME NEW armed \in BOOLEAN, Flags, Signal(armed)
  PROVE  shuttingDown' # "no"
BY DEF Signal

\* A request waits with nothing that carries it in no step, of the requests, the timer,
\* the polls and the loop.
LEMMA CarriedStep ==
  ASSUME RestartIInv, Carried, FlagHasPoll, [RestartNext]_restartVars
  PROVE  Carried' /\ FlagHasPoll'
<1>1. Flags /\ polls \in [Paths -> Nat] /\ Polling(polls) \in BOOLEAN
  BY DEF RestartIInv, Counters, Polling
<1>2. CASE Begin \/ End \/ Drained \/ Started \/ UNCHANGED restartVars
  <2>1. UNCHANGED << timer, polls, restartPending, outstanding, swallowed >>
    BY <1>2 DEF Begin, End, Drained, Started, restartVars, deferral
  <2>2. (shuttingDown # "no" => shuttingDown' # "no") /\ (loop = "exited" => loop' = "exited")
    BY <1>2 DEF Begin, End, Drained, Started, restartVars
  <2> QED
    BY <2>1, <2>2 DEF Carried, FlagHasPoll, Polling
<1>3. CASE Schedule
  BY <1>3 DEF Schedule, Carried, FlagHasPoll
<1>4. CASE TimerFires
  <2>1. UNCHANGED << restartPending, loop, outstanding, swallowed >>
    BY <1>4 DEF TimerFires
  <2>2. CASE work = 0
    <3>1. polls' = polls /\ Signal(Polling(polls))
      BY <1>4, <2>2 DEF TimerFires, Defer, Emit
    <3>2. shuttingDown' # "no"
      BY <1>1, <3>1, EmissionShutsDown
    <3> QED
      BY <2>1, <3>1, <3>2 DEF Carried, FlagHasPoll
  <2>3. CASE work # 0
    <3>1. polls' = [polls EXCEPT !["timer"] = @ + 1]
      BY <1>4, <2>3 DEF TimerFires, Defer
    <3>2. polls'["timer"] > 0 /\ polls'["watcher"] = polls["watcher"]
      BY <1>1, <3>1 DEF Paths
    <3> QED
      BY <2>1, <3>2 DEF Carried, FlagHasPoll, Polling, Paths
  <2> QED
    BY <2>2, <2>3
<1>5. CASE ConfigChanged
  <2>1. CASE work > 0 /\ restartPending
    <3>1. UNCHANGED << polls, restartPending >>
      BY <1>5, <2>1 DEF ConfigChanged, deferral
    <3>2. polls["watcher"] > 0
      BY <2>1 DEF FlagHasPoll
    <3> QED
      BY <3>1, <3>2 DEF Carried, FlagHasPoll, Polling, Paths
  <2>2. CASE ~(work > 0 /\ restartPending)
    <3>1. restartPending' = (restartPending \/ work > 0) /\ Defer("watcher")
      BY <1>5, <2>2 DEF ConfigChanged
    <3>2. CASE work = 0
      <4>1. polls' = polls /\ Signal(Polling(polls))
        BY <3>1, <3>2 DEF Defer, Emit
      <4>2. shuttingDown' # "no"
        BY <1>1, <4>1, EmissionShutsDown
      <4>3. restartPending' = restartPending
        BY <1>1, <3>1, <3>2 DEF Flags
      <4> QED
        BY <4>1, <4>2, <4>3 DEF Carried, FlagHasPoll
    <3>3. CASE work # 0
      <4>1. polls' = [polls EXCEPT !["watcher"] = @ + 1]
        BY <3>1, <3>3 DEF Defer
      <4>2. polls'["watcher"] > 0
        BY <1>1, <4>1 DEF Paths
      <4> QED
        BY <4>2 DEF Carried, FlagHasPoll, Polling, Paths
    <3> QED
      BY <3>2, <3>3
  <2> QED
    BY <2>1, <2>2
<1>6. CASE ExternalSignal
  <2>1. Signal(timer \/ Polling(polls)) /\ UNCHANGED << polls, restartPending >>
    BY <1>6 DEF ExternalSignal, deferral
  <2>2. shuttingDown' # "no"
    BY <1>1, <2>1, EmissionShutsDown
  <2> QED
    BY <2>1, <2>2 DEF Carried, FlagHasPoll
<1>7. ASSUME NEW path \in Paths, PollEnds(path)
      PROVE  Carried' /\ FlagHasPoll'
  <2>1. /\ polls' = [polls EXCEPT ![path] = @ - 1]
        /\ restartPending' = IF path = "watcher" THEN FALSE ELSE restartPending
        /\ Signal(Polling(polls'))
    BY <1>7 DEF PollEnds, Emit
  <2>2. shuttingDown' # "no"
    <3>1. Polling(polls') \in BOOLEAN
      BY DEF Polling
    <3> QED
      BY <1>1, <2>1, <3>1, EmissionShutsDown
  <2>3. path # "watcher" => polls'["watcher"] = polls["watcher"]
    BY <1>1, <2>1 DEF Paths
  <2> QED
    BY <2>1, <2>2, <2>3 DEF Carried, FlagHasPoll
<1>8. CASE RestartInProcess \/ RestartSwallowed \/ Exit
  BY <1>8 DEF RestartInProcess, RestartSwallowed, Exit, deferral, Carried, FlagHasPoll
<1> QED
  BY <1>2, <1>3, <1>4, <1>5, <1>6, <1>7, <1>8 DEF RestartNext, Handle

\* No request is lost between the coalescing of timers, the watcher's flag, the clearing
\* of the timer by every emission and the signals ignored during a shutdown: something
\* that ends in a restart carries it, the safety half of RequestIsServed.
THEOREM RequestsAreCarried == RestartSpec => []Carried
<1>1. RestartInit => Carried /\ FlagHasPoll
  BY DEF RestartInit, Carried, FlagHasPoll
<1>2. RestartIInv /\ Carried /\ FlagHasPoll /\ [RestartNext]_restartVars => (Carried /\ FlagHasPoll)'
  BY CarriedStep
<1> QED
  BY <1>1, <1>2, RestartInvariant, PTL DEF RestartSpec

-----------------------------------------------------------------------------
(***************************************************************************)
(* Proofs about the registry of NodeRegistry, for any number of            *)
(* connections and any invokes.  Only its own part of the state matters:   *)
(* the queue of actions and the app leave it alone.                        *)
(***************************************************************************)

\* The types of that part, and the order in which the app opens connections.
Types ==
  /\ link \in [Conns -> {"none", "open", "lost", "closed"}]
  /\ hello \in [Conns -> {"none", "waiting", "done"}]
  /\ byConn \in SUBSET Conns /\ byId \in 0 .. NumConns
  /\ step \in [Invokes -> Steps] /\ sentOn \in [Invokes -> 0 .. NumConns]
  /\ displaced \in SUBSET Conns /\ lateConns \in SUBSET Conns

InOrder ==
  \A c \in Conns :
    /\ hello[c] # "none" => link[c] # "none"
    /\ link[c] = "none" => \A d \in Conns : d > c => link[d] = "none"
    /\ link[c] = "open" => \A d \in Conns : d > c => link[d] = "none"

\* A connection is in the registry from its handshake to its close, or for ever if
\* the handshake came last.
ByConnFollowsSockets ==
  \A c \in Conns :
    /\ c \in byConn => hello[c] = "done"
    /\ hello[c] = "done" /\ link[c] # "closed" => c \in byConn
    /\ c \in byConn /\ link[c] = "closed" => c \in lateConns

SessionHasConnection == byId # 0 => byId \in byConn

NodeIInv ==
  /\ Types /\ InOrder /\ ByConnFollowsSockets /\ SessionHasConnection
  /\ LiveNodeIsListed /\ OutstandingInvokeHasConnection

-----------------------------------------------------------------------------
\* Connections are numbered by natural numbers.
LEMMA ConnsNat == NumConns \in Nat /\ (\A c \in Conns : c \in Nat /\ c # 0 /\ c \in 0 .. NumConns)
BY NodeConstants DEF Conns

\* Nothing is registered or outstanding at the start.
LEMMA NodeInitInv == NodeInit => NodeIInv
<1> SUFFICES ASSUME NodeInit PROVE NodeIInv
  OBVIOUS
<1> QED
  BY ConnsNat DEF NodeInit, NodeIInv, Types, InOrder, ByConnFollowsSockets, SessionHasConnection,
     LiveNodeIsListed, OutstandingInvokeHasConnection, Usable, Steps, WakeSteps, Answers

-----------------------------------------------------------------------------
(* Connections.                                                            *)

\* A new connection is the newest, and not in the registry.
LEMMA ConnectInv ==
  ASSUME NodeIInv, NEW c \in Conns, Connect(c)
  PROVE  NodeIInv'
<1>1. /\ link[c] = "none" /\ hello[c] = "none"
      /\ link' = [link EXCEPT ![c] = "open"] /\ hello' = [hello EXCEPT ![c] = "waiting"]
      /\ UNCHANGED << byConn, byId, step, sentOn, displaced, lateConns >>
      /\ \A d \in 1 .. c - 1 : link[d] \in {"lost", "closed"}
  BY DEF Connect, NodeIInv, Types, InOrder, registry
<1>2. Types'
  BY <1>1 DEF NodeIInv, Types
<1>3. \A d \in Conns : d > c => link[d] = "none" /\ hello[d] = "none"
  BY <1>1 DEF NodeIInv, Types, InOrder
<1>4. \A d \in Conns : d < c => link[d] \in {"lost", "closed"}
  BY <1>1, ConnsNat DEF Conns
<1>5. InOrder'
  <2> SUFFICES ASSUME NEW b \in Conns
               PROVE  /\ hello'[b] # "none" => link'[b] # "none"
                      /\ link'[b] = "none" => \A d \in Conns : d > b => link'[d] = "none"
                      /\ link'[b] = "open" => \A d \in Conns : d > b => link'[d] = "none"
    BY DEF InOrder
  <2>1. CASE b = c
    BY <2>1, <1>1, <1>3, ConnsNat DEF NodeIInv, Types
  <2>2. CASE b # c
    BY <2>2, <1>1, <1>3, <1>4, ConnsNat DEF NodeIInv, Types, InOrder
  <2> QED
    BY <2>1, <2>2
<1>6. ByConnFollowsSockets' /\ SessionHasConnection'
  BY <1>1 DEF NodeIInv, Types, ByConnFollowsSockets, SessionHasConnection
<1>7. LiveNodeIsListed'
  BY <1>1 DEF NodeIInv, Types, LiveNodeIsListed, Usable
<1>8. OutstandingInvokeHasConnection'
  BY <1>1 DEF NodeIInv, OutstandingInvokeHasConnection
<1> QED
  BY <1>2, <1>5, <1>6, <1>7, <1>8 DEF NodeIInv

\* The end of a handshake puts its connection in the registry.  If another one is
\* live it is a newer one, and displaced when it had the session.
LEMMA RegisterInv ==
  ASSUME NodeIInv, NEW c \in Conns, Register(c)
  PROVE  NodeIInv'
<1>1. /\ hello[c] = "waiting" /\ link[c] # "none"
      /\ hello' = [hello EXCEPT ![c] = "done"]
      /\ byId' = c /\ byConn' = byConn \union {c}
      /\ displaced' = IF byId > c THEN displaced \union {byId} ELSE displaced
      /\ lateConns' = IF link[c] = "closed" THEN lateConns \union {c} ELSE lateConns
      /\ UNCHANGED << link, step, sentOn >>
  BY DEF Register, NodeIInv, Types, InOrder
<1>2. byId \in Conns \union {0}
  BY DEF NodeIInv, Types, Conns, SessionHasConnection
<1>3. Types'
  <2>1. byId > c => byId \in Conns
    BY <1>2, ConnsNat
  <2> QED
    BY <1>1, <2>1, ConnsNat DEF NodeIInv, Types
<1>4. InOrder'
  BY <1>1 DEF NodeIInv, Types, InOrder
<1>5. ByConnFollowsSockets' /\ SessionHasConnection'
  BY <1>1, ConnsNat DEF NodeIInv, Types, ByConnFollowsSockets, SessionHasConnection
<1>6. LiveNodeIsListed'
  <2> SUFFICES ASSUME NEW d \in Conns, link'[d] = "open", hello'[d] = "done", d # c
               PROVE  d \in displaced'
    BY <1>1 DEF LiveNodeIsListed, Usable
  <2>1. link[d] = "open" /\ hello[d] = "done"
    BY <1>1 DEF NodeIInv, Types
  <2>2. d > c
    BY <2>1, <1>1, ConnsNat DEF NodeIInv, InOrder
  <2>3. byId = d \/ d \in displaced
    BY <2>1 DEF NodeIInv, LiveNodeIsListed, Usable
  <2> QED
    BY <2>2, <2>3, <1>1
<1>7. OutstandingInvokeHasConnection'
  BY <1>1 DEF NodeIInv, OutstandingInvokeHasConnection
<1> QED
  BY <1>3, <1>4, <1>5, <1>6, <1>7 DEF NodeIInv

\* A connection that is lost stays in the registry.
LEMMA LoseInv ==
  ASSUME NodeIInv, NEW c \in Conns, Lose(c)
  PROVE  NodeIInv'
<1>1. /\ link[c] = "open" /\ link' = [link EXCEPT ![c] = "lost"]
      /\ UNCHANGED << hello, byConn, byId, step, sentOn, displaced, lateConns >>
  BY DEF Lose, registry
<1>2. Types' /\ InOrder'
  BY <1>1 DEF NodeIInv, Types, InOrder
<1>3. ByConnFollowsSockets' /\ SessionHasConnection'
  BY <1>1 DEF NodeIInv, Types, ByConnFollowsSockets, SessionHasConnection
<1>4. LiveNodeIsListed'
  BY <1>1 DEF NodeIInv, Types, LiveNodeIsListed, Usable
<1>5. OutstandingInvokeHasConnection'
  BY <1>1 DEF NodeIInv, OutstandingInvokeHasConnection
<1> QED
  BY <1>2, <1>3, <1>4, <1>5 DEF NodeIInv

\* A close takes the session and every outstanding invoke with it; a connection that
\* loses its session to the close of another is displaced.
LEMMA CloseInv ==
  ASSUME NodeIInv, NEW c \in Conns, SocketClose(c)
  PROVE  NodeIInv'
<1>1. /\ link[c] \in {"open", "lost"} /\ link' = [link EXCEPT ![c] = "closed"]
      /\ UNCHANGED << hello, sentOn, lateConns >>
  BY DEF SocketClose
<1>2. InOrder'
  BY <1>1 DEF NodeIInv, Types, InOrder
<1>3. CASE c \in byConn /\ Unregister(c)
  <2>1. /\ byConn' = byConn \ {c} /\ byId' = 0
        /\ displaced' = IF byId \notin {0, c} THEN displaced \union {byId} ELSE displaced
        /\ step' = [i \in Invokes |-> IF step[i] = "pending" THEN "disconnected" ELSE step[i]]
    BY <1>3 DEF Unregister
  <2>2. byId \in Conns \union {0}
    BY DEF NodeIInv, Types, Conns, SessionHasConnection
  <2>3. Types'
    <3>1. step' \in [Invokes -> Steps]
      BY <2>1 DEF NodeIInv, Types, Steps, Answers
    <3> QED
      BY <3>1, <2>1, <2>2, <1>1, ConnsNat DEF NodeIInv, Types
  <2>4. ByConnFollowsSockets' /\ SessionHasConnection'
    BY <1>1, <2>1 DEF NodeIInv, Types, ByConnFollowsSockets, SessionHasConnection
  <2>5. LiveNodeIsListed'
    BY <1>1, <2>1, ConnsNat DEF NodeIInv, Types, LiveNodeIsListed, Usable
  <2>6. OutstandingInvokeHasConnection'
    BY <2>1 DEF OutstandingInvokeHasConnection
  <2> QED
    BY <1>2, <2>3, <2>4, <2>5, <2>6 DEF NodeIInv
<1>4. CASE c \notin byConn /\ UNCHANGED << registry, displaced, step >>
  <2>1. UNCHANGED << byConn, byId, displaced, step >>
    BY <1>4 DEF registry
  <2>2. Types'
    BY <1>1, <2>1 DEF NodeIInv, Types
  <2>3. ByConnFollowsSockets' /\ SessionHasConnection'
    BY <1>1, <1>4, <2>1 DEF NodeIInv, Types, ByConnFollowsSockets, SessionHasConnection
  <2>4. LiveNodeIsListed'
    BY <1>1, <2>1 DEF NodeIInv, Types, LiveNodeIsListed, Usable
  <2>5. OutstandingInvokeHasConnection'
    BY <1>1, <2>1 DEF NodeIInv, OutstandingInvokeHasConnection
  <2> QED
    BY <1>2, <2>2, <2>3, <2>4, <2>5 DEF NodeIInv
<1> QED
  BY <1>3, <1>4 DEF SocketClose

-----------------------------------------------------------------------------
(* Invokes.                                                                *)

\* A step that leaves connections and registry alone, and sends nothing but over the
\* session's connection, preserves the invariant.
LEMMA InvokesInv ==
  ASSUME NodeIInv, UNCHANGED << socket, registry >>,
         step' \in [Invokes -> Steps], sentOn' \in [Invokes -> 0 .. NumConns],
         \A i \in Invokes : step'[i] = "pending" =>
           \/ step[i] = "pending" /\ sentOn'[i] = sentOn[i]
           \/ byId # 0 /\ sentOn'[i] = byId
  PROVE  NodeIInv'
<1>1. UNCHANGED << link, hello, displaced, lateConns, byConn, byId >>
  BY DEF socket, registry
<1>2. Types' /\ InOrder' /\ ByConnFollowsSockets' /\ SessionHasConnection'
  BY <1>1 DEF NodeIInv, Types, InOrder, ByConnFollowsSockets, SessionHasConnection
<1>3. LiveNodeIsListed'
  BY <1>1 DEF NodeIInv, LiveNodeIsListed, Usable
<1>4. OutstandingInvokeHasConnection'
  BY <1>1 DEF NodeIInv, OutstandingInvokeHasConnection, SessionHasConnection
<1> QED
  BY <1>2, <1>3, <1>4 DEF NodeIInv

\* So does a dispatch, beside callers that go elsewhere than to "pending".
LEMMA DispatchInv ==
  ASSUME NodeIInv, UNCHANGED << socket, registry >>, NEW is \in SUBSET Invokes,
         NEW others \in [Invokes -> Steps], Dispatch(is, others),
         \A i \in Invokes : others[i] = "pending" => step[i] = "pending"
  PROVE  NodeIInv'
<1> DEFINE sent == {i \in is : Allowed(i, byId)}
<1>1. /\ byId # 0
      /\ step' = [i \in Invokes |->
           IF i \in sent THEN "pending" ELSE IF i \in is THEN "refused" ELSE others[i]]
      /\ sentOn' = [i \in Invokes |-> IF i \in sent THEN byId ELSE sentOn[i]]
  BY DEF Dispatch
<1> HIDE DEF sent
<1>2. step' \in [Invokes -> Steps]
  BY <1>1 DEF Steps, Answers
<1>3. sentOn' \in [Invokes -> 0 .. NumConns]
  BY <1>1 DEF NodeIInv, Types
<1> QED
  BY <1>1, <1>2, <1>3, InvokesInv

\* And a step that moves one caller to something else than "pending".
LEMMA GoesInv ==
  ASSUME NodeIInv, UNCHANGED << socket, registry >>, NEW i \in Invokes,
         NEW s \in Steps \ {"pending"}, Goes(i, s)
  PROVE  NodeIInv'
<1>1. step' = [step EXCEPT ![i] = s] /\ sentOn' = sentOn
  BY DEF Goes
<1>2. step' \in [Invokes -> Steps]
  BY <1>1 DEF NodeIInv, Types
<1>3. sentOn' \in [Invokes -> 0 .. NumConns]
  BY <1>1 DEF NodeIInv, Types
<1>4. \A j \in Invokes : step'[j] = "pending" => step[j] = "pending" /\ sentOn'[j] = sentOn[j]
  BY <1>1 DEF NodeIInv, Types
<1> QED
  BY <1>2, <1>3, <1>4, InvokesInv

\* Invoke and WaitEnds: a dispatch, or a caller without a session goes on.
LEMMA CallerInv ==
  ASSUME NodeIInv, NEW i \in Invokes, Invoke(i) \/ WaitEnds(i)
  PROVE  NodeIInv'
<1>1. UNCHANGED << socket, registry >>
  BY DEF Invoke, WaitEnds
<1>2. CASE Dispatch({i}, step)
  BY <1>1, <1>2, DispatchInv DEF NodeIInv, Types
<1>3. CASE \E s \in {"waiting", "waking", "rewaking", "nudging"} : Goes(i, s)
  BY <1>1, <1>3, GoesInv DEF Steps, WakeSteps
<1> QED
  BY <1>2, <1>3 DEF Invoke, WaitEnds

\* The end of a push: the callers who need the node are dispatched, or go on.
LEMMA WakeInv ==
  ASSUME NodeIInv, WakeEnds
  PROVE  NodeIInv'
<1>1. UNCHANGED << socket, registry >>
  BY DEF WakeEnds
<1>2. PICK available \in BOOLEAN :
        \/ Dispatch({i \in Invokes : step[i] \in {"waking", "rewaking"}},
                    [i \in Invokes |-> AfterWake(i, available)])
        \/ step' = [i \in Invokes |-> AfterWake(i, available)] /\ UNCHANGED << sentOn, wire >>
  BY DEF WakeEnds
<1> DEFINE after == [i \in Invokes |-> AfterWake(i, available)]
<1>3. \A i \in Invokes : AfterWake(i, available) \in Steps
                      /\ (AfterWake(i, available) = "pending" => step[i] = "pending")
  <2> SUFFICES ASSUME NEW i \in Invokes
               PROVE  AfterWake(i, available) \in Steps
                      /\ (AfterWake(i, available) = "pending" => step[i] = "pending")
    OBVIOUS
  <2>1. step[i] \in Steps
    BY DEF NodeIInv, Types
  <2>2. \/ AfterWake(i, available) \in {"queued", "waiting", "rewaiting", "nudging"}
        \/ AfterWake(i, available) = step[i]
    BY DEF AfterWake
  <2> QED
    BY <2>1, <2>2 DEF Steps, Answers
<1>4. after \in [Invokes -> Steps] /\ \A i \in Invokes : after[i] = "pending" => step[i] = "pending"
  BY <1>3
<1>5. CASE Dispatch({i \in Invokes : step[i] \in {"waking", "rewaking"}}, after)
  BY <1>1, <1>4, <1>5, DispatchInv
<1>6. CASE step' = after /\ UNCHANGED << sentOn, wire >>
  <2>1. sentOn' = sentOn /\ sentOn \in [Invokes -> 0 .. NumConns]
    BY <1>6 DEF NodeIInv, Types
  <2> QED
    BY <1>1, <1>4, <1>6, <2>1, InvokesInv
<1> QED
  BY <1>2, <1>5, <1>6

\* An answer of the node ends an outstanding invoke or is ignored.
LEMMA ResultInv ==
  ASSUME NodeIInv, NEW i \in Invokes, ResultArrives(i)
  PROVE  NodeIInv'
<1>1. UNCHANGED << socket, registry >> /\ sentOn' = sentOn
  BY DEF ResultArrives
<1>2. step' = step \/ \E s \in {"ok", "queued", "queueing"} : step' = [step EXCEPT ![i] = s]
  BY DEF ResultArrives
<1>3. step' \in [Invokes -> Steps] /\ sentOn' \in [Invokes -> 0 .. NumConns]
  BY <1>1, <1>2 DEF NodeIInv, Types, Steps, WakeSteps, Answers
<1>4. \A j \in Invokes : step'[j] = "pending" => step[j] = "pending" /\ sentOn'[j] = sentOn[j]
  BY <1>1, <1>2 DEF NodeIInv, Types
<1> QED
  BY <1>1, <1>3, <1>4, InvokesInv

\* What only concerns the queue, the app or the messages on the way.
LEMMA OtherInv ==
  ASSUME NodeIInv, UNCHANGED << socket, registry, step, sentOn >>
  PROVE  NodeIInv'
<1>1. step' = step /\ sentOn' = sentOn /\ UNCHANGED << socket, registry >>
  OBVIOUS
<1> QED
  BY <1>1, InvokesInv DEF NodeIInv, Types

\* Every step preserves the invariant.
LEMMA NodeNextInv == NodeIInv /\ [NodeNext]_nodeVars => NodeIInv'
<1> SUFFICES ASSUME NodeIInv, [NodeNext]_nodeVars PROVE NodeIInv'
  OBVIOUS
<1>1. ASSUME NEW i \in Invokes, InvokeSteps(i) PROVE NodeIInv'
  <2>1. CASE Invoke(i) \/ WaitEnds(i)
    BY <2>1, CallerInv
  <2>2. CASE NudgeEnds(i)
    <3>1. Goes(i, "notConnected") /\ UNCHANGED << socket, registry >>
      BY <2>2 DEF NudgeEnds
    <3> QED
      BY <3>1, GoesInv DEF Steps, Answers
  <2>3. CASE InvokeTimesOut(i)
    <3>1. Goes(i, "timeout") /\ UNCHANGED << socket, registry >>
      BY <2>3 DEF InvokeTimesOut
    <3> QED
      BY <3>1, GoesInv DEF Steps, Answers
  <2>4. CASE ResultArrives(i)
    BY <2>4, ResultInv
  <2>5. CASE NodeHandles(i) \/ MessageLost(i)
    BY <2>5, OtherInv DEF NodeHandles, MessageLost
  <2> QED
    BY <1>1, <2>1, <2>2, <2>3, <2>4, <2>5 DEF InvokeSteps
<1>2. ASSUME NEW c \in Conns, ConnSteps(c) PROVE NodeIInv'
  <2>1. CASE Pull(c)
    BY <2>1, OtherInv DEF Pull
  <2>2. CASE Ack(c)
    BY <2>2, OtherInv DEF Ack
  <2> QED
    BY <1>2, <2>1, <2>2, ConnectInv, RegisterInv, LoseInv, CloseInv DEF ConnSteps
<1>3. CASE WakeEnds
  BY <1>3, WakeInv
<1>4. CASE ThrottleEnds \/ Expire
  BY <1>4, OtherInv DEF ThrottleEnds, Expire
<1>5. CASE SetScenePhase \/ Replay \/ ReplayStops \/ AckFails
  BY <1>5, OtherInv DEF SetScenePhase, Replay, ReplayStops, AckFails
<1>6. CASE UNCHANGED nodeVars
  BY <1>6, OtherInv DEF nodeVars
<1> QED
  BY <1>1, <1>2, <1>3, <1>4, <1>5, <1>6 DEF NodeNext

\* Every reachable state satisfies the invariant.
LEMMA NodeInvariant == NodeSpec => []NodeIInv
<1>1. NodeInit => NodeIInv
  BY NodeInitInv
<1>2. NodeIInv /\ [NodeNext]_nodeVars => NodeIInv'
  BY NodeNextInv
<1> QED
  BY <1>1, <1>2, PTL DEF NodeSpec

-----------------------------------------------------------------------------
\* A connected node is found by its id, unless an older connection's close or late
\* handshake displaced its session; and a session whose socket is closed is in the
\* registry only if its handshake ended after the close.
THEOREM RegistryFollows == NodeSpec => []RegistryFollowsNode
<1>1. NodeIInv => LiveNodeIsListed
  BY DEF NodeIInv
<1>2. NodeIInv => ListedNodeHasSocket
  BY DEF NodeIInv, ListedNodeHasSocket, SessionHasConnection, ByConnFollowsSockets, Types
<1> QED
  BY <1>1, <1>2, NodeInvariant, PTL DEF RegistryFollowsNode

\* An outstanding invoke waits on a connection whose close would end it.
THEOREM OutstandingHasConnection == NodeSpec => []OutstandingInvokeHasConnection
<1>1. NodeIInv => OutstandingInvokeHasConnection
  BY DEF NodeIInv
<1> QED
  BY <1>1, NodeInvariant, PTL

-----------------------------------------------------------------------------
(***************************************************************************)
(* Proofs about the queue of NodeRegistry and the app that replays it, for *)
(* any number of invokes, any shared keys and any cap: the types, and what *)
(* a caller that was told "queued" can count on.                           *)
(***************************************************************************)

\* F takes entries of q in their order, all those that are in S among them.
Picks(F, q, S) ==
  \E at \in [1 .. Len(F) -> 1 .. Len(q)] :
    /\ \A k, l \in 1 .. Len(F) : k < l => at[k] < at[l]
    /\ \A k \in 1 .. Len(F) : F[k] = q[at[k]]
    /\ \A n \in 1 .. Len(q) : q[n] \in S => \E k \in 1 .. Len(F) : at[k] = n

\* A sequence of n entries has n places.
LEMMA PlacesOf ==
  ASSUME NEW n \in Nat
  PROVE  IsFiniteSet(1 .. n) /\ Cardinality(1 .. n) = n
<1>1. n \in Int /\ 1 \in Int /\ (n > 0 <=> ~(1 > n)) /\ (n > 0 \/ n = 0) /\ n - 1 + 1 = n
  OBVIOUS
<1>2. IsFiniteSet(1 .. n) /\ Cardinality(1 .. n) = IF 1 > n THEN 0 ELSE n - 1 + 1
  BY <1>1, FS_Interval
<1> QED
  BY <1>1, <1>2

\* A filter picks the entries it is for.  The places of kept entries have different
\* numbers of kept ones up to them, and there are as many such numbers as places.
LEMMA FilteredPicks ==
  ASSUME NEW T, NEW q \in Seq(T), NEW S
  PROVE  /\ Filtered(q, S) \in Seq(T \cap S) /\ Len(Filtered(q, S)) <= Len(q)
         /\ Picks(Filtered(q, S), q, S)
<1> DEFINE kept == {n \in 1 .. Len(q) : q[n] \in S}
           upTo(n) == {m \in kept : m <= n}
           size == Cardinality(kept)
           place == [n \in kept |-> Cardinality(upTo(n))]
           at == [k \in 1 .. size |-> CHOOSE n \in kept : Cardinality(upTo(n)) = k]
           F == [k \in 1 .. size |-> q[at[k]]]
<1>1. Len(q) \in Nat /\ \A n \in 1 .. Len(q) : q[n] \in T
  OBVIOUS
<1>2. IsFiniteSet(1 .. Len(q)) /\ Cardinality(1 .. Len(q)) = Len(q)
  BY ONLY <1>1, PlacesOf
<1>3. IsFiniteSet(kept) /\ size \in Nat /\ size <= Len(q)
  BY <1>2, FS_Subset, FS_CardinalityType
<1>4. \A n \in kept : /\ IsFiniteSet(upTo(n)) /\ Cardinality(upTo(n)) \in Nat
                     /\ Cardinality(upTo(n)) \in 1 .. size
  <2> SUFFICES ASSUME NEW n \in kept
               PROVE  /\ IsFiniteSet(upTo(n)) /\ Cardinality(upTo(n)) \in Nat
                      /\ Cardinality(upTo(n)) \in 1 .. size
    OBVIOUS
  <2>1. upTo(n) \in SUBSET kept /\ n \in upTo(n)
    BY <1>1
  <2>2. IsFiniteSet(upTo(n)) /\ Cardinality(upTo(n)) <= size /\ Cardinality(upTo(n)) \in Nat
    BY <1>3, <2>1, FS_Subset, FS_CardinalityType
  <2>3. Cardinality(upTo(n)) # 0
    BY <2>1, <2>2, FS_EmptySet
  <2> QED
    BY <1>3, <2>2, <2>3
<1>5. \A m, n \in kept : m < n => place[m] < place[n]
  <2> SUFFICES ASSUME NEW m \in kept, NEW n \in kept, m < n
               PROVE  Cardinality(upTo(m)) < Cardinality(upTo(n))
    OBVIOUS
  <2>1. upTo(m) \in SUBSET upTo(n) /\ n \in upTo(n) /\ n \notin upTo(m)
    BY <1>1
  <2>2. /\ Cardinality(upTo(m)) <= Cardinality(upTo(n))
        /\ Cardinality(upTo(m)) = Cardinality(upTo(n)) => upTo(m) = upTo(n)
    BY <1>4, <2>1, FS_Subset
  <2>3. Cardinality(upTo(m)) \in Nat /\ Cardinality(upTo(n)) \in Nat
    BY <1>4
  <2> HIDE DEF upTo
  <2> QED
    BY <2>1, <2>2, <2>3
<1>6. place \in Injection(kept, 1 .. size)
  <2>1. place \in [kept -> 1 .. size]
    BY <1>4
  <2>2. \A m, n \in kept : place[m] = place[n] => m = n
    <3> SUFFICES ASSUME NEW m \in kept, NEW n \in kept, m # n PROVE place[m] # place[n]
      OBVIOUS
    <3>1. m < n \/ n < m
      BY <1>1
    <3>2. place[m] \in Nat /\ place[n] \in Nat
      BY <1>4
    <3> HIDE DEF place
    <3> QED
      BY <3>1, <3>2, <1>5
  <2> QED
    BY <2>1, <2>2 DEF Injection, IsInjective
<1>7. IsFiniteSet(1 .. size) /\ Cardinality(1 .. size) = size
  BY ONLY <1>3, PlacesOf
<1>8. place \in Surjection(kept, 1 .. size)
  BY <1>3, <1>6, <1>7, FS_Injection
<1>9. \A k \in 1 .. size : \E n \in kept : place[n] = k
  BY <1>8 DEF Surjection
<1>10. at \in [1 .. size -> kept] /\ \A k \in 1 .. size : place[at[k]] = k
  <2> SUFFICES ASSUME NEW k \in 1 .. size
               PROVE  at[k] \in kept /\ place[at[k]] = k
    OBVIOUS
  <2>1. \E n \in kept : Cardinality(upTo(n)) = k
    BY <1>9
  <2>2. at[k] = CHOOSE n \in kept : Cardinality(upTo(n)) = k
    OBVIOUS
  <2> HIDE DEF at, kept, upTo, size
  <2>3. at[k] \in kept /\ Cardinality(upTo(at[k])) = k
    BY <2>1, <2>2
  <2> QED
    BY <2>3
<1>11. \A n \in kept : place[n] \in 1 .. size /\ at[place[n]] = n
  <2> SUFFICES ASSUME NEW n \in kept PROVE place[n] \in 1 .. size /\ at[place[n]] = n
    OBVIOUS
  <2>1. place[n] \in 1 .. size
    BY <1>4
  <2>2. at[place[n]] \in kept /\ place[at[place[n]]] = place[n]
    BY <1>10, <2>1
  <2> HIDE DEF at
  <2> QED
    BY <1>6, <2>1, <2>2 DEF Injection, IsInjective
<1>12. Filtered(q, S) = F
  BY DEF Filtered
<1> HIDE DEF at, place, size
<1>13. F \in Seq(T \cap S) /\ Len(F) = size
  <2>1. \A k \in 1 .. size : at[k] \in 1 .. Len(q) /\ q[at[k]] \in T \cap S
    BY <1>1, <1>10
  <2> QED
    BY <1>3, <2>1
<1>14. at \in [1 .. size -> 1 .. Len(q)]
  BY <1>10
<1>15. \A k, l \in 1 .. size : k < l => at[k] < at[l]
  <2> SUFFICES ASSUME NEW k \in 1 .. size, NEW l \in 1 .. size, k < l PROVE at[k] < at[l]
    OBVIOUS
  <2>1. at[k] \in kept /\ at[l] \in kept /\ place[at[k]] = k /\ place[at[l]] = l
    BY <1>10
  <2>2. at[k] \in Nat /\ at[l] \in Nat /\ k \in Nat /\ l \in Nat
    BY <1>3, <1>14
  <2>3. ~(at[l] < at[k]) /\ at[l] # at[k]
    BY <1>5, <2>1, <2>2
  <2> QED
    BY <2>2, <2>3
<1>16. \A k \in 1 .. size : F[k] = q[at[k]]
  OBVIOUS
<1>17. \A n \in 1 .. Len(q) : q[n] \in S => \E k \in 1 .. size : at[k] = n
  BY <1>11
<1> HIDE DEF F, kept
<1>18. Picks(F, q, S)
  BY <1>13, <1>14, <1>15, <1>16, <1>17 DEF Picks
<1> QED
  BY <1>3, <1>12, <1>13, <1>18

\* What a filter keeps.
LEMMA FilteredEntries ==
  ASSUME NEW T, NEW q \in Seq(T), NEW S
  PROVE  Entries(Filtered(q, S)) = Entries(q) \cap S
<1> DEFINE F == Filtered(q, S)
<1>1. F \in Seq(T \cap S) /\ Picks(F, q, S)
  BY FilteredPicks
<1>2. \A k \in 1 .. Len(F) : F[k] \in S
  <2> HIDE DEF F
  <2> QED
    BY <1>1
<1> HIDE DEF F
<1>3. \A k \in 1 .. Len(F) : F[k] \in Entries(q)
  BY <1>1 DEF Entries, Picks
<1>4. \A n \in 1 .. Len(q) : q[n] \in S => q[n] \in Entries(F)
  BY <1>1 DEF Entries, Picks
<1>5. Entries(F) \subseteq Entries(q) \cap S
  BY <1>2, <1>3 DEF Entries
<1>6. Entries(q) \cap S \subseteq Entries(F)
  BY <1>4 DEF Entries
<1> QED
  BY <1>5, <1>6 DEF F

\* The types of the rest of the state.
QueueTypes ==
  /\ key \in Keyings /\ wokeLately \in BOOLEAN
  /\ wire \in [Invokes -> {"none", "request", "ok", "refused"}]
  /\ queue \in Seq(Invokes) /\ Len(queue) <= MaxPending
  /\ background \in BOOLEAN /\ todo \in Seq(Invokes) /\ acking \in BOOLEAN
  /\ ran \in [Invokes -> Nat]
  /\ dropped \in SUBSET Invokes /\ ackFailed \in SUBSET Invokes

\* No two entries have the same key: the queue has one action for each, and so has what
\* the app pulled of it.
OnePerKey(q) == \A m, n \in 1 .. Len(q) : key[q[m]] = key[q[n]] => m = n

\* What the app acknowledges has been run.
AckedHasRun == acking => todo # << >> /\ ran[Head(todo)] > 0

\* An action that was run, and whose acknowledgement has not failed, is out of the
\* queue and of what is left to replay, or is being acknowledged.
RanIsOut ==
  \A i \in Invokes : ran[i] > 0 /\ i \notin ackFailed =>
    i \notin Entries(queue) \union Entries(todo) \/ (acking /\ i = Head(todo))

QueueIInv ==
  /\ QueueTypes /\ OnePerKey(queue) /\ OnePerKey(todo) /\ AckedHasRun /\ RanIsOut
  /\ QueuedIsKept /\ QueuedRunsOnce /\ OnlyQueuedRuns

\* Nothing is queued at the start.
LEMMA QueueInitInv == NodeInit => QueueIInv
<1> SUFFICES ASSUME NodeInit PROVE QueueIInv
  OBVIOUS
<1>1. QueueTypes
  <2>1. queue = << >> /\ todo = << >> /\ MaxPending \in Nat
    BY NodeConstants DEF NodeInit
  <2>2. queue \in Seq(Invokes) /\ Len(queue) <= MaxPending /\ todo \in Seq(Invokes)
    BY <2>1
  <2>3. wokeLately \in BOOLEAN /\ background \in BOOLEAN /\ acking \in BOOLEAN
    BY DEF NodeInit
  <2> QED
    BY <2>2, <2>3 DEF NodeInit, QueueTypes
<1>2. OnePerKey(queue) /\ OnePerKey(todo) /\ Entries(queue) = {} /\ Entries(todo) = {}
  BY DEF NodeInit, OnePerKey, Entries
<1>3. AckedHasRun /\ RanIsOut /\ QueuedIsKept /\ QueuedRunsOnce /\ OnlyQueuedRuns
  BY <1>2 DEF NodeInit, AckedHasRun, RanIsOut, QueuedIsKept, QueuedRunsOnce, OnlyQueuedRuns
<1> QED
  BY <1>1, <1>2, <1>3 DEF QueueIInv

\* Whoever is there has had an action queued.
QueuedSteps == {"queueing", "queued"}

\* A step that leaves the queue and the app's replay alone, and moves nobody to or from
\* "queueing" and "queued", preserves the invariant.
LEMMA QueueAlone ==
  ASSUME QueueIInv, UNCHANGED << key, queue, todo, acking, ran, ackFailed, dropped >>,
         wokeLately' \in BOOLEAN, background' \in BOOLEAN,
         wire' \in [Invokes -> {"none", "request", "ok", "refused"}],
         \A i \in Invokes : step'[i] \in QueuedSteps <=> step[i] \in QueuedSteps
  PROVE  QueueIInv'
<1>1. QueueTypes' /\ OnePerKey(queue)' /\ OnePerKey(todo)'
  BY DEF QueueIInv, QueueTypes, OnePerKey
<1>2. AckedHasRun' /\ RanIsOut' /\ QueuedRunsOnce'
  BY DEF QueueIInv, AckedHasRun, RanIsOut, QueuedRunsOnce
<1>3. QueuedIsKept' /\ OnlyQueuedRuns'
  BY DEF QueueIInv, QueuedIsKept, OnlyQueuedRuns, QueuedSteps
<1> QED
  BY <1>1, <1>2, <1>3 DEF QueueIInv

\* Dispatched are only callers of whom nothing is queued.
LEMMA DispatchQueue ==
  ASSUME QueueIInv, NEW is \in SUBSET Invokes, NEW others, Dispatch(is, others),
         \A i \in is : step[i] \notin QueuedSteps,
         \A i \in Invokes \ is : others[i] \in QueuedSteps <=> step[i] \in QueuedSteps
  PROVE  /\ wire' \in [Invokes -> {"none", "request", "ok", "refused"}]
         /\ \A i \in Invokes : step'[i] \in QueuedSteps <=> step[i] \in QueuedSteps
<1> DEFINE sent == {i \in is : Allowed(i, byId)}
<1>1. /\ step' = [i \in Invokes |->
           IF i \in sent THEN "pending" ELSE IF i \in is THEN "refused" ELSE others[i]]
      /\ wire' = [i \in Invokes |-> IF i \in sent THEN "request" ELSE wire[i]]
  BY DEF Dispatch
<1>2. sent \subseteq is
  OBVIOUS
<1> HIDE DEF sent
<1> QED
  BY <1>1, <1>2 DEF QueueIInv, QueueTypes, QueuedSteps

\* The callers' own steps.
LEMMA CallerQueue ==
  ASSUME QueueIInv, Types, NEW i \in Invokes, Invoke(i) \/ WaitEnds(i) \/ NudgeEnds(i) \/ InvokeTimesOut(i)
  PROVE  QueueIInv'
<1>1. /\ UNCHANGED << key, wokeLately, queue, background, todo, acking, ran, ackFailed, dropped >>
      /\ step[i] \notin QueuedSteps
      /\ \/ Dispatch({i}, step)
         \/ \E s \in Steps \ QueuedSteps : Goes(i, s)
  BY DEF Invoke, WaitEnds, NudgeEnds, InvokeTimesOut, app, QueuedSteps, Steps, WakeSteps, Answers
<1>2. /\ wire' \in [Invokes -> {"none", "request", "ok", "refused"}]
      /\ \A j \in Invokes : step'[j] \in QueuedSteps <=> step[j] \in QueuedSteps
  <2>1. CASE Dispatch({i}, step)
    <3>1. {i} \in SUBSET Invokes /\ \A j \in {i} : step[j] \notin QueuedSteps
      BY <1>1
    <3> QED
      BY ONLY QueueIInv, <2>1, <3>1, DispatchQueue
  <2>2. CASE \E s \in Steps \ QueuedSteps : Goes(i, s)
    BY <1>1, <2>2 DEF Goes, QueueIInv, QueueTypes, Types
  <2> QED
    BY <1>1, <2>1, <2>2
<1>3. wokeLately' \in BOOLEAN /\ background' \in BOOLEAN
  BY <1>1 DEF QueueIInv, QueueTypes
<1> QED
  BY <1>1, <1>2, <1>3, QueueAlone

\* The end of a push answers the callers who wait for it with an action queued.
LEMMA WakeQueue ==
  ASSUME QueueIInv, Types, WakeEnds
  PROVE  QueueIInv'
<1>1. UNCHANGED << key, queue, background, todo, acking, ran, ackFailed, dropped >>
  BY DEF WakeEnds, app
<1>2. PICK available \in BOOLEAN :
        /\ \/ Dispatch({i \in Invokes : step[i] \in {"waking", "rewaking"}},
                       [i \in Invokes |-> AfterWake(i, available)])
           \/ step' = [i \in Invokes |-> AfterWake(i, available)] /\ UNCHANGED << sentOn, wire >>
        /\ wokeLately' \in IF available THEN {wokeLately, TRUE} ELSE {wokeLately}
  BY DEF WakeEnds
<1> DEFINE after == [i \in Invokes |-> AfterWake(i, available)]
           awake == {i \in Invokes : step[i] \in {"waking", "rewaking"}}
<1>3. \A i \in Invokes : AfterWake(i, available) \in QueuedSteps <=> step[i] \in QueuedSteps
  BY DEF AfterWake, QueuedSteps
<1>4. /\ wire' \in [Invokes -> {"none", "request", "ok", "refused"}]
      /\ \A i \in Invokes : step'[i] \in QueuedSteps <=> step[i] \in QueuedSteps
  <2>1. CASE Dispatch(awake, after)
    <3>1. \A i \in awake : step[i] \notin QueuedSteps
      BY DEF QueuedSteps
    <3>2. \A i \in Invokes \ awake : after[i] \in QueuedSteps <=> step[i] \in QueuedSteps
      BY <1>3
    <3>3. awake \in SUBSET Invokes
      OBVIOUS
    <3> HIDE DEF after, awake
    <3> QED
      BY <2>1, <3>1, <3>2, <3>3, DispatchQueue
  <2>2. CASE step' = after /\ UNCHANGED << sentOn, wire >>
    BY <2>2, <1>3 DEF QueueIInv, QueueTypes
  <2> QED
    BY <1>2, <2>1, <2>2
<1>5. wokeLately' \in BOOLEAN /\ background' \in BOOLEAN
  BY <1>1, <1>2 DEF QueueIInv, QueueTypes
<1> QED
  BY <1>1, <1>4, <1>5, QueueAlone

\* A close ends outstanding invokes, of which nothing is queued.
LEMMA CloseQueue ==
  ASSUME QueueIInv, Types, NEW c \in Conns, SocketClose(c)
  PROVE  QueueIInv'
<1>1. UNCHANGED << key, wokeLately, wire, queue, background, todo, acking, ran, ackFailed, dropped >>
  BY DEF SocketClose, app
<1>2. \A i \in Invokes : step'[i] \in QueuedSteps <=> step[i] \in QueuedSteps
  BY DEF SocketClose, Unregister, QueuedSteps
<1>3. /\ wokeLately' \in BOOLEAN /\ background' \in BOOLEAN
      /\ wire' \in [Invokes -> {"none", "request", "ok", "refused"}]
  BY <1>1 DEF QueueIInv, QueueTypes
<1> QED
  BY <1>1, <1>2, <1>3, QueueAlone

\* The other steps that leave the queue and the callers alone.
LEMMA OtherQueue ==
  ASSUME QueueIInv,
         \/ \E c \in Conns : Connect(c) \/ Register(c) \/ Lose(c)
         \/ \E i \in Invokes : NodeHandles(i) \/ MessageLost(i)
         \/ ThrottleEnds \/ SetScenePhase \/ UNCHANGED nodeVars
  PROVE  QueueIInv'
<1>1. UNCHANGED << key, step, queue, todo, acking, ran, ackFailed, dropped >>
  BY DEF Connect, Register, Lose, NodeHandles, MessageLost, ThrottleEnds, SetScenePhase, nodeVars, app
<1>2. wokeLately' \in BOOLEAN
  BY DEF Connect, Register, Lose, NodeHandles, MessageLost, ThrottleEnds, SetScenePhase, nodeVars,
     QueueIInv, QueueTypes
<1>3. background' \in BOOLEAN
  BY DEF Connect, Register, Lose, NodeHandles, MessageLost, ThrottleEnds, SetScenePhase, nodeVars, app,
     QueueIInv, QueueTypes
<1>4. wire' \in [Invokes -> {"none", "request", "ok", "refused"}]
  BY DEF Connect, Register, Lose, NodeHandles, MessageLost, ThrottleEnds, SetScenePhase, nodeVars,
     QueueIInv, QueueTypes
<1>5. \A i \in Invokes : step'[i] \in QueuedSteps <=> step[i] \in QueuedSteps
  BY <1>1
<1> QED
  BY <1>1, <1>2, <1>3, <1>4, <1>5, QueueAlone

-----------------------------------------------------------------------------
\* A filter of a queue repeats no key.
LEMMA FilteredKeys ==
  ASSUME NEW q \in Seq(Invokes), OnePerKey(q), NEW S
  PROVE  OnePerKey(Filtered(q, S))
<1> DEFINE F == Filtered(q, S)
<1>1. Picks(F, q, S)
  BY FilteredPicks
<1> HIDE DEF F
<1>2. PICK at \in [1 .. Len(F) -> 1 .. Len(q)] :
        /\ \A k, l \in 1 .. Len(F) : k < l => at[k] < at[l]
        /\ \A k \in 1 .. Len(F) : F[k] = q[at[k]]
  BY <1>1 DEF Picks
<1>3. OnePerKey(F)
  <2> SUFFICES ASSUME NEW k \in 1 .. Len(F), NEW l \in 1 .. Len(F), key[F[k]] = key[F[l]]
               PROVE  k = l
    BY DEF OnePerKey
  <2>1. at[k] = at[l]
    BY <1>2 DEF OnePerKey
  <2>2. ~(k < l) /\ ~(l < k) /\ k \in Int /\ l \in Int
    BY <1>2, <2>1
  <2> QED
    BY <2>2
<1> QED
  BY <1>3 DEF F

\* The head of a queue is not in its tail.
LEMMA TailEntries ==
  ASSUME NEW q \in Seq(Invokes), q # << >>
  PROVE  /\ Head(q) \in Invokes /\ Tail(q) \in Seq(Invokes) /\ Len(Tail(q)) = Len(q) - 1
         /\ Entries(q) = {Head(q)} \union Entries(Tail(q))
         /\ OnePerKey(q) => OnePerKey(Tail(q)) /\ Head(q) \notin Entries(Tail(q))
<1>1. /\ Len(q) \in Nat \ {0} /\ Head(q) = q[1] /\ q[1] \in Invokes
      /\ Tail(q) \in Seq(Invokes) /\ Len(Tail(q)) = Len(q) - 1
      /\ \A k \in 1 .. Len(q) - 1 : Tail(q)[k] = q[k + 1]
  OBVIOUS
<1>2. Entries(q) = {Head(q)} \union Entries(Tail(q))
  <2>1. ASSUME NEW n \in 1 .. Len(q) PROVE q[n] \in {Head(q)} \union Entries(Tail(q))
    <3>1. CASE n = 1
      BY <3>1, <1>1
    <3>2. CASE n # 1
      <4>1. n - 1 \in 1 .. Len(Tail(q)) /\ Tail(q)[n - 1] = q[n]
        BY <3>2, <1>1
      <4> QED
        BY <4>1 DEF Entries
    <3> QED
      BY <3>1, <3>2
  <2>2. Head(q) \in Entries(q)
    BY <1>1 DEF Entries
  <2>3. ASSUME NEW k \in 1 .. Len(Tail(q)) PROVE Tail(q)[k] \in Entries(q)
    <3>1. k + 1 \in 1 .. Len(q) /\ Tail(q)[k] = q[k + 1]
      BY <1>1
    <3> QED
      BY <3>1 DEF Entries
  <2> QED
    BY <2>1, <2>2, <2>3 DEF Entries
<1>3. ASSUME OnePerKey(q) PROVE OnePerKey(Tail(q)) /\ Head(q) \notin Entries(Tail(q))
  <2>1. \A k \in 1 .. Len(Tail(q)) : k + 1 \in 1 .. Len(q) /\ Tail(q)[k] = q[k + 1]
    BY <1>1
  <2>2. OnePerKey(Tail(q))
    <3> SUFFICES ASSUME NEW m \in 1 .. Len(Tail(q)), NEW n \in 1 .. Len(Tail(q)),
                        key[Tail(q)[m]] = key[Tail(q)[n]]
                 PROVE  m = n
      BY DEF OnePerKey
    <3>1. m + 1 = n + 1
      BY <1>3, <2>1 DEF OnePerKey
    <3> QED
      BY <3>1, <1>1
  <2>3. \A k \in 1 .. Len(Tail(q)) : Tail(q)[k] # Head(q)
    <3> SUFFICES ASSUME NEW k \in 1 .. Len(Tail(q)), Tail(q)[k] = Head(q) PROVE FALSE
      OBVIOUS
    <3>1. key[q[k + 1]] = key[q[1]] /\ 1 \in 1 .. Len(q)
      BY <1>1, <2>1
    <3>2. k + 1 = 1
      BY <1>3, <2>1, <3>1 DEF OnePerKey
    <3> QED
      BY <3>2, <1>1
  <2> QED
    BY <2>2, <2>3 DEF Entries
<1> QED
  BY <1>1, <1>2, <1>3

\* An action of a new key is appended.
LEMMA AppendEntries ==
  ASSUME NEW q \in Seq(Invokes), NEW i \in Invokes
  PROVE  /\ Append(q, i) \in Seq(Invokes) /\ Len(Append(q, i)) = Len(q) + 1
         /\ Entries(Append(q, i)) = Entries(q) \union {i}
         /\ OnePerKey(q) /\ (\A j \in Entries(q) : key[j] # key[i]) => OnePerKey(Append(q, i))
<1>1. /\ Append(q, i) \in Seq(Invokes) /\ Len(Append(q, i)) = Len(q) + 1 /\ Len(q) \in Nat
      /\ \A n \in 1 .. Len(q) : Append(q, i)[n] = q[n]
      /\ Append(q, i)[Len(q) + 1] = i
  OBVIOUS
<1>2. 1 .. Len(Append(q, i)) = (1 .. Len(q)) \union {Len(q) + 1}
  BY <1>1
<1>3. Entries(Append(q, i)) = Entries(q) \union {i}
  BY <1>1, <1>2 DEF Entries
<1>4. ASSUME OnePerKey(q), \A j \in Entries(q) : key[j] # key[i] PROVE OnePerKey(Append(q, i))
  <2>1. \A n \in 1 .. Len(q) : key[q[n]] # key[i]
    BY <1>4 DEF Entries
  <2> QED
    BY <1>1, <1>2, <1>4, <2>1 DEF OnePerKey
<1> QED
  BY <1>1, <1>3, <1>4

-----------------------------------------------------------------------------
(* The steps that change the queue or what the app has of it.              *)

\* An action that is queued is of an invoke that is answered "queued", and was not run
\* before.  One that is pushed out is dropped.
LEMMA EnqueueQueue ==
  ASSUME QueueIInv, Types, NEW i \in Invokes, step[i] = "pending", EnqueueAction(i),
         \E s \in QueuedSteps : step' = [step EXCEPT ![i] = s],
         wire' \in [Invokes -> {"none", "request", "ok", "refused"}],
         UNCHANGED << key, wokeLately, background, todo, acking, ran, ackFailed >>
  PROVE  QueueIInv'
<1>1. /\ queue' \in Seq(Invokes) /\ Len(queue') <= MaxPending /\ OnePerKey(queue)'
      /\ dropped \subseteq dropped' /\ dropped' \subseteq Invokes
      /\ Entries(queue') \subseteq Entries(queue) \union {i}
      /\ Entries(queue) \subseteq Entries(queue') \union dropped'
      /\ \E j \in Entries(queue') : key[j] = key[i]
  <2>1. /\ queue \in Seq(Invokes) /\ Len(queue) \in Nat /\ Len(queue) <= MaxPending
        /\ OnePerKey(queue) /\ dropped \subseteq Invokes /\ MaxPending \in Nat \ {0}
    BY NodeConstants DEF QueueIInv, QueueTypes
  <2>2. CASE key[i] \in Keys(queue)
    <3>1. queue' = queue /\ dropped' = dropped
      BY <2>2 DEF EnqueueAction
    <3> QED
      BY <2>1, <2>2, <3>1 DEF Keys, OnePerKey
  <2>3. CASE key[i] \notin Keys(queue) /\ Len(queue) < MaxPending
    <3>1. queue' = Append(queue, i) /\ dropped' = dropped
      BY <2>3 DEF EnqueueAction
    <3>2. \A j \in Entries(queue) : key[j] # key[i]
      BY <2>3 DEF Keys
    <3>3. /\ Append(queue, i) \in Seq(Invokes) /\ Len(Append(queue, i)) = Len(queue) + 1
          /\ Entries(Append(queue, i)) = Entries(queue) \union {i}
          /\ OnePerKey(Append(queue, i))
      BY <2>1, <3>2, AppendEntries
    <3> HIDE DEF OnePerKey
    <3>4. OnePerKey(queue)'
      BY <3>1, <3>3 DEF OnePerKey
    <3> QED
      BY <2>1, <2>3, <3>1, <3>3, <3>4
  <2>4. CASE key[i] \notin Keys(queue) /\ ~(Len(queue) < MaxPending)
    <3>1. queue' = Append(Tail(queue), i) /\ dropped' = dropped \union {Head(queue)}
      BY <2>4 DEF EnqueueAction
    <3>2. queue # << >>
      BY <2>1, <2>4
    <3>3. /\ Head(queue) \in Invokes /\ Tail(queue) \in Seq(Invokes) /\ Len(Tail(queue)) = Len(queue) - 1
          /\ Entries(queue) = {Head(queue)} \union Entries(Tail(queue)) /\ OnePerKey(Tail(queue))
      BY <2>1, <3>2, TailEntries
    <3>4. \A j \in Entries(Tail(queue)) : key[j] # key[i]
      BY <2>4, <3>3 DEF Keys
    <3>5. /\ Append(Tail(queue), i) \in Seq(Invokes) /\ Len(Append(Tail(queue), i)) = Len(Tail(queue)) + 1
          /\ Entries(Append(Tail(queue), i)) = Entries(Tail(queue)) \union {i}
          /\ OnePerKey(Append(Tail(queue), i))
      BY <3>3, <3>4, AppendEntries
    <3>6. OnePerKey(queue)'
      BY <3>1, <3>5 DEF OnePerKey
    <3> QED
      BY <2>1, <3>1, <3>3, <3>5, <3>6
  <2> QED
    BY <2>2, <2>3, <2>4
<1>2. PICK s \in QueuedSteps : step' = [step EXCEPT ![i] = s]
  OBVIOUS
<1>3. step'[i] \in QueuedSteps /\ \A j \in Invokes \ {i} : step'[j] = step[j]
  BY <1>2 DEF Types
<1>4. i \notin Entries(todo) /\ ~(ran[i] > 0) /\ step[i] \notin QueuedSteps
  BY DEF QueueIInv, OnlyQueuedRuns, QueuedSteps
<1>5. QueueTypes' /\ OnePerKey(todo)'
  BY <1>1 DEF QueueIInv, QueueTypes, OnePerKey
<1>6. AckedHasRun' /\ QueuedRunsOnce'
  BY DEF QueueIInv, AckedHasRun, QueuedRunsOnce
<1>7. RanIsOut'
  BY <1>1, <1>4 DEF QueueIInv, RanIsOut
<1>8. QueuedIsKept'
  <2> SUFFICES ASSUME NEW k \in Invokes, step'[k] \in QueuedSteps
               PROVE  \E j \in Invokes : /\ key[j] = key[k]
                                         /\ j \in Entries(queue') \/ ran[j] > 0 \/ j \in dropped'
    BY DEF QueuedIsKept, QueuedSteps
  <2>1. CASE k = i
    <3>1. Entries(queue') \subseteq Invokes
      BY <1>1 DEF Entries
    <3> QED
      BY <2>1, <1>1, <3>1
  <2>2. CASE k # i
    <3>1. PICK j \in Invokes : key[j] = key[k] /\ (j \in Entries(queue) \/ ran[j] > 0 \/ j \in dropped)
      BY <2>2, <1>3 DEF QueueIInv, QueuedIsKept, QueuedSteps
    <3> QED
      BY <1>1, <3>1
  <2> QED
    BY <2>1, <2>2
<1>9. OnlyQueuedRuns'
  <2> SUFFICES ASSUME NEW k \in Invokes, k \in Entries(queue') \union Entries(todo) \/ ran[k] > 0
               PROVE  step'[k] \in QueuedSteps
    BY DEF OnlyQueuedRuns, QueuedSteps
  <2>1. CASE k = i
    BY <2>1, <1>3
  <2>2. CASE k # i
    BY <2>2, <1>1, <1>3 DEF QueueIInv, OnlyQueuedRuns, QueuedSteps
  <2> QED
    BY <2>1, <2>2
<1> QED
  BY <1>1, <1>5, <1>6, <1>7, <1>8, <1>9 DEF QueueIInv

\* A result queues its action, or leaves the queue alone.
LEMMA ResultQueue ==
  ASSUME QueueIInv, Types, NEW i \in Invokes, ResultArrives(i)
  PROVE  QueueIInv'
<1>1. /\ UNCHANGED << key, wokeLately, background, todo, acking, ran, ackFailed >>
      /\ wire' = [wire EXCEPT ![i] = "none"]
  BY DEF ResultArrives, app
<1>2. wire' \in [Invokes -> {"none", "request", "ok", "refused"}]
  BY <1>1 DEF QueueIInv, QueueTypes
<1>3. wokeLately' \in BOOLEAN /\ background' \in BOOLEAN
  BY <1>1 DEF QueueIInv, QueueTypes
<1>4. CASE step' = step /\ UNCHANGED << queue, dropped >>
  BY <1>1, <1>2, <1>3, <1>4, QueueAlone
<1>5. CASE step[i] = "pending" /\ step' = [step EXCEPT ![i] = "ok"] /\ UNCHANGED << queue, dropped >>
  <2>1. \A j \in Invokes : step'[j] \in QueuedSteps <=> step[j] \in QueuedSteps
    BY <1>5 DEF Types, QueuedSteps
  <2> QED
    BY <1>1, <1>2, <1>3, <1>5, <2>1, QueueAlone
<1>6. CASE /\ step[i] = "pending" /\ EnqueueAction(i)
           /\ step' = [step EXCEPT ![i] = IF Throttled THEN "queued" ELSE "queueing"]
  <2>1. \E s \in QueuedSteps : step' = [step EXCEPT ![i] = s]
    BY <1>6 DEF QueuedSteps
  <2> QED
    BY <1>1, <1>2, <1>6, <2>1, EnqueueQueue
<1> QED
  BY <1>4, <1>5, <1>6 DEF ResultArrives

\* A step that takes actions out of the queue, and from the app, keeps what the callers
\* count on if what leaves the queue has run or is dropped.
LEMMA QueueShrinks ==
  ASSUME QueueIInv, QueueTypes', UNCHANGED << key, step >>, OnePerKey(queue)', OnePerKey(todo)',
         AckedHasRun', RanIsOut', QueuedRunsOnce',
         Entries(queue)' \subseteq Entries(queue),
         Entries(todo)' \subseteq Entries(queue) \union Entries(todo),
         \A i \in Entries(queue) : i \in Entries(queue)' \/ ran'[i] > 0 \/ i \in dropped',
         \A i \in Invokes : ran'[i] > 0 => ran[i] > 0 \/ i \in Entries(todo),
         \A i \in Invokes : ran[i] > 0 => ran'[i] > 0,
         dropped \subseteq dropped'
  PROVE  QueueIInv'
<1>1. QueuedIsKept'
  <2> SUFFICES ASSUME NEW k \in Invokes, step[k] \in {"queueing", "queued"}
               PROVE  \E j \in Invokes : /\ key[j] = key[k]
                                         /\ j \in Entries(queue)' \/ ran'[j] > 0 \/ j \in dropped'
    BY DEF QueuedIsKept
  <2>1. PICK j \in Invokes : key[j] = key[k] /\ (j \in Entries(queue) \/ ran[j] > 0 \/ j \in dropped)
    BY DEF QueueIInv, QueuedIsKept
  <2> QED
    BY <2>1
<1>2. OnlyQueuedRuns'
  BY DEF QueueIInv, OnlyQueuedRuns
<1> QED
  BY <1>1, <1>2 DEF QueueIInv

\* What expires is dropped.
LEMMA ExpireQueue ==
  ASSUME QueueIInv, Expire
  PROVE  QueueIInv'
<1>1. /\ queue # << >> /\ queue' = Tail(queue) /\ dropped' = dropped \union {Head(queue)}
      /\ UNCHANGED << key, wokeLately, step, wire, background, todo, acking, ran, ackFailed >>
  BY DEF Expire, app
<1>2. /\ Head(queue) \in Invokes /\ Tail(queue) \in Seq(Invokes) /\ Len(Tail(queue)) = Len(queue) - 1
      /\ Entries(queue) = {Head(queue)} \union Entries(Tail(queue)) /\ OnePerKey(Tail(queue))
  BY <1>1, TailEntries DEF QueueIInv, QueueTypes
<1>3. QueueTypes'
  <2>1. Len(queue) \in Nat /\ Len(queue) <= MaxPending /\ MaxPending \in Nat
    BY NodeConstants DEF QueueIInv, QueueTypes
  <2>2. Len(queue') <= MaxPending
    BY <1>1, <1>2, <2>1
  <2> QED
    BY <1>1, <1>2, <2>2 DEF QueueIInv, QueueTypes
<1>4. OnePerKey(queue)' /\ OnePerKey(todo)'
  BY <1>1, <1>2 DEF QueueIInv, OnePerKey
<1>5. AckedHasRun' /\ RanIsOut' /\ QueuedRunsOnce'
  BY <1>1, <1>2 DEF QueueIInv, AckedHasRun, RanIsOut, QueuedRunsOnce
<1>6. Entries(queue)' = Entries(Tail(queue)) /\ Entries(todo)' = Entries(todo)
  BY <1>1 DEF Entries
<1> QED
  BY <1>1, <1>2, <1>3, <1>4, <1>5, <1>6, QueueShrinks

\* A pull gives the app actions that are in the queue, of which none has run; what it
\* takes out is dropped.
LEMMA PullQueue ==
  ASSUME QueueIInv, NEW c \in Conns, Pull(c)
  PROVE  QueueIInv'
<1> DEFINE S == {i \in Invokes : Allowed(i, c)}
           actions == Filtered(queue, S)
<1>1. /\ todo = << >> /\ queue' = actions /\ todo' \in {actions, << >>}
      /\ dropped' = dropped \union (Entries(queue) \ Entries(actions))
      /\ UNCHANGED << key, wokeLately, step, wire, background, acking, ran, ackFailed >>
  BY DEF Pull
<1>2. /\ queue \in Seq(Invokes) /\ Len(queue) \in Nat /\ Len(queue) <= MaxPending
      /\ OnePerKey(queue) /\ MaxPending \in Nat /\ dropped \subseteq Invokes
  BY NodeConstants DEF QueueIInv, QueueTypes
<1>3. /\ actions \in Seq(Invokes) /\ Len(actions) <= Len(queue)
      /\ Entries(actions) \subseteq Entries(queue) /\ OnePerKey(actions)
  <2>1. actions \in Seq(Invokes \cap S) /\ Len(actions) <= Len(queue)
    BY <1>2, FilteredPicks
  <2>2. Entries(actions) = Entries(queue) \cap S
    BY <1>2, FilteredEntries
  <2>3. OnePerKey(actions)
    BY <1>2, FilteredKeys
  <2> HIDE DEF actions, S
  <2> QED
    BY <2>1, <2>2, <2>3
<1> HIDE DEF actions, S
<1>4. OnePerKey(<< >>) /\ Entries(<< >>) = {} /\ << >> \in Seq(Invokes)
  BY DEF OnePerKey, Entries
<1>5. /\ Entries(queue)' = Entries(actions) /\ Entries(todo)' \subseteq Entries(actions)
      /\ OnePerKey(queue)' /\ OnePerKey(todo)'
  BY <1>1, <1>3, <1>4 DEF OnePerKey, Entries
<1>6. Len(actions) \in Nat /\ Len(actions) <= MaxPending
  BY <1>2, <1>3
<1>7. Entries(queue) \subseteq Invokes
  BY <1>2 DEF Entries
<1>8. QueueTypes'
  BY <1>1, <1>3, <1>4, <1>6, <1>7 DEF QueueIInv, QueueTypes
<1>9. ~acking
  BY <1>1 DEF QueueIInv, AckedHasRun
<1>10. AckedHasRun' /\ QueuedRunsOnce'
  BY <1>1, <1>9 DEF QueueIInv, AckedHasRun, QueuedRunsOnce
<1>11. RanIsOut'
  BY <1>1, <1>3, <1>5, <1>9 DEF QueueIInv, RanIsOut
<1> QED
  BY <1>1, <1>3, <1>5, <1>8, <1>10, <1>11, QueueShrinks

\* The app runs the head of what it pulled: an action that has not run, or whose last
\* acknowledgement failed.
LEMMA ReplayQueue ==
  ASSUME QueueIInv, Replay
  PROVE  QueueIInv'
<1> DEFINE h == Head(todo)
<1>1. /\ todo # << >> /\ ~acking /\ acking' = TRUE
      /\ ran' = [ran EXCEPT ![h] = @ + 1]
      /\ UNCHANGED << key, wokeLately, step, wire, queue, background, todo, ackFailed, dropped >>
  BY DEF Replay
<1>2. h \in Invokes /\ h \in Entries(todo)
  BY <1>1, TailEntries DEF QueueIInv, QueueTypes
<1> HIDE DEF h
<1>3. /\ ran \in [Invokes -> Nat] /\ ran' \in [Invokes -> Nat]
      /\ ran'[h] = ran[h] + 1 /\ \A i \in Invokes \ {h} : ran'[i] = ran[i]
  BY <1>1, <1>2 DEF QueueIInv, QueueTypes
<1>4. QueueTypes'
  BY <1>1, <1>3 DEF QueueIInv, QueueTypes
<1>5. OnePerKey(queue)' /\ OnePerKey(todo)'
  BY <1>1 DEF QueueIInv, OnePerKey
<1>6. ran'[h] > 0 /\ \A i \in Invokes : ran[i] > 0 => ran'[i] > 0
  <2>1. ran[h] \in Nat /\ ran'[h] > 0
    BY <1>2, <1>3
  <2> QED
    BY <2>1, <1>3
<1>7. AckedHasRun'
  BY <1>1, <1>6 DEF AckedHasRun, h
<1>8. RanIsOut'
  <2> SUFFICES ASSUME NEW i \in Invokes, ran'[i] > 0, i \notin ackFailed, i # h
               PROVE  i \notin Entries(queue) \union Entries(todo)
    BY <1>1 DEF RanIsOut, h
  <2> QED
    BY <1>1, <1>3 DEF QueueIInv, RanIsOut
<1>9. QueuedRunsOnce'
  <2> SUFFICES ASSUME NEW i \in Invokes, ran'[i] > 1 PROVE i \in ackFailed
    BY <1>1 DEF QueuedRunsOnce
  <2>1. CASE i = h
    <3>1. ran[h] > 0
      BY <2>1, <1>2, <1>3
    <3> QED
      BY <2>1, <3>1, <1>1, <1>2 DEF QueueIInv, RanIsOut
  <2>2. CASE i # h
    BY <2>2, <1>3 DEF QueueIInv, QueuedRunsOnce
  <2> QED
    BY <2>1, <2>2
<1>10. Entries(queue)' = Entries(queue) /\ Entries(todo)' = Entries(todo)
  BY <1>1
<1>11. \A i \in Invokes : ran'[i] > 0 => ran[i] > 0 \/ i \in Entries(todo)
  BY <1>2, <1>3
<1> QED
  BY <1>1, <1>4, <1>5, <1>6, <1>7, <1>8, <1>9, <1>10, <1>11, QueueShrinks

\* A replay that stops leaves its actions in the queue, where there are.
LEMMA StopQueue ==
  ASSUME QueueIInv, ReplayStops
  PROVE  QueueIInv'
<1>1. /\ ~acking /\ todo' = << >>
      /\ UNCHANGED << key, wokeLately, step, wire, queue, background, acking, ran, ackFailed, dropped >>
  BY DEF ReplayStops
<1>2. OnePerKey(<< >>) /\ Entries(<< >>) = {} /\ << >> \in Seq(Invokes)
  BY DEF OnePerKey, Entries
<1>3. QueueTypes' /\ OnePerKey(queue)' /\ OnePerKey(todo)'
  BY <1>1, <1>2 DEF QueueIInv, QueueTypes, OnePerKey
<1>4. Entries(queue)' = Entries(queue) /\ Entries(todo)' = {}
  BY <1>1, <1>2
<1>5. AckedHasRun' /\ RanIsOut' /\ QueuedRunsOnce'
  BY <1>1, <1>4 DEF QueueIInv, AckedHasRun, RanIsOut, QueuedRunsOnce
<1> QED
  BY <1>1, <1>3, <1>4, <1>5, QueueShrinks

\* The queue without an action.
LEMMA Unqueued ==
  ASSUME QueueIInv, NEW i \in Invokes
  PROVE  /\ Unqueue(i) \in Seq(Invokes) /\ Len(Unqueue(i)) \in Nat /\ Len(Unqueue(i)) <= MaxPending
         /\ Entries(Unqueue(i)) = Entries(queue) \ {i} /\ OnePerKey(Unqueue(i))
<1>1. /\ queue \in Seq(Invokes) /\ Len(queue) \in Nat /\ Len(queue) <= MaxPending
      /\ OnePerKey(queue) /\ MaxPending \in Nat
  BY NodeConstants DEF QueueIInv, QueueTypes
<1> DEFINE left == Filtered(queue, Invokes \ {i})
<1>2. left \in Seq(Invokes \cap (Invokes \ {i})) /\ Len(left) <= Len(queue)
  BY <1>1, FilteredPicks
<1>3. Entries(left) = Entries(queue) \cap (Invokes \ {i})
  BY <1>1, FilteredEntries
<1>4. OnePerKey(left)
  BY <1>1, FilteredKeys
<1>5. Unqueue(i) = left
  BY DEF Unqueue
<1>6. Entries(queue) \subseteq Invokes
  BY <1>1 DEF Entries
<1> HIDE DEF left
<1>7. left \in Seq(Invokes) /\ Len(left) \in Nat
  BY <1>2
<1> QED
  BY <1>1, <1>2, <1>3, <1>4, <1>5, <1>6, <1>7

\* An acknowledged action has run: it leaves the queue and the replay for good.
LEMMA AckQueue ==
  ASSUME QueueIInv, NEW c \in Conns, Ack(c)
  PROVE  QueueIInv'
<1> DEFINE h == Head(todo)
<1>1. /\ acking /\ acking' = FALSE /\ todo' = Tail(todo) /\ queue' = Unqueue(h)
      /\ UNCHANGED << key, wokeLately, step, wire, background, ran, ackFailed, dropped >>
  BY DEF Ack
<1>2. todo # << >> /\ ran[h] > 0
  BY <1>1 DEF QueueIInv, AckedHasRun
<1>3. /\ h \in Invokes /\ Tail(todo) \in Seq(Invokes)
      /\ Entries(todo) = {h} \union Entries(Tail(todo))
      /\ OnePerKey(Tail(todo)) /\ h \notin Entries(Tail(todo))
  BY <1>2, TailEntries DEF QueueIInv, QueueTypes
<1>4. /\ Unqueue(h) \in Seq(Invokes) /\ Len(Unqueue(h)) \in Nat /\ Len(Unqueue(h)) <= MaxPending
      /\ Entries(Unqueue(h)) = Entries(queue) \ {h} /\ OnePerKey(Unqueue(h))
  BY <1>3, Unqueued
<1> HIDE DEF h
<1>5. /\ OnePerKey(queue)' /\ OnePerKey(todo)'
      /\ Entries(queue)' = Entries(queue) \ {h} /\ Entries(todo)' = Entries(todo) \ {h}
  <2>1. OnePerKey(queue)' /\ OnePerKey(todo)'
    BY <1>1, <1>3, <1>4 DEF OnePerKey
  <2>2. Entries(queue)' = Entries(Unqueue(h)) /\ Entries(todo)' = Entries(Tail(todo))
    BY <1>1 DEF Entries
  <2> QED
    BY <1>3, <1>4, <2>1, <2>2
<1>6. QueueTypes'
  BY <1>1, <1>3, <1>4 DEF QueueIInv, QueueTypes
<1>7. AckedHasRun' /\ QueuedRunsOnce'
  BY <1>1 DEF QueueIInv, AckedHasRun, QueuedRunsOnce
<1>8. RanIsOut'
  <2> SUFFICES ASSUME NEW i \in Invokes, ran[i] > 0, i \notin ackFailed, i # h
               PROVE  i \notin Entries(queue) \union Entries(todo)
    BY <1>1, <1>5 DEF RanIsOut
  <2> QED
    BY <1>1 DEF QueueIInv, RanIsOut, h
<1> QED
  BY <1>1, <1>2, <1>5, <1>6, <1>7, <1>8, QueueShrinks

\* When the acknowledgement fails, the action has run, and may be in the queue still.
LEMMA AckFailsQueue ==
  ASSUME QueueIInv, AckFails
  PROVE  QueueIInv'
<1> DEFINE h == Head(todo)
<1>1. /\ acking /\ acking' = FALSE /\ todo' = << >> /\ queue' \in {queue, Unqueue(h)}
      /\ ackFailed' = ackFailed \union {h}
      /\ UNCHANGED << key, wokeLately, step, wire, background, ran, dropped >>
  BY DEF AckFails
<1>2. ran[h] > 0 /\ h \in Invokes
  BY <1>1, TailEntries DEF QueueIInv, QueueTypes, AckedHasRun
<1>3. /\ Unqueue(h) \in Seq(Invokes) /\ Len(Unqueue(h)) <= MaxPending
      /\ Entries(Unqueue(h)) = Entries(queue) \ {h} /\ OnePerKey(Unqueue(h))
  BY <1>2, Unqueued
<1>4. OnePerKey(<< >>) /\ Entries(<< >>) = {} /\ << >> \in Seq(Invokes)
  BY DEF OnePerKey, Entries
<1>5. OnePerKey(queue)' /\ OnePerKey(todo)' /\ Entries(todo)' = {}
  BY <1>1, <1>3, <1>4 DEF QueueIInv, OnePerKey
<1>6. Entries(queue) \ {h} \subseteq Entries(queue)' /\ Entries(queue)' \subseteq Entries(queue)
  BY <1>1, <1>3
<1>7. QueueTypes'
  BY <1>1, <1>2, <1>3, <1>4 DEF QueueIInv, QueueTypes
<1>8. AckedHasRun' /\ QueuedRunsOnce'
  BY <1>1 DEF QueueIInv, AckedHasRun, QueuedRunsOnce
<1>9. RanIsOut'
  BY <1>1, <1>5, <1>6 DEF QueueIInv, RanIsOut
<1> QED
  BY <1>1, <1>2, <1>5, <1>6, <1>7, <1>8, <1>9, QueueShrinks

\* Every step preserves the invariant.
LEMMA QueueNextInv == Types /\ QueueIInv /\ [NodeNext]_nodeVars => QueueIInv'
<1> SUFFICES ASSUME Types, QueueIInv, [NodeNext]_nodeVars PROVE QueueIInv'
  OBVIOUS
<1>1. ASSUME NEW i \in Invokes, InvokeSteps(i) PROVE QueueIInv'
  BY <1>1, CallerQueue, ResultQueue, OtherQueue DEF InvokeSteps
<1>2. ASSUME NEW c \in Conns, ConnSteps(c) PROVE QueueIInv'
  BY <1>2, CloseQueue, PullQueue, AckQueue, OtherQueue DEF ConnSteps
<1>3. CASE WakeEnds
  BY <1>3, WakeQueue
<1>4. CASE Expire
  BY <1>4, ExpireQueue
<1>5. CASE Replay \/ ReplayStops \/ AckFails
  BY <1>5, ReplayQueue, StopQueue, AckFailsQueue
<1>6. CASE ThrottleEnds \/ SetScenePhase \/ UNCHANGED nodeVars
  BY <1>6, OtherQueue
<1> QED
  BY <1>1, <1>2, <1>3, <1>4, <1>5, <1>6 DEF NodeNext

\* Every reachable state satisfies the invariant.
LEMMA QueueInvariant == NodeSpec => []QueueIInv
<1>1. NodeInit => QueueIInv
  BY QueueInitInv
<1>2. NodeIInv => Types
  BY DEF NodeIInv
<1>3. Types /\ QueueIInv /\ [NodeNext]_nodeVars => QueueIInv'
  BY QueueNextInv
<1> QED
  BY <1>1, <1>2, <1>3, NodeInvariant, PTL DEF NodeSpec

\* Every variable has its type.  The queue never has more than the cap.
THEOREM NodeTypeCorrect == NodeSpec => []NodeTypeOK
<1>1. NodeIInv /\ QueueIInv => NodeTypeOK
  BY DEF NodeIInv, Types, QueueIInv, QueueTypes, NodeTypeOK
<1> QED
  BY <1>1, NodeInvariant, QueueInvariant, PTL

\* For whoever was told "queued", an action of its key is in the queue, was run, or was
\* dropped on purpose; it is run twice only after its acknowledgement failed; and
\* nothing is queued or run for anybody else.
THEOREM QueuedRuns == NodeSpec => []QueuedMeansRunOnce
<1>1. QueueIInv => QueuedMeansRunOnce
  BY DEF QueueIInv, QueuedMeansRunOnce
<1> QED
  BY <1>1, QueueInvariant, PTL
=============================================================================
