------------------------- MODULE CubinReplayProofs -------------------------
(***************************************************************************)
(* Theorems about CubinReplay, for all sets of threads, modules and        *)
(* consumers.                                                              *)
(***************************************************************************)
EXTENDS CubinReplay, FiniteSetTheorems, TLAPS

USE CubinAssumption, NoModuleAssumption, TimeAssumption

-----------------------------------------------------------------------------
(* A loader in a callback has a module, and counts down from 2 or more.    *)
LoaderOK ==
  \A l \in Loaders :
    /\ loader[l].pc # "idle" => loader[l].module \in Modules
    /\ loader[l].pc = "countDown" => loader[l].count > 1

TypeInv == TypeOK /\ LoaderOK

(* What a loader's state says of the cubin it is about. *)
LEMMA CrcType ==
  ASSUME TypeInv, NEW l \in Loaders, loader[l].pc # "idle"
  PROVE  Crc(l) \in Crcs
  BY DEF TypeInv, TypeOK, LoaderOK, Crc

(* The map of reference counts with one count set. *)
LEMMA WithCountType ==
  ASSUME TypeInv, NEW c \in Crcs, NEW n \in Nat
  PROVE  /\ DOMAIN WithCount(c, n) = DOMAIN refs \cup {c}
         /\ DOMAIN WithCount(c, n) \subseteq Crcs
         /\ WithCount(c, n) \in [DOMAIN WithCount(c, n) -> Nat]
         /\ \A x \in DOMAIN refs \cup {c} :
              WithCount(c, n)[x] = IF x = c THEN n ELSE refs[x]
  BY DEF WithCount, TypeInv, TypeOK

(* A count is a number, 0 where there is no entry. *)
LEMMA CountType ==
  ASSUME TypeInv, NEW c PROVE Count(c) \in Nat
  BY DEF Count, TypeInv, TypeOK

(* What a loader leaves behind when its callback is over. *)
LEMMA ReturnsType ==
  ASSUME TypeInv, NEW l \in Loaders, Returns(l)
  PROVE  /\ loader' \in [Loaders -> LoaderState]
         /\ LoaderOK'
         /\ loader'[l].pc = "idle"
         /\ \A x \in Loaders \ {l} : loader'[x] = loader[x]
  <1>1. IdleLoader \in LoaderState /\ IdleLoader.pc = "idle"
    BY DEF IdleLoader, LoaderState, LoaderPCs, Lags
  <1>2. QED
    BY <1>1 DEF Returns, LoaderOK, TypeInv, TypeOK

(* What a loader's step to its next line does to the loaders. *)
LEMMA MovesType ==
  ASSUME TypeInv, NEW l \in Loaders, NEW from, NEW to \in LoaderPCs, Moves(l, from, to),
         from # "idle", to # "countDown"
  PROVE  /\ loader' \in [Loaders -> LoaderState]
         /\ LoaderOK'
         /\ loader'[l] = [loader[l] EXCEPT !.pc = to]
         /\ \A x \in Loaders \ {l} : loader'[x] = loader[x]
  <1>1. loader[l] \in LoaderState /\ loader[l].pc # "idle"
    BY DEF TypeInv, TypeOK, Moves
  <1>2. [loader[l] EXCEPT !.pc = to] \in LoaderState
    BY <1>1 DEF LoaderState
  <1>3. loader' = [loader EXCEPT ![l] = [loader[l] EXCEPT !.pc = to]]
    BY DEF Moves
  <1>4. /\ loader'[l] = [loader[l] EXCEPT !.pc = to]
        /\ \A x \in Loaders \ {l} : loader'[x] = loader[x]
        /\ loader' \in [Loaders -> LoaderState]
    BY <1>2, <1>3 DEF TypeInv, TypeOK
  <1>5. LoaderOK'
    <2>1. loader'[l].pc = to /\ loader'[l].module = loader[l].module
      BY <1>1, <1>4 DEF LoaderState
    <2>2. loader[l].module \in Modules
      BY <1>1 DEF TypeInv, LoaderOK
    <2>3. QED
      BY <1>4, <2>1, <2>2 DEF LoaderOK, TypeInv
  <1>6. QED
    BY <1>4, <1>5

(* A callback of the program keeps the types. *)
LEMMA EmitStepType ==
  ASSUME TypeInv, ConsumerAssumption, NEW t \in Callers, EmitStep(t)
  PROVE  TypeInv'
  <1>1. caller \in [Callers -> CallerState] /\ caller[t] \in CallerState
    BY DEF TypeInv, TypeOK
  <1>2. ASSUME NEW pc \in CallerPCs, Goes(t, pc)
        PROVE  caller' \in [Callers -> CallerState]
    <2>1. [caller[t] EXCEPT !.pc = pc] \in CallerState
      BY <1>1 DEF CallerState
    <2>2. caller' = [caller EXCEPT ![t] = [caller[t] EXCEPT !.pc = pc]]
      BY <1>2 DEF Goes
    <2>3. QED
      BY <1>1, <2>1, <2>2
  <1>3. CASE EmitMetadata(t)
    <2>1. caller' \in [Callers -> CallerState]
      BY <1>2, <1>3 DEF EmitMetadata, CallerPCs
    <2>2. QED
      BY <1>3, <2>1 DEF EmitMetadata, TypeInv, TypeOK, LoaderOK, world, counts, shared
  <1>4. CASE CheckRefresh(t)
    <2> DEFINE refresh == MoreThanAPeriod(lastRefresh, caller[t].lag)
               to == IF refresh THEN "storeRefresh" ELSE "readSem"
    <2>1. refresh \in BOOLEAN /\ to \in CallerPCs
      BY DEF MoreThanAPeriod, CallerPCs
    <2>2. [caller[t] EXCEPT !.refresh = refresh, !.pc = to] \in CallerState
      BY <1>1, <2>1 DEF CallerState
    <2>3. caller' = [caller EXCEPT ![t] = [caller[t] EXCEPT !.refresh = refresh, !.pc = to]]
      BY <1>4 DEF CheckRefresh
    <2>4. caller' \in [Callers -> CallerState]
      BY <1>1, <2>2, <2>3
    <2>5. QED
      BY <1>4, <2>4 DEF CheckRefresh, TypeInv, TypeOK, LoaderOK, world, counts, shared
  <1>5. CASE StoreRefresh(t)
    <2>1. caller' \in [Callers -> CallerState]
      BY <1>2, <1>5 DEF StoreRefresh, CallerPCs
    <2>2. lastRefresh' \in Ages
      BY <1>1, <1>5 DEF StoreRefresh, CallerState, Lags, Ages, Old
    <2>3. QED
      BY <1>5, <2>1, <2>2 DEF StoreRefresh, TypeInv, TypeOK, LoaderOK, world, counts
  <1>6. CASE ReadSem(t)
    <2>1. Cardinality(attached) \in Nat
      BY ConsumerAssumption, FS_Subset, FS_CardinalityType DEF TypeInv, TypeOK
    <2>2. [caller[t] EXCEPT !.pc = "exchange", !.sem = Cardinality(attached)] \in CallerState
      BY <1>1, <2>1 DEF CallerState, CallerPCs
    <2>3. caller' = [caller EXCEPT ![t] =
                       [caller[t] EXCEPT !.pc = "exchange", !.sem = Cardinality(attached)]]
      BY <1>6 DEF ReadSem
    <2>4. caller' \in [Callers -> CallerState]
      BY <1>1, <2>2, <2>3
    <2>5. QED
      BY <1>6, <2>4 DEF ReadSem, TypeInv, TypeOK, LoaderOK, world, counts, shared
  <1>7. CASE Exchange(t)
    <2> DEFINE join == caller[t].sem > prevCubinSem
    <2>1. join \in BOOLEAN /\ IdleCaller \in CallerState
      BY DEF IdleCaller, CallerState, CallerPCs, Lags
    <2>2. [IdleCaller EXCEPT !.pc = "replay", !.lag = caller[t].lag, !.join = join]
            \in CallerState
      BY <1>1, <2>1 DEF CallerState, CallerPCs
    <2>3. caller' \in [Callers -> CallerState]
      <3> HIDE DEF join
      <3>1. ReplaysOrReturns(t, join)
        BY <1>7 DEF Exchange, join
      <3>2. QED
        BY <1>1, <2>1, <2>2, <3>1 DEF ReplaysOrReturns
    <2>4. prevCubinSem' \in Nat
      BY <1>1, <1>7 DEF Exchange, CallerState
    <2>5. QED
      BY <1>7, <2>3, <2>4 DEF Exchange, TypeInv, TypeOK, LoaderOK, world, counts
  <1>8. CASE Replay(t)
    <2>1. caller' \in [Callers -> CallerState]
      BY <1>1, <1>8 DEF Replay, IdleCaller, CallerState, CallerPCs, Lags
    <2>2. Due(t) \subseteq CubinRef
      BY DEF Due, TypeInv, TypeOK
    <2>3. loadedCubins' \subseteq CubinRef
      <3>1. caller[t].lag \in Ages
        BY <1>1 DEF CallerState, Lags, Ages, Old
      <3>2. QED
        BY <1>8, <2>2, <3>1 DEF Replay, CubinRef, TypeInv, TypeOK
    <2>4. known' \in [Consumers -> SUBSET Crcs]
      BY <1>8, <2>2 DEF Replay, Told, CubinRef, TypeInv, TypeOK
    <2>5. QED
      BY <1>8, <2>1, <2>3, <2>4 DEF Replay, TypeInv, TypeOK, LoaderOK, counts
  <1>9. QED
    BY <1>3, <1>4, <1>5, <1>6, <1>7, <1>8 DEF EmitStep

(* So does a module callback, as it begins. *)
LEMMA CallbackType ==
  ASSUME TypeInv, NEW l \in Loaders, NEW m \in Modules,
         LoadModule(l, m) \/ UnloadModule(l, m)
  PROVE  TypeInv'
  <1>1. loader \in [Loaders -> LoaderState] /\ loader[l] \in LoaderState
    BY DEF TypeInv, TypeOK
  <1>2. ASSUME NEW pc \in LoaderPCs \ {"countDown"},
               loader' = [loader EXCEPT ![l].pc = pc, ![l].module = m]
        PROVE  loader' \in [Loaders -> LoaderState] /\ LoaderOK'
    <2>1. [loader[l] EXCEPT !.pc = pc, !.module = m] \in LoaderState
      BY <1>1 DEF LoaderState
    <2>2. loader' = [loader EXCEPT ![l] = [loader[l] EXCEPT !.pc = pc, !.module = m]]
      BY <1>2
    <2>3. /\ loader'[l].pc = pc /\ loader'[l].module = m
          /\ \A x \in Loaders \ {l} : loader'[x] = loader[x]
          /\ loader' \in [Loaders -> LoaderState]
      BY <1>1, <2>1, <2>2 DEF LoaderState
    <2>4. QED
      BY <2>3 DEF LoaderOK, TypeInv
  <1>3. CASE LoadModule(l, m)
    <2>1. loader' \in [Loaders -> LoaderState] /\ LoaderOK'
      BY <1>2, <1>3 DEF LoadModule, LoaderPCs
    <2>2. QED
      BY <1>3, <2>1 DEF LoadModule, TypeInv, TypeOK, world, counts, emission
  <1>4. CASE UnloadModule(l, m)
    <2>1. loader' \in [Loaders -> LoaderState] /\ LoaderOK'
      <3>1. CASE CrcOf[m] \in DOMAIN refs
        BY <1>2, <1>4, <3>1 DEF UnloadModule, LoaderPCs
      <3>2. CASE CrcOf[m] \notin DOMAIN refs
        BY <1>1, <1>4, <3>2 DEF UnloadModule, TypeInv, LoaderOK
      <3>3. QED
        BY <3>1, <3>2
    <2>2. QED
      BY <1>4, <2>1 DEF UnloadModule, TypeInv, TypeOK, world, emission
  <1>5. QED
    BY <1>3, <1>4

(* And so does each of its lines. *)
LEMMA LoadStepType ==
  ASSUME TypeInv, NEW l \in Loaders, LoadStep(l)
  PROVE  TypeInv'
  <1>1. loader \in [Loaders -> LoaderState] /\ loader[l] \in LoaderState
    BY DEF TypeInv, TypeOK
  <1>2. loader[l].pc # "idle" /\ Crc(l) \in Crcs /\ loader[l].module \in Modules
    <2>1. loader[l].pc # "idle"
      BY DEF LoadStep, CountUp, CountStore, NewEntry, SetOne, FireCubinLoaded, Push,
             ReadCount, CountDown, Erase, FireCubinUnloaded, Drop, Moves
    <2>2. QED
      BY <2>1, CrcType DEF TypeInv, LoaderOK
  <1>3. ASSUME NEW n \in Nat, refs' = WithCount(Crc(l), n)
        PROVE  DOMAIN refs' \subseteq Crcs /\ refs' \in [DOMAIN refs' -> Nat]
    BY <1>2, <1>3, WithCountType
  <1>4. Count(Crc(l)) \in Nat /\ loader[l].count \in Nat /\ loader[l].lag \in Lags
    BY <1>1, CountType DEF LoaderState
  <1>5. ASSUME NEW pc \in LoaderPCs \ {"idle"},
               pc = "countDown" => Count(Crc(l)) > 1,
               loader' = [loader EXCEPT ![l].pc = pc, ![l].count = Count(Crc(l))]
        PROVE  loader' \in [Loaders -> LoaderState] /\ LoaderOK'
    <2>1. [loader[l] EXCEPT !.pc = pc, !.count = Count(Crc(l))] \in LoaderState
      BY <1>1, <1>4 DEF LoaderState
    <2>2. loader' = [loader EXCEPT ![l] =
                       [loader[l] EXCEPT !.pc = pc, !.count = Count(Crc(l))]]
      BY <1>5
    <2>3. /\ loader'[l].pc = pc /\ loader'[l].module = loader[l].module
          /\ loader'[l].count = Count(Crc(l))
          /\ \A x \in Loaders \ {l} : loader'[x] = loader[x]
          /\ loader' \in [Loaders -> LoaderState]
      BY <1>1, <2>1, <2>2 DEF LoaderState
    <2>4. QED
      BY <1>2, <1>5, <2>3 DEF LoaderOK, TypeInv
  <1>6. ASSUME NEW to \in LoaderPCs, NEW from, Moves(l, from, to), from # "idle",
               to # "countDown"
        PROVE  loader' \in [Loaders -> LoaderState] /\ LoaderOK'
    BY <1>6, MovesType
  <1>7. CASE CountUp(l)
    <2>1. loader' \in [Loaders -> LoaderState] /\ LoaderOK'
      <3> DEFINE pc == "countStore"
      <3>1. pc \in LoaderPCs \ {"idle"} /\ (pc = "countDown" => Count(Crc(l)) > 1)
        BY DEF LoaderPCs
      <3>2. loader' = [loader EXCEPT ![l].pc = pc, ![l].count = Count(Crc(l))]
        BY <1>7 DEF CountUp
      <3> HIDE DEF pc
      <3>3. QED
        BY <1>5, <3>1, <3>2
    <2>2. QED
      BY <1>3, <1>4, <1>7, <2>1 DEF CountUp, TypeInv, TypeOK, world, emission
  <1>8. CASE CountStore(l)
    <2>1. DOMAIN refs' \subseteq Crcs /\ refs' \in [DOMAIN refs' -> Nat]
      <3>1. CASE Crc(l) \in DOMAIN refs
        <4>1. loader[l].count + 1 \in Nat
          BY <1>4
        <4>2. QED
          BY <1>3, <1>8, <3>1, <4>1 DEF CountStore
      <3>2. CASE Crc(l) \notin DOMAIN refs
        BY <1>8, <3>2 DEF CountStore, TypeInv, TypeOK
      <3>3. QED
        BY <3>1, <3>2
    <2>2. QED
      BY <1>2, <1>8, <2>1, ReturnsType
      DEF CountStore, Loaded, TypeInv, TypeOK, world, emission
  <1>9. CASE NewEntry(l) \/ SetOne(l)
    <2>1. loader' \in [Loaders -> LoaderState] /\ LoaderOK'
      BY <1>6, <1>9 DEF NewEntry, SetOne, LoaderPCs
    <2>2. QED
      BY <1>3, <1>4, <1>9, <2>1 DEF NewEntry, SetOne, TypeInv, TypeOK, world, emission
  <1>10. CASE FireCubinLoaded(l)
    <2>1. loader' \in [Loaders -> LoaderState] /\ LoaderOK'
      BY <1>6, <1>10 DEF FireCubinLoaded, LoaderPCs
    <2>2. QED
      BY <1>2, <1>10, <2>1
      DEF FireCubinLoaded, Told, TypeInv, TypeOK, counts, emission
  <1>11. CASE Push(l)
    <2>1. [crc |-> Crc(l), age |-> loader[l].lag] \in CubinRef
      BY <1>2, <1>4 DEF CubinRef, Ages, Lags, Old
    <2>2. QED
      BY <1>2, <1>11, <2>1, ReturnsType
      DEF Push, Loaded, TypeInv, TypeOK, world, emission
  <1>12. CASE ReadCount(l)
    <2> DEFINE pc == IF Count(Crc(l)) > 1 THEN "countDown" ELSE "erase"
    <2>1. pc \in LoaderPCs \ {"idle"} /\ (pc = "countDown" => Count(Crc(l)) > 1)
      BY DEF LoaderPCs
    <2>2. loader' \in [Loaders -> LoaderState] /\ LoaderOK'
      BY <1>5, <1>12, <2>1 DEF ReadCount
    <2>3. QED
      BY <1>3, <1>4, <1>12, <2>2 DEF ReadCount, TypeInv, TypeOK, world, emission
  <1>13. CASE CountDown(l)
    <2>1. loader[l].count - 1 \in Nat
      BY <1>4, <1>13 DEF CountDown, TypeInv, LoaderOK
    <2>2. DOMAIN refs' \subseteq Crcs /\ refs' \in [DOMAIN refs' -> Nat]
      BY <1>3, <1>13, <2>1 DEF CountDown
    <2>3. QED
      BY <1>13, <2>2, ReturnsType DEF CountDown, TypeInv, TypeOK, world, emission
  <1>14. CASE Erase(l)
    <2>1. loader' \in [Loaders -> LoaderState] /\ LoaderOK'
      BY <1>6, <1>14 DEF Erase, LoaderPCs
    <2>2. QED
      BY <1>14, <2>1 DEF Erase, TypeInv, TypeOK, world, emission
  <1>15. CASE FireCubinUnloaded(l)
    <2>1. loader' \in [Loaders -> LoaderState] /\ LoaderOK'
      BY <1>6, <1>15 DEF FireCubinUnloaded, LoaderPCs
    <2>2. QED
      BY <1>15, <2>1 DEF FireCubinUnloaded, TypeInv, TypeOK, counts, emission
  <1>16. CASE Drop(l)
    BY <1>16, ReturnsType DEF Drop, TypeInv, TypeOK, world, counts, emission
  <1>17. QED
    BY <1>7, <1>8, <1>9, <1>10, <1>11, <1>12, <1>13, <1>14, <1>15, <1>16 DEF LoadStep

(* And consumers, and time. *)
LEMMA WorldType ==
  ASSUME TypeInv, (\E k \in Consumers : Attach(k) \/ Detach(k)) \/ Tick
  PROVE  TypeInv'
  <1>1. CASE \E k \in Consumers : Attach(k) \/ Detach(k)
    BY <1>1
    DEF Attach, Detach, TypeInv, TypeOK, LoaderOK, counts, emission
  <1>2. CASE Tick
    <2>1. ASSUME NEW a \in Ages PROVE Older(a) \in Ages
      BY <2>1 DEF Older, Ages, Old
    <2>2. lastRefresh' \in Ages
      BY <1>2, <2>1 DEF Tick, TypeInv, TypeOK
    <2>3. ASSUME NEW e \in CubinRef PROVE [e EXCEPT !.age = Older(@)] \in CubinRef
      BY <2>1, <2>3 DEF CubinRef
    <2>4. loadedCubins' \subseteq CubinRef
      BY <1>2, <2>3 DEF Tick, TypeInv, TypeOK
    <2>5. ASSUME NEW t \in Callers PROVE caller'[t] \in CallerState
      BY <1>2, <2>5 DEF Tick, TypeInv, TypeOK, CallerState, Lags
    <2>6. ASSUME NEW l \in Loaders
          PROVE  /\ loader'[l] \in LoaderState
                 /\ loader'[l].pc = loader[l].pc
                 /\ loader'[l].module = loader[l].module
                 /\ loader'[l].count = loader[l].count
      BY <1>2, <2>6 DEF Tick, TypeInv, TypeOK, LoaderState, Lags
    <2>7. caller' \in [Callers -> CallerState] /\ loader' \in [Loaders -> LoaderState]
      BY <1>2, <2>5, <2>6 DEF Tick
    <2>8. LoaderOK'
      BY <2>6 DEF LoaderOK, TypeInv
    <2>9. QED
      BY <1>2, <2>2, <2>4, <2>7, <2>8 DEF Tick, TypeInv, TypeOK, world, counts
  <1>3. QED
    BY <1>1, <1>2

(* The types, and what they rest on. *)
LEMMA TypeInvariant == ConsumerAssumption => (Spec => []TypeInv)
  <1> SUFFICES ASSUME ConsumerAssumption PROVE Spec => []TypeInv
    OBVIOUS
  <1>1. Init => TypeInv
    <2>1. IdleCaller \in CallerState /\ IdleLoader \in LoaderState
          /\ IdleLoader.pc = "idle"
      BY DEF IdleCaller, CallerState, CallerPCs, IdleLoader, LoaderState, LoaderPCs, Lags
    <2>2. QED
      BY <2>1 DEF Init, TypeInv, TypeOK, LoaderOK, Ages, Old
  <1>2. TypeInv /\ [Next]_vars => TypeInv'
    <2> SUFFICES ASSUME TypeInv, [Next]_vars PROVE TypeInv'
      OBVIOUS
    <2>1. CASE UNCHANGED vars
      BY <2>1 DEF vars, world, counts, emission, TypeInv, TypeOK, LoaderOK
    <2>2. CASE Next
      BY <2>2, EmitStepType, LoadStepType, CallbackType, WorldType DEF Next
    <2>3. QED
      BY <2>1, <2>2
  <1>3. QED
    BY <1>1, <1>2, PTL DEF Spec

(* For any number of threads, modules and consumers: counts are never      *)
(* negative, however two loaders' read-modify-writes interleave, nothing is*)
(* listed or told that is not a cubin, and ages stay within their cap.     *)
THEOREM TypeCorrect == Spec => []TypeOK
  <1>1. TypeInv => TypeOK
    BY DEF TypeInv
  <1>2. QED
    BY <1>1, ConsumerAssumption, TypeInvariant, PTL

-----------------------------------------------------------------------------
(***************************************************************************)
(* Module callbacks, one at a time for each cubin.                         *)
(***************************************************************************)

Of(c) == {m \in loaded : CrcOf[m] = c}
References(c) == Cardinality(Of(c))
Listed(c) == \E e \in loadedCubins : e.crc = c

ListedOnce == \A e, f \in loadedCubins : e.crc = f.crc => e = f

(* Between callbacks map and list say of a cubin what is loaded of it.     *)
Agrees(c) ==
  /\ Count(c) = References(c)
  /\ c \in DOMAIN refs <=> References(c) > 0
  /\ Listed(c) <=> References(c) > 0

(* Within one they have got so far with the cubin that it is about.        *)
UnderWay(l) ==
  LET c == Crc(l)
      pc == loader[l].pc
      n == References(c) IN
  /\ pc \in {"countUp", "countStore", "newEntry", "setOne", "fireLoaded", "push"} =>
       loader[l].module \notin loaded
  /\ pc \in {"countUp", "countStore"} => Agrees(c) /\ n > 0
  /\ pc = "countStore" => loader[l].count = n
  /\ pc \in {"newEntry", "setOne", "fireLoaded", "push"} => n = 0 /\ ~Listed(c)
  /\ pc = "newEntry" => c \notin DOMAIN refs
  /\ pc \in {"fireLoaded", "push"} => c \in DOMAIN refs /\ Count(c) = 1
  /\ pc \in {"readCount", "countDown"} =>
       c \in DOMAIN refs /\ Count(c) = n + 1 /\ Listed(c)
  /\ pc = "countDown" => n > 0 /\ loader[l].count = n + 1
  /\ pc \in {"erase", "fireUnloaded", "drop"} => n = 0
  /\ pc \in {"fireUnloaded", "drop"} => c \notin DOMAIN refs

(* No module callback is about the cubin.                                  *)
Free(c) == \A l \in Loaders : loader[l].pc = "idle" \/ Crc(l) # c

(* Callbacks of one cubin do not overlap.                                  *)
OneAtATime ==
  \A l, x \in Loaders :
    loader[l].pc # "idle" /\ loader[x].pc # "idle" /\ Crc(l) = Crc(x) => l = x

ListInv ==
  /\ ListedOnce
  /\ \A c \in Crcs : Free(c) => Agrees(c)
  /\ \A l \in Loaders : loader[l].pc # "idle" => UnderWay(l)

(* How many loaded modules there are of a cubin. *)
LEMMA ReferencesFacts ==
  ASSUME TypeInv
  PROVE  /\ \A c : IsFiniteSet(Of(c)) /\ References(c) \in Nat
         /\ \A m \in loaded : References(CrcOf[m]) > 0
  <1>1. ASSUME NEW c PROVE IsFiniteSet(Of(c)) /\ References(c) \in Nat
    <2>1. Of(c) \subseteq Modules
      BY DEF Of, TypeInv, TypeOK
    <2>2. IsFiniteSet(Of(c))
      BY <2>1, FS_Subset
    <2>3. QED
      BY <2>2, FS_CardinalityType DEF References
  <1>2. ASSUME NEW m \in loaded PROVE References(CrcOf[m]) > 0
    <2>1. m \in Of(CrcOf[m])
      BY <1>2 DEF Of
    <2>2. References(CrcOf[m]) # 0
      BY <1>1, <2>1, FS_EmptySet DEF References
    <2>3. QED
      BY <1>1, <2>2
  <1>3. QED
    BY <1>1, <1>2

(* A module that is loaded is one more of its cubin. *)
LEMMA ModuleComes ==
  ASSUME TypeInv, NEW m \in Modules, m \notin loaded, loaded' = loaded \cup {m}
  PROVE  \A c : References(c)' = IF c = CrcOf[m] THEN References(c) + 1 ELSE References(c)
  <1> SUFFICES ASSUME NEW c
               PROVE  References(c)' =
                        IF c = CrcOf[m] THEN References(c) + 1 ELSE References(c)
    OBVIOUS
  <1>1. CASE c = CrcOf[m]
    <2>1. Of(c)' = Of(c) \cup {m} /\ m \notin Of(c)
      BY <1>1 DEF Of
    <2>2. IsFiniteSet(Of(c))
      BY ReferencesFacts
    <2>3. Cardinality(Of(c) \cup {m}) = Cardinality(Of(c)) + 1
      BY <2>1, <2>2, FS_AddElement
    <2>4. QED
      BY <1>1, <2>1, <2>3 DEF References
  <1>2. CASE c # CrcOf[m]
    <2>1. Of(c)' = Of(c)
      BY <1>2 DEF Of
    <2>2. QED
      BY <1>2, <2>1 DEF References
  <1>3. QED
    BY <1>1, <1>2

(* One that is unloaded is one less. *)
LEMMA ModuleGoes ==
  ASSUME TypeInv, NEW m \in Modules, m \in loaded, loaded' = loaded \ {m}
  PROVE  \A c : References(c)' = IF c = CrcOf[m] THEN References(c) - 1 ELSE References(c)
  <1> SUFFICES ASSUME NEW c
               PROVE  References(c)' =
                        IF c = CrcOf[m] THEN References(c) - 1 ELSE References(c)
    OBVIOUS
  <1>1. CASE c = CrcOf[m]
    <2>1. Of(c)' = Of(c) \ {m} /\ m \in Of(c)
      BY <1>1 DEF Of
    <2>2. IsFiniteSet(Of(c))
      BY ReferencesFacts
    <2>3. Cardinality(Of(c) \ {m}) = Cardinality(Of(c)) - 1
      BY <2>1, <2>2, FS_RemoveElement
    <2>4. QED
      BY <1>1, <2>1, <2>3 DEF References
  <1>2. CASE c # CrcOf[m]
    <2>1. Of(c)' = Of(c)
      BY <1>2 DEF Of
    <2>2. QED
      BY <1>2, <2>1 DEF References
  <1>3. QED
    BY <1>1, <1>2

SameCounts == \A c : Count(c)' = Count(c) /\ (c \in DOMAIN refs' <=> c \in DOMAIN refs)
SameReferences == \A c : References(c)' = References(c)
SameList == ListedOnce' /\ \A c : Listed(c)' <=> Listed(c)

(* What is left alone stays as it was. *)
LEMMA Same ==
  /\ refs' = refs => SameCounts
  /\ loaded' = loaded => SameReferences
  /\ ListedOnce /\ loadedCubins' = loadedCubins => SameList
  BY DEF SameCounts, SameReferences, SameList, Count, References, Of, Listed, ListedOnce

(* A count that is set. *)
LEMMA CountSet ==
  ASSUME TypeInv, NEW c \in Crcs, NEW n \in Nat, refs' = WithCount(c, n)
  PROVE  /\ \A x : Count(x)' = IF x = c THEN n ELSE Count(x)
         /\ \A x : x \in DOMAIN refs' <=> x \in DOMAIN refs \/ x = c
  <1>1. /\ DOMAIN refs' = DOMAIN refs \cup {c}
        /\ \A x \in DOMAIN refs \cup {c} : refs'[x] = IF x = c THEN n ELSE refs[x]
    BY DEF WithCount, TypeInv, TypeOK
  <1>2. ASSUME NEW x PROVE Count(x)' = IF x = c THEN n ELSE Count(x)
    BY <1>1 DEF Count
  <1>3. QED
    BY <1>1, <1>2

(* A replay, and the passing of time, change ages only. *)
LEMMA AgesOnly ==
  ASSUME TypeInv, ListedOnce, Tick \/ \E t \in Callers : Replay(t)
  PROVE  SameList
  <1>1. ASSUME Tick PROVE SameList
    <2> DEFINE New(e) == [e EXCEPT !.age = Older(e.age)]
    <2>1. loadedCubins' = {New(e) : e \in loadedCubins}
      BY <1>1 DEF Tick
    <2>2. \A e \in loadedCubins : New(e).crc = e.crc
      BY DEF TypeInv, TypeOK, CubinRef
    <2> HIDE DEF New
    <2>3. ListedOnce'
      <3> SUFFICES ASSUME NEW e \in loadedCubins', NEW f \in loadedCubins', e.crc = f.crc
                   PROVE  e = f
        BY DEF ListedOnce
      <3>1. PICK a \in loadedCubins, b \in loadedCubins : e = New(a) /\ f = New(b)
        BY <2>1
      <3>2. a = b
        BY <2>2, <3>1 DEF ListedOnce
      <3>3. QED
        BY <3>1, <3>2
    <2>4. ASSUME NEW c PROVE Listed(c)' <=> Listed(c)
      BY <2>1, <2>2 DEF Listed
    <2>5. QED
      BY <2>3, <2>4 DEF SameList
  <1>2. ASSUME NEW t \in Callers, Replay(t) PROVE SameList
    <2> DEFINE New(e) == [crc |-> e.crc, age |-> caller[t].lag]
    <2>1. loadedCubins' = (loadedCubins \ Due(t)) \cup {New(e) : e \in Due(t)}
      BY <1>2 DEF Replay
    <2>2. Due(t) \subseteq loadedCubins
      BY DEF Due
    <2>3. \A e : New(e).crc = e.crc
      OBVIOUS
    <2>4. ListedOnce'
      <3> SUFFICES ASSUME NEW e \in loadedCubins', NEW f \in loadedCubins', e.crc = f.crc
                   PROVE  e = f
        BY DEF ListedOnce
      <3> HIDE DEF New
      <3>1. PICK a \in loadedCubins :
              \/ a \notin Due(t) /\ e = a
              \/ a \in Due(t) /\ e = New(a)
        BY <2>1, <2>2
      <3>2. PICK b \in loadedCubins :
              \/ b \notin Due(t) /\ f = b
              \/ b \in Due(t) /\ f = New(b)
        BY <2>1, <2>2
      <3>3. a = b
        BY <2>3, <3>1, <3>2 DEF ListedOnce
      <3>4. QED
        BY <3>1, <3>2, <3>3
    <2>5. ASSUME NEW c PROVE Listed(c)' <=> Listed(c)
      <3> HIDE DEF New
      <3>1. ASSUME NEW e \in loadedCubins', e.crc = c PROVE Listed(c)
        BY <2>1, <2>2, <2>3, <3>1 DEF Listed
      <3>2. ASSUME NEW e \in loadedCubins, e.crc = c
            PROVE  \E f \in loadedCubins' : f.crc = c
        BY <2>1, <2>3, <3>2
      <3>3. QED
        BY <3>1, <3>2 DEF Listed
    <2>6. QED
      BY <2>4, <2>5 DEF SameList
  <1>3. QED
    BY <1>1, <1>2

(* So the list invariant survives all that loaders do not do. *)
LEMMA ListInvFrame ==
  ASSUME ListInv, SameCounts, SameReferences, SameList,
         \A l \in Loaders : /\ loader'[l].pc = loader[l].pc
                            /\ loader'[l].module = loader[l].module
                            /\ loader'[l].count = loader[l].count,
         loaded' = loaded
  PROVE  ListInv'
  <1>1. \A c : Agrees(c)' <=> Agrees(c)
    BY DEF SameCounts, SameReferences, SameList, Agrees
  <1>2. \A l \in Loaders : Crc(l)' = Crc(l)
    BY DEF Crc
  <1>3. ASSUME NEW l \in Loaders, loader[l].pc # "idle", UnderWay(l)
        PROVE  UnderWay(l)'
    BY <1>1, <1>2, <1>3 DEF UnderWay, SameCounts, SameReferences, SameList
  <1>4. \A c : Free(c)' <=> Free(c)
    BY <1>2 DEF Free
  <1>5. QED
    BY <1>1, <1>3, <1>4 DEF ListInv, SameList

(* Another loader, about another cubin, sees nothing of a callback that    *)
(* begins or goes on.                                                      *)
LEMMA OthersUnderWay ==
  ASSUME TypeInv, NEW l \in Loaders, NEW x \in Loaders, NEW m,
         loader[x].pc # "idle", UnderWay(x), loader'[x] = loader[x],
         Crc(x) # CrcOf[m], loaded' \subseteq loaded \cup {m},
         LET c == Crc(x) IN
         /\ Count(c)' = Count(c) /\ (c \in DOMAIN refs' <=> c \in DOMAIN refs)
         /\ References(c)' = References(c) /\ (Listed(c)' <=> Listed(c))
  PROVE  UnderWay(x)'
  <1>1. Crc(x)' = Crc(x) /\ loader[x].module # m
    BY DEF Crc
  <1>2. Agrees(Crc(x))' <=> Agrees(Crc(x))
    BY <1>1 DEF Agrees
  <1>3. loader[x].module \notin loaded => loader[x].module \notin loaded'
    BY <1>1
  <1>4. QED
    BY <1>1, <1>2, <1>3 DEF UnderWay

(* A callback begins. *)
LEMMA CallbackList ==
  ASSUME TypeInv, ListInv, OneAtATime', NEW l \in Loaders, NEW m \in Modules,
         LoadModule(l, m) \/ UnloadModule(l, m)
  PROVE  ListInv'
  <1> DEFINE c == CrcOf[m]
  <1>1. loader \in [Loaders -> LoaderState] /\ loader[l] \in LoaderState
        /\ loader[l].pc = "idle" /\ c \in Crcs
    BY DEF TypeInv, TypeOK, LoadModule, UnloadModule
  <1>2. \A x \in Loaders \ {l} : loader'[x] = loader[x] /\ Crc(x)' = Crc(x)
    BY <1>1 DEF LoadModule, UnloadModule, Crc
  <1>3. References(c) \in Nat /\ \A x : References(x) \in Nat
    BY ReferencesFacts
  <1>4. SameCounts /\ SameList
    BY Same DEF LoadModule, UnloadModule, ListInv, world, counts
  <1>5. ASSUME loader'[l].pc # "idle", Crc(l)' = c PROVE Free(c)
    BY <1>1, <1>2, <1>5 DEF OneAtATime, Free
  <1>6. ASSUME Free(c), loader'[l].pc # "idle", Crc(l)' = c, UnderWay(l)',
               loaded' \subseteq loaded,
               \A x : x # c => References(x)' = References(x)
        PROVE  ListInv'
    <2>1. \A x \in Crcs : x # c => (Agrees(x)' <=> Agrees(x))
      BY <1>4, <1>6 DEF Agrees, SameCounts, SameList
    <2>2. ASSUME NEW x \in Crcs, Free(x)' PROVE Agrees(x)'
      <3>1. x # c
        BY <1>6, <2>2 DEF Free
      <3>2. Free(x)
        BY <1>1, <1>2, <2>2 DEF Free
      <3>3. QED
        BY <2>1, <3>1, <3>2 DEF ListInv
    <2>3. ASSUME NEW x \in Loaders, loader'[x].pc # "idle", x # l PROVE UnderWay(x)'
      <3>1. loader'[x] = loader[x] /\ loader[x].pc # "idle" /\ Crc(x) # c /\ UnderWay(x)
        BY <1>2, <1>6, <2>3 DEF Free, ListInv
      <3>2. /\ Count(Crc(x))' = Count(Crc(x)) /\ loaded' \subseteq loaded \cup {m}
            /\ Crc(x) \in DOMAIN refs' <=> Crc(x) \in DOMAIN refs
            /\ References(Crc(x))' = References(Crc(x))
            /\ Listed(Crc(x))' <=> Listed(Crc(x))
        BY <1>2, <1>4, <1>6, <2>3, <3>1 DEF SameCounts, SameList
      <3>3. QED
        BY <3>1, <3>2, OthersUnderWay
    <2>4. QED
      BY <1>4, <1>6, <2>2, <2>3 DEF ListInv, SameList
  <1>7. CASE LoadModule(l, m)
    <2>1. SameReferences /\ loaded' = loaded
      BY <1>7, Same DEF LoadModule, counts
    <2>2. /\ loader'[l].module = m
          /\ loader'[l].pc = IF c \in DOMAIN refs THEN "countUp" ELSE "newEntry"
      BY <1>1, <1>7 DEF LoadModule, LoaderState
    <2>3. Crc(l)' = c /\ m \notin loaded' /\ loader'[l].pc # "idle"
      BY <1>7, <2>1, <2>2 DEF Crc, LoadModule
    <2>4. Free(c)
      BY <1>5, <2>3
    <2>5. Agrees(c) /\ Agrees(c)'
      BY <1>1, <1>4, <2>1, <2>4 DEF ListInv, Agrees, SameCounts, SameReferences, SameList
    <2>6. UnderWay(l)'
      <3>1. CASE c \in DOMAIN refs
        BY <1>3, <1>4, <2>1, <2>2, <2>3, <2>5, <3>1
        DEF UnderWay, Agrees, SameReferences
      <3>2. CASE c \notin DOMAIN refs
        BY <1>3, <1>4, <2>1, <2>2, <2>3, <2>5, <3>2
        DEF UnderWay, Agrees, SameReferences, SameCounts
      <3>3. QED
        BY <3>1, <3>2
    <2>7. QED
      BY <1>6, <2>1, <2>3, <2>4, <2>6 DEF SameReferences
  <1>8. CASE UnloadModule(l, m)
    <2>1. m \in loaded /\ loaded' = loaded \ {m}
      BY <1>8 DEF UnloadModule
    <2>2. \A x : References(x)' = IF x = c THEN References(x) - 1 ELSE References(x)
      BY <2>1, ModuleGoes
    <2>3. References(c) > 0
      BY <2>1, ReferencesFacts
    <2>4. c \in DOMAIN refs
      <3>1. ASSUME NEW x \in Loaders, loader[x].pc # "idle", Crc(x) = c
            PROVE  c \in DOMAIN refs
        <4>1. loader[x].pc \in LoaderPCs /\ UnderWay(x)
          BY <3>1 DEF ListInv, TypeInv, TypeOK, LoaderState
        <4>2. QED
          BY <1>3, <2>3, <3>1, <4>1 DEF UnderWay, Agrees, LoaderPCs
      <3>2. CASE Free(c)
        BY <1>1, <2>3, <3>2 DEF ListInv, Agrees
      <3>3. QED
        BY <3>1, <3>2 DEF Free
    <2>5. loader'[l].module = m /\ loader'[l].pc = "readCount"
      BY <1>1, <1>8, <2>4 DEF UnloadModule, LoaderState
    <2>6. Crc(l)' = c
      BY <2>5 DEF Crc
    <2>7. Free(c)
      BY <1>5, <2>5, <2>6
    <2>8. Agrees(c)
      BY <1>1, <2>7 DEF ListInv
    <2>9. UnderWay(l)'
      BY <1>3, <1>4, <2>2, <2>3, <2>4, <2>5, <2>6, <2>8
      DEF UnderWay, Agrees, SameCounts, SameList
    <2>10. QED
      BY <1>6, <2>1, <2>2, <2>5, <2>6, <2>7, <2>9
  <1>9. QED
    BY <1>7, <1>8

(* One line of it.  What it is not about stays as it is, so it is enough to*)
(* look at the cubin that it is about.                                     *)
LEMMA LoadStepList ==
  ASSUME TypeInv, ListInv, OneAtATime, NEW l \in Loaders, LoadStep(l)
  PROVE  ListInv'
  <1>1. loader \in [Loaders -> LoaderState] /\ loader[l] \in LoaderState
    BY DEF TypeInv, TypeOK
  <1>2. loader[l].pc # "idle" /\ Crc(l) \in Crcs /\ loader[l].module \in Modules
    <2>1. loader[l].pc # "idle"
      BY DEF LoadStep, CountUp, CountStore, NewEntry, SetOne, FireCubinLoaded, Push,
             ReadCount, CountDown, Erase, FireCubinUnloaded, Drop, Moves
    <2>2. QED
      BY <2>1, CrcType DEF TypeInv, LoaderOK
  <1>c. PICK c \in Crcs : c = Crc(l)
    BY <1>2
  <1> USE <1>c
  <1>3. UnderWay(l) /\ \A x \in Loaders \ {l} : loader[x].pc = "idle" \/ Crc(x) # c
    BY <1>2 DEF ListInv, OneAtATime
  <1>o. /\ \A x \in Loaders \ {l} : loader'[x] = loader[x] /\ Crc(x)' = Crc(x)
        /\ loaded' \subseteq loaded \cup {loader[l].module}
    BY <1>1 DEF LoadStep, CountUp, CountStore, NewEntry, SetOne, FireCubinLoaded, Push,
                ReadCount, CountDown, Erase, FireCubinUnloaded, Drop, Moves, Returns, Loaded,
                Crc, counts
  <1>4. (\A x : References(x) \in Nat /\ Count(x) \in Nat) /\ loader[l].count \in Nat
    BY <1>1, ReferencesFacts, CountType DEF LoaderState
  <1>5. ASSUME \A x \in Crcs : x # c =>
                 /\ Count(x)' = Count(x)
                 /\ x \in DOMAIN refs' <=> x \in DOMAIN refs
                 /\ References(x)' = References(x)
                 /\ Listed(x)' <=> Listed(x),
               ListedOnce',
               \/ loader'[l].pc = "idle" /\ Agrees(c)'
               \/ /\ loader'[l].pc # "idle" /\ loader'[l].module = loader[l].module
                  /\ UnderWay(l)'
        PROVE  ListInv'
    <2>1. ASSUME NEW x \in Loaders, loader'[x].pc # "idle", x # l PROVE UnderWay(x)'
      <3>1. loader'[x] = loader[x] /\ loader[x].pc # "idle" /\ Crc(x) # c /\ UnderWay(x)
        BY <1>3, <1>o, <2>1 DEF ListInv
      <3>2. Crc(x) \in Crcs /\ c = CrcOf[loader[l].module]
        BY <3>1, CrcType DEF TypeInv, LoaderOK, Crc
      <3>3. QED
        BY <1>5, <1>o, <3>1, <3>2, OthersUnderWay
    <2>2. ASSUME NEW x \in Crcs, x # c, Free(x)' PROVE Agrees(x)'
      <3>1. Free(x)
        BY <1>o, <2>2 DEF Free
      <3>2. QED
        BY <1>5, <2>2, <3>1 DEF ListInv, Agrees
    <2>3. CASE loader'[l].pc = "idle" /\ Agrees(c)'
      BY <1>5, <2>1, <2>2, <2>3 DEF ListInv
    <2>4. CASE /\ loader'[l].pc # "idle" /\ loader'[l].module = loader[l].module
               /\ UnderWay(l)'
      <3>1. Crc(l)' = c
        BY <2>4 DEF Crc
      <3>2. ~Free(c)'
        BY <2>4, <3>1 DEF Free
      <3>3. QED
        BY <1>5, <2>1, <2>2, <2>4, <3>2 DEF ListInv
    <2>5. QED
      BY <1>5, <2>3, <2>4
  <1>6. /\ refs' = refs => SameCounts
        /\ loaded' = loaded => SameReferences
        /\ loadedCubins' = loadedCubins => SameList
    BY Same DEF ListInv
  <1>7. ASSUME NEW n \in Nat, refs' = WithCount(c, n)
        PROVE  /\ \A x : Count(x)' = IF x = c THEN n ELSE Count(x)
               /\ \A x : x \in DOMAIN refs' <=> x \in DOMAIN refs \/ x = c
    BY <1>2, <1>7, CountSet
  <1>8. ASSUME Loaded(l), loader[l].module \notin loaded
        PROVE  \A x : References(x)' = IF x = c THEN References(x) + 1 ELSE References(x)
    BY <1>2, <1>8, ModuleComes DEF Loaded, Crc
  <1>9. ASSUME Returns(l) PROVE loader'[l].pc = "idle"
    BY <1>9, ReturnsType
  <1>10. ASSUME NEW from, NEW to \in LoaderPCs, Moves(l, from, to), from # "idle",
                to # "countDown"
         PROVE  /\ loader[l].pc = from /\ loader'[l].pc = to
                /\ loader'[l].module = loader[l].module
                /\ Crc(l)' = c
    <2>1. loader'[l] = [loader[l] EXCEPT !.pc = to]
      BY <1>10, MovesType
    <2>2. QED
      BY <1>1, <1>10, <2>1 DEF Moves, LoaderState, Crc
  <1>11. ASSUME NEW to, loader' = [loader EXCEPT ![l].pc = to, ![l].count = Count(Crc(l))]
         PROVE  /\ loader'[l].pc = to /\ loader'[l].count = Count(c)
                /\ loader'[l].module = loader[l].module
                /\ Crc(l)' = c
    BY <1>1, <1>11 DEF LoaderState, Crc
  <1>12. CASE CountUp(l)
    <2>1. SameReferences /\ SameList /\ loaded' = loaded
      BY <1>6, <1>12 DEF CountUp, world, emission
    <2>2. loader[l].pc = "countUp" /\ refs' = WithCount(c, Count(c))
          /\ loader' = [loader EXCEPT ![l].pc = "countStore", ![l].count = Count(Crc(l))]
      BY <1>12 DEF CountUp
    <2>3. Agrees(c) /\ References(c) > 0 /\ loader[l].module \notin loaded
      BY <1>3, <2>2 DEF UnderWay
    <2>4. /\ \A x : Count(x)' = Count(x)
          /\ \A x : x \in DOMAIN refs' <=> x \in DOMAIN refs
      BY <1>4, <1>7, <2>2, <2>3 DEF Agrees
    <2>5. Agrees(c)'
      BY <2>1, <2>3, <2>4 DEF Agrees, SameReferences, SameList
    <2>6. UnderWay(l)'
      <3>1. loader'[l].pc = "countStore" /\ loader'[l].count = Count(c)
            /\ loader'[l].module = loader[l].module /\ Crc(l)' = c
        BY <1>11, <2>2
      <3>2. Count(c) = References(c) /\ References(c)' = References(c)
        BY <2>1, <2>3 DEF Agrees, SameReferences
      <3>3. QED
        BY <2>1, <2>3, <2>5, <3>1, <3>2 DEF UnderWay
    <2>7. QED
      BY <1>5, <1>11, <2>1, <2>2, <2>4, <2>6 DEF SameReferences, SameList
  <1>13. CASE CountStore(l)
    <2>1. SameList /\ Loaded(l) /\ Returns(l) /\ loader[l].pc = "countStore"
      BY <1>6, <1>13 DEF CountStore, world, emission
    <2>2. Agrees(c) /\ References(c) > 0 /\ loader[l].module \notin loaded
          /\ loader[l].count = References(c)
      BY <1>3, <2>1 DEF UnderWay
    <2>3. refs' = WithCount(c, References(c) + 1) /\ References(c) + 1 \in Nat
      BY <1>4, <1>13, <2>2 DEF CountStore, Agrees
    <2>4. Agrees(c)'
      BY <1>4, <1>7, <1>8, <2>1, <2>2, <2>3 DEF Agrees, SameList
    <2>5. QED
      BY <1>5, <1>7, <1>8, <1>9, <2>1, <2>2, <2>3, <2>4 DEF SameList
  <1>14. CASE NewEntry(l)
    <2>1. SameReferences /\ SameList /\ loaded' = loaded
          /\ Moves(l, "newEntry", "setOne") /\ refs' = WithCount(c, Count(c))
      BY <1>6, <1>14 DEF NewEntry, world, emission
    <2>2. UnderWay(l)'
      BY <1>3, <1>10, <2>1 DEF UnderWay, SameReferences, SameList, LoaderPCs
    <2>3. QED
      BY <1>4, <1>5, <1>7, <1>10, <2>1, <2>2 DEF SameReferences, SameList, LoaderPCs
  <1>15. CASE SetOne(l)
    <2>1. SameReferences /\ SameList /\ loaded' = loaded
          /\ Moves(l, "setOne", "fireLoaded") /\ refs' = WithCount(c, 1)
      BY <1>6, <1>15 DEF SetOne, world, emission
    <2>2. UnderWay(l)'
      BY <1>3, <1>7, <1>10, <2>1 DEF UnderWay, SameReferences, SameList, LoaderPCs
    <2>3. QED
      BY <1>4, <1>5, <1>7, <1>10, <2>1, <2>2 DEF SameReferences, SameList, LoaderPCs
  <1>16. CASE FireCubinLoaded(l)
    <2>1. SameCounts /\ SameReferences /\ SameList /\ loaded' = loaded
          /\ Moves(l, "fireLoaded", "push")
      BY <1>6, <1>16 DEF FireCubinLoaded, counts, emission
    <2>2. UnderWay(l)'
      BY <1>3, <1>10, <2>1
      DEF UnderWay, SameCounts, SameReferences, SameList, LoaderPCs
    <2>3. QED
      BY <1>5, <1>10, <2>1, <2>2 DEF SameCounts, SameReferences, SameList, LoaderPCs
  <1>17. CASE Push(l)
    <2>1. SameCounts /\ Loaded(l) /\ Returns(l) /\ loader[l].pc = "push"
      BY <1>6, <1>17 DEF Push, world, emission
    <2>2. References(c) = 0 /\ ~Listed(c) /\ c \in DOMAIN refs /\ Count(c) = 1
          /\ loader[l].module \notin loaded
      BY <1>3, <2>1 DEF UnderWay
    <2>3. loadedCubins' = loadedCubins \cup {[crc |-> c, age |-> loader[l].lag]}
      BY <1>17 DEF Push
    <2>4. ListedOnce' /\ \A x : Listed(x)' <=> Listed(x) \/ x = c
      <3>1. PICK new : new.crc = c /\ loadedCubins' = loadedCubins \cup {new}
        BY <2>3
      <3>2. ListedOnce'
        BY <2>2, <3>1 DEF ListedOnce, Listed, ListInv
      <3>3. ASSUME NEW x PROVE Listed(x)' <=> Listed(x) \/ x = c
        BY <3>1 DEF Listed
      <3>4. QED
        BY <3>2, <3>3
    <2>5. Agrees(c)'
      BY <1>8, <2>1, <2>2, <2>4 DEF Agrees, SameCounts
    <2>6. QED
      BY <1>5, <1>8, <1>9, <2>1, <2>2, <2>4, <2>5 DEF SameCounts
  <1>18. CASE ReadCount(l)
    <2> DEFINE pc == IF Count(Crc(l)) > 1 THEN "countDown" ELSE "erase"
    <2>1. SameReferences /\ SameList /\ loaded' = loaded /\ loader[l].pc = "readCount"
          /\ refs' = WithCount(c, Count(c))
      BY <1>6, <1>18 DEF ReadCount, world, emission
    <2>2. loader' = [loader EXCEPT ![l].pc = pc, ![l].count = Count(Crc(l))]
      BY <1>18 DEF ReadCount
    <2>3. c \in DOMAIN refs /\ Count(c) = References(c) + 1 /\ Listed(c)
      BY <1>3, <2>1 DEF UnderWay
    <2>4. /\ \A x : Count(x)' = Count(x)
          /\ \A x : x \in DOMAIN refs' <=> x \in DOMAIN refs
      BY <1>4, <1>7, <2>1, <2>3
    <2>5. /\ loader'[l].pc = IF References(c) > 0 THEN "countDown" ELSE "erase"
          /\ loader'[l].count = Count(c) /\ loader'[l].module = loader[l].module
          /\ Crc(l)' = c
      <3>1. pc = IF References(c) > 0 THEN "countDown" ELSE "erase"
        BY <1>4, <2>3
      <3> HIDE DEF pc
      <3>2. QED
        BY <1>11, <2>2, <3>1
    <2>6. UnderWay(l)'
      <3>1. CASE References(c) > 0
        BY <2>1, <2>3, <2>4, <2>5, <3>1 DEF UnderWay, SameReferences, SameList
      <3>2. CASE References(c) = 0
        BY <2>1, <2>3, <2>4, <2>5, <3>2 DEF UnderWay, SameReferences, SameList
      <3>3. QED
        BY <1>4, <3>1, <3>2
    <2>7. QED
      BY <1>5, <2>1, <2>4, <2>5, <2>6 DEF SameReferences, SameList
  <1>19. CASE CountDown(l)
    <2>1. SameReferences /\ SameList /\ Returns(l) /\ loader[l].pc = "countDown"
      BY <1>6, <1>19 DEF CountDown, world, emission
    <2>2. c \in DOMAIN refs /\ Listed(c) /\ References(c) > 0
          /\ loader[l].count = References(c) + 1
      BY <1>3, <2>1 DEF UnderWay
    <2>3. refs' = WithCount(c, References(c))
      BY <1>4, <1>19, <2>2 DEF CountDown
    <2>4. Agrees(c)'
      BY <1>4, <1>7, <2>1, <2>2, <2>3 DEF Agrees, SameReferences, SameList
    <2>5. QED
      BY <1>4, <1>5, <1>7, <1>9, <2>1, <2>3, <2>4 DEF SameReferences, SameList
  <1>20. CASE Erase(l)
    <2>1. SameReferences /\ SameList /\ loaded' = loaded
          /\ Moves(l, "erase", "fireUnloaded")
          /\ refs' = [x \in DOMAIN refs \ {c} |-> refs[x]]
      BY <1>6, <1>20 DEF Erase, world, emission
    <2>2. /\ c \notin DOMAIN refs'
          /\ \A x : x # c => Count(x)' = Count(x)
          /\ \A x : x # c => (x \in DOMAIN refs' <=> x \in DOMAIN refs)
      BY <2>1 DEF Count
    <2>3. UnderWay(l)'
      BY <1>3, <1>10, <2>1, <2>2 DEF UnderWay, SameReferences, SameList, LoaderPCs
    <2>4. QED
      BY <1>5, <1>10, <2>1, <2>2, <2>3 DEF SameReferences, SameList, LoaderPCs
  <1>21. CASE FireCubinUnloaded(l)
    <2>1. SameCounts /\ SameReferences /\ SameList /\ loaded' = loaded
          /\ Moves(l, "fireUnloaded", "drop")
      BY <1>6, <1>21 DEF FireCubinUnloaded, counts, emission
    <2>2. UnderWay(l)'
      BY <1>3, <1>10, <2>1
      DEF UnderWay, SameCounts, SameReferences, SameList, LoaderPCs
    <2>3. QED
      BY <1>5, <1>10, <2>1, <2>2 DEF SameCounts, SameReferences, SameList, LoaderPCs
  <1>22. CASE Drop(l)
    <2>1. SameCounts /\ SameReferences /\ Returns(l) /\ loader[l].pc = "drop"
          /\ loadedCubins' = {e \in loadedCubins : e.crc # c}
      BY <1>6, <1>22 DEF Drop, world, counts, emission
    <2>2. References(c) = 0 /\ c \notin DOMAIN refs
      BY <1>3, <2>1 DEF UnderWay
    <2>3. ListedOnce' /\ \A x : Listed(x)' <=> Listed(x) /\ x # c
      BY <2>1 DEF ListedOnce, Listed, ListInv
    <2>4. Agrees(c)'
      BY <2>1, <2>2, <2>3 DEF Agrees, SameCounts, SameReferences, Count
    <2>5. QED
      BY <1>5, <1>9, <2>1, <2>3, <2>4 DEF SameCounts, SameReferences
  <1>23. QED
    BY <1>12, <1>13, <1>14, <1>15, <1>16, <1>17, <1>18, <1>19, <1>20, <1>21, <1>22
    DEF LoadStep

(* Every step keeps it, as long as callbacks of one cubin do not overlap.  *)
LEMMA ListStep ==
  ASSUME TypeInv, ListInv, OneAtATime, OneAtATime', [Next]_vars
  PROVE  ListInv'
  <1>1. ASSUME NEW t \in Callers, EmitStep(t) PROVE ListInv'
    <2>1. SameCounts /\ SameReferences /\ loaded' = loaded /\ loader' = loader
      BY <1>1, Same
      DEF EmitStep, EmitMetadata, CheckRefresh, StoreRefresh, ReadSem, Exchange, Replay,
          counts
    <2>2. SameList
      BY <1>1, Same, AgesOnly
      DEF EmitStep, EmitMetadata, CheckRefresh, StoreRefresh, ReadSem, Exchange, shared,
          ListInv
    <2>3. QED
      BY <2>1, <2>2, ListInvFrame
  <1>2. ASSUME NEW k \in Consumers, Attach(k) \/ Detach(k) PROVE ListInv'
    BY <1>2, Same, ListInvFrame DEF Attach, Detach, counts, ListInv
  <1>3. CASE Tick
    <2>1. SameCounts /\ SameReferences /\ SameList /\ loaded' = loaded
      BY <1>3, Same, AgesOnly DEF Tick, counts, ListInv
    <2>2. \A x \in Loaders : /\ loader'[x].pc = loader[x].pc
                            /\ loader'[x].module = loader[x].module
                            /\ loader'[x].count = loader[x].count
      BY <1>3 DEF Tick, TypeInv, TypeOK, LoaderState
    <2>3. QED
      BY <2>1, <2>2, ListInvFrame
  <1>4. CASE UNCHANGED vars
    <2>1. SameCounts /\ SameReferences /\ SameList /\ loaded' = loaded
          /\ loader' = loader
      BY <1>4, Same DEF vars, counts, ListInv
    <2>2. QED
      BY <2>1, ListInvFrame
  <1>5. QED
    BY <1>1, <1>2, <1>3, <1>4, LoadStepList, CallbackList DEF Next

(* To begin with nothing is loaded, counted or listed.                     *)
LEMMA ListInit ==
  ASSUME Init
  PROVE  ListInv
  <1>1. \A l \in Loaders : loader[l].pc = "idle"
    BY DEF Init, IdleLoader
  <1>2. ASSUME NEW c \in Crcs PROVE Agrees(c)
    <2>1. Of(c) = {}
      BY DEF Init, Of
    <2>2. References(c) = 0
      BY <2>1, FS_EmptySet DEF References
    <2>3. QED
      BY <2>2 DEF Init, Agrees, Count, Listed
  <1>3. ListedOnce
    BY DEF Init, ListedOnce
  <1>4. QED
    BY <1>1, <1>2, <1>3 DEF ListInv

(* It holds throughout.                                                    *)
LEMMA ListInvariant == Spec /\ []OneAtATime => []ListInv
  BY ListInit, ListStep, ConsumerAssumption, TypeInvariant, PTL DEF Spec

(* A cubin that no callback is about has as many references as modules of  *)
(* it are loaded, and is on the list, once, if there are any.              *)
CubinsMatch ==
  \A c \in Crcs : Free(c) =>
    /\ Count(c) = References(c)
    /\ c \in DOMAIN refs <=> References(c) > 0
    /\ Cardinality({e \in loadedCubins : e.crc = c}) = (IF References(c) > 0 THEN 1 ELSE 0)

(* The invariant gives that.                                               *)
LEMMA ListInvMatches == TypeInv /\ ListInv => CubinsMatch
  <1> SUFFICES ASSUME TypeInv, ListInv, NEW c \in Crcs, Free(c)
               PROVE  /\ Count(c) = References(c)
                      /\ c \in DOMAIN refs <=> References(c) > 0
                      /\ Cardinality({e \in loadedCubins : e.crc = c}) =
                           (IF References(c) > 0 THEN 1 ELSE 0)
    BY DEF CubinsMatch
  <1>1. Agrees(c) /\ ListedOnce
    BY DEF ListInv
  <1>2. CASE Listed(c)
    <2>1. PICK e \in loadedCubins : e.crc = c
      BY <1>2 DEF Listed
    <2>2. {f \in loadedCubins : f.crc = c} = {e}
      BY <1>1, <2>1 DEF ListedOnce
    <2>3. QED
      BY <1>1, <1>2, <2>2, FS_Singleton DEF Agrees
  <1>3. CASE ~Listed(c)
    <2>1. {f \in loadedCubins : f.crc = c} = {}
      BY <1>3 DEF Listed
    <2>2. QED
      BY <1>1, <1>3, <2>1, FS_EmptySet DEF Agrees
  <1>4. QED
    BY <1>2, <1>3

(* For any number of loading threads: map and list agree with what is      *)
(* loaded of a cubin whenever no callback is about it, if the callbacks of *)
(* one and the same cubin never overlap.  That they do is all that can go  *)
(* wrong between threads that load modules.                                *)
THEOREM ListMatchesUnlessOverlapping == Spec /\ []OneAtATime => []CubinsMatch
  BY ListInvMatches, ListInvariant, ConsumerAssumption, TypeInvariant, PTL

(* With one loading thread, however many modules and cubins there are and  *)
(* whatever other threads replay meanwhile, map and list agree with what is*)
(* loaded whenever no module callback is under way.                        *)
THEOREM OneLoaderListMatches ==
  (\E l \in Loaders : Loaders = {l}) => (Spec => []ListMatchesModules)
  <1> SUFFICES ASSUME NEW l \in Loaders, Loaders = {l} PROVE Spec => []ListMatchesModules
    OBVIOUS
  <1>1. OneAtATime
    BY DEF OneAtATime
  <1>2. CubinsMatch => ListMatchesModules
    BY DEF CubinsMatch, ListMatchesModules, NoModuleCallback, Free, References, Of
  <1>3. QED
    BY <1>1, <1>2, ListMatchesUnlessOverlapping, PTL

-----------------------------------------------------------------------------
(***************************************************************************)
(* How long a consumer can be missing a cubin.  The count of consumers may *)
(* be the same before and after one goes and another comes, and then no    *)
(* replay follows; kEmitRefreshPeriodNs "bounds how long an undetected ABA *)
(* semaphore cycle [...] can leave a tracer missing cubins"                *)
(* (pc_sampling.cpp:686-688).  A history variable says how long each       *)
(* consumer has been attached, in ages as they are kept of the list.       *)
(***************************************************************************)
VARIABLE stays

StaysNext ==
  \/ Tick /\ stays' = [k \in Consumers |-> Older(stays[k])]
  \/ \E k \in Consumers :
       (Attach(k) \/ Detach(k)) /\ stays' = [stays EXCEPT ![k] = 0]
  \/ /\ UNCHANGED stays
     /\ \/ \E t \in Callers : EmitStep(t)
        \/ \E l \in Loaders :
             LoadStep(l) \/ \E m \in Modules : LoadModule(l, m) \/ UnloadModule(l, m)
StaysSpec ==
  Init /\ stays = [k \in Consumers |-> 0] /\ [][StaysNext]_<<vars, stays>>

(* The variable only watches.                                              *)
LEMMA StaysOnlyWatches == StaysSpec => Spec
  <1>1. [StaysNext]_<<vars, stays>> => [Next]_vars
    BY DEF StaysNext, Next
  <1>2. QED
    BY <1>1, PTL DEF StaysSpec, Spec

(* The cubin is about to leave the list, and consumers have been told.     *)
Going(c) == \E l \in Loaders : loader[l].pc = "drop" /\ Crc(l) = c

(* A consumer that lacks a cubin came after it was last announced.         *)
Knows(k, c, age) == c \in known[k] \/ stays[k] <= age
ListKnown ==
  \A k \in attached, e \in loadedCubins : Going(e.crc) \/ Knows(k, e.crc, e.age)
PushKnown ==
  \A k \in attached, l \in Loaders :
    loader[l].pc = "push" => Knows(k, Crc(l), loader[l].lag)
StaysInv == stays \in [Consumers -> Ages] /\ ListKnown /\ PushKnown

(* Ages grow together.                                                     *)
LEMMA OlderGrows ==
  ASSUME NEW a \in Ages, NEW b \in Ages, a <= b
  PROVE  Older(a) \in Ages /\ Older(a) <= Older(b) /\ Older(a) <= a + 1
  BY DEF Older, Ages, Old

(* A tick makes all of them older.                                         *)
LEMMA StaysTick ==
  ASSUME TypeInv, StaysInv, Tick, stays' = [k \in Consumers |-> Older(stays[k])]
  PROVE  StaysInv'
  <1>1. /\ attached \subseteq Consumers /\ stays \in [Consumers -> Ages]
        /\ loadedCubins \subseteq CubinRef /\ loader \in [Loaders -> LoaderState]
        /\ attached' = attached /\ known' = known
    BY DEF TypeInv, TypeOK, StaysInv, Tick, world
  <1>2. ASSUME NEW l \in Loaders
        PROVE  /\ loader'[l].pc = loader[l].pc /\ loader'[l].module = loader[l].module
               /\ loader[l].pc = "push" => loader'[l].lag = loader[l].lag + 1
    BY <1>1 DEF Tick, LoaderWaits, LoaderState
  <1>3. \A l \in Loaders : Crc(l)' = Crc(l)
    BY <1>2 DEF Crc
  <1>4. \A c : Going(c)' <=> Going(c)
    BY <1>2, <1>3 DEF Going
  <1>5. stays' \in [Consumers -> Ages]
    BY <1>1, OlderGrows DEF Ages
  <1>6. ListKnown'
    <2> SUFFICES ASSUME NEW k \in attached, NEW e \in loadedCubins', ~Going(e.crc)
                 PROVE  e.crc \in known[k] \/ stays'[k] <= e.age
      BY <1>1, <1>4 DEF ListKnown, Knows
    <2>1. PICK a \in loadedCubins : e = [a EXCEPT !.age = Older(a.age)]
      BY DEF Tick
    <2>2. a.age \in Ages /\ stays[k] \in Ages /\ e.crc = a.crc /\ e.age = Older(a.age)
      BY <1>1, <2>1 DEF CubinRef
    <2>3. a.crc \in known[k] \/ stays[k] <= a.age
      BY <2>2 DEF StaysInv, ListKnown, Knows
    <2>4. QED
      BY <1>1, <2>2, <2>3, OlderGrows
  <1>7. PushKnown'
    <2> SUFFICES ASSUME NEW k \in attached, NEW l \in Loaders, loader[l].pc = "push"
                 PROVE  Crc(l) \in known[k] \/ stays'[k] <= loader[l].lag + 1
      BY <1>1, <1>2, <1>3 DEF PushKnown, Knows
    <2>1. stays[k] \in Ages /\ loader[l].lag \in Nat /\ stays'[k] = Older(stays[k])
      BY <1>1 DEF LoaderState, Lags
    <2>2. Crc(l) \in known[k] \/ stays[k] <= loader[l].lag
      BY DEF StaysInv, PushKnown, Knows
    <2>3. stays[k] \in Nat /\ Older(stays[k]) \in Nat /\ Older(stays[k]) <= stays[k] + 1
      BY <2>1, OlderGrows DEF Ages
    <2>4. QED
      BY <2>1, <2>2, <2>3
  <1>8. QED
    BY <1>5, <1>6, <1>7 DEF StaysInv

(* A consumer that comes or goes begins again.                             *)
LEMMA StaysComes ==
  ASSUME TypeInv, StaysInv, NEW k \in Consumers, Attach(k) \/ Detach(k),
         stays' = [stays EXCEPT ![k] = 0]
  PROVE  StaysInv'
  <1>1. /\ known' = [known EXCEPT ![k] = {}] /\ loadedCubins' = loadedCubins
        /\ loader' = loader /\ attached' \subseteq attached \cup {k}
        /\ attached \subseteq Consumers
        /\ stays \in [Consumers -> Ages] /\ known \in [Consumers -> SUBSET Crcs]
        /\ loadedCubins \subseteq CubinRef /\ loader \in [Loaders -> LoaderState]
    BY DEF Attach, Detach, TypeInv, TypeOK, StaysInv
  <1>2. stays' \in [Consumers -> Ages]
    BY <1>1 DEF Ages, Old
  <1>3. ASSUME NEW j \in attached', NEW c, NEW age \in Nat, j \in attached => Knows(j, c, age)
        PROVE  Knows(j, c, age)'
    <2>1. CASE j = k
      BY <1>1, <1>3, <2>1 DEF Knows
    <2>2. CASE j # k
      BY <1>1, <1>3, <2>2 DEF Knows
    <2>3. QED
      BY <2>1, <2>2
  <1>4. \A c : Crc(c)' = Crc(c) /\ (Going(c)' <=> Going(c))
    BY <1>1 DEF Going, Crc
  <1>5. ListKnown'
    <2> SUFFICES ASSUME NEW j \in attached', NEW e \in loadedCubins, ~Going(e.crc)
                 PROVE  Knows(j, e.crc, e.age)'
      BY <1>1, <1>4 DEF ListKnown, Knows
    <2>1. e.age \in Nat
      BY <1>1 DEF CubinRef, Ages
    <2>2. j \in attached => Knows(j, e.crc, e.age)
      BY DEF StaysInv, ListKnown
    <2>3. QED
      BY <1>3, <2>1, <2>2
  <1>6. PushKnown'
    <2> SUFFICES ASSUME NEW j \in attached', NEW l \in Loaders, loader[l].pc = "push"
                 PROVE  Knows(j, Crc(l), loader[l].lag)'
      BY <1>1 DEF PushKnown, Knows, Crc
    <2>1. loader[l].lag \in Nat
      BY <1>1 DEF LoaderState, Lags
    <2>2. j \in attached => Knows(j, Crc(l), loader[l].lag)
      BY DEF StaysInv, PushKnown
    <2>3. Knows(j, Crc(l), loader[l].lag)' <=>
            (Crc(l) \in known'[j] \/ stays'[j] <= loader[l].lag)
      BY <1>1 DEF Knows, Crc
    <2>4. QED
      BY <1>1, <2>1, <2>2, <2>3 DEF Knows
  <1>7. QED
    BY <1>2, <1>5, <1>6 DEF StaysInv

(* Telling consumers more cannot make one lack anything, as long as nobody *)
(* comes to a push or is done with a drop.                                 *)
LEMMA StaysFrame ==
  ASSUME StaysInv, stays' = stays, attached' = attached,
         \A k \in attached : known[k] \subseteq known'[k],
         \A e \in loadedCubins' :
           e \in loadedCubins \/ \A k \in attached : e.crc \in known'[k],
         \A l \in Loaders :
           loader[l].pc = "drop" \/ loader'[l].pc = "push" => loader'[l] = loader[l]
  PROVE  StaysInv'
  <1>1. /\ \A l \in Loaders : loader'[l] = loader[l] => Crc(l)' = Crc(l)
        /\ \A c : Going(c) => Going(c)'
    BY DEF Crc, Going
  <1>2. ASSUME NEW k \in attached, NEW c, NEW age, Knows(k, c, age)
        PROVE  c \in known'[k] \/ stays[k] <= age
    BY <1>2 DEF Knows
  <1>3. ListKnown'
    <2> SUFFICES ASSUME NEW k \in attached, NEW e \in loadedCubins', ~Going(e.crc)
                 PROVE  e.crc \in known'[k] \/ stays[k] <= e.age
      BY <1>1 DEF ListKnown, Knows
    <2>1. CASE e \in loadedCubins
      BY <1>2, <2>1 DEF StaysInv, ListKnown
    <2>2. QED
      BY <2>1
  <1>4. PushKnown'
    <2> SUFFICES ASSUME NEW k \in attached, NEW l \in Loaders, loader'[l].pc = "push"
                 PROVE  Crc(l)' \in known'[k] \/ stays[k] <= loader'[l].lag
      BY DEF PushKnown, Knows, Crc
    <2>1. loader'[l] = loader[l] /\ Crc(l)' = Crc(l)
      BY <1>1
    <2>2. Crc(l) \in known'[k] \/ stays[k] <= loader[l].lag
      BY <1>2, <2>1 DEF StaysInv, PushKnown
    <2>3. QED
      BY <2>1, <2>2
  <1>5. QED
    BY <1>3, <1>4 DEF StaysInv

(* A replay tells everybody attached of what it makes newer.               *)
LEMMA StaysEmit ==
  ASSUME TypeInv, StaysInv, NEW t \in Callers, EmitStep(t), stays' = stays
  PROVE  StaysInv'
  <1>1. attached' = attached /\ loader' = loader /\ attached \subseteq Consumers
    BY DEF EmitStep, EmitMetadata, CheckRefresh, StoreRefresh, ReadSem, Exchange, Replay,
           world, TypeInv, TypeOK
  <1>2. CASE Replay(t)
    <2>1. \A k \in attached : known'[k] = known[k] \cup {e.crc : e \in Due(t)}
      BY <1>1, <1>2 DEF Replay, Told
    <2>2. loadedCubins' = (loadedCubins \ Due(t)) \cup
            {[crc |-> e.crc, age |-> caller[t].lag] : e \in Due(t)}
      BY <1>2 DEF Replay
    <2>3. ASSUME NEW e \in loadedCubins', e \notin loadedCubins, NEW k \in attached
          PROVE  e.crc \in known'[k]
      <3>1. PICK d \in Due(t) : e = [crc |-> d.crc, age |-> caller[t].lag]
        BY <2>2, <2>3
      <3>2. QED
        BY <2>1, <3>1
    <2>4. QED
      BY <1>1, <2>1, <2>3, StaysFrame
  <1>3. CASE ~Replay(t)
    <2>1. known' = known /\ loadedCubins' = loadedCubins
      BY <1>3 DEF EmitStep, EmitMetadata, CheckRefresh, StoreRefresh, ReadSem, Exchange,
                  world, shared
    <2>2. QED
      BY <1>1, <2>1, StaysFrame
  <1>4. QED
    BY <1>2, <1>3

(* What one loader does matters by the entry it pushes, the cubin that it  *)
(* has consumers forget and whether it stands between these and the list.  *)
LEMMA StaysLoader ==
  ASSUME StaysInv, NEW l \in Loaders, stays' = stays, attached' = attached,
         \A x \in Loaders \ {l} : loader'[x] = loader[x],
         NEW c, loader[l].pc = "drop" => Crc(l) = c,
         \A k \in attached : \A d : d # c /\ d \in known[k] => d \in known'[k],
         \A x \in Loaders \ {l} : loader[x].pc = "push" => Crc(x) # c,
         \A e \in loadedCubins' : e.crc # c => e \in loadedCubins,
         \A k \in attached, e \in loadedCubins' :
           e.crc = c => Going(c)' \/ c \in known'[k] \/ stays[k] <= e.age,
         \A k \in attached : loader'[l].pc # "push" \/ Crc(l)' \in known'[k]
  PROVE  StaysInv'
  <1>1. \A x \in Loaders \ {l} : Crc(x)' = Crc(x)
    BY DEF Crc
  <1>2. ASSUME NEW d, d # c, Going(d) PROVE Going(d)'
    BY <1>1, <1>2 DEF Going
  <1>3. ListKnown'
    <2> SUFFICES ASSUME NEW k \in attached, NEW e \in loadedCubins'
                 PROVE  Going(e.crc)' \/ e.crc \in known'[k] \/ stays[k] <= e.age
      BY DEF ListKnown, Knows, Going, Crc
    <2>1. CASE e.crc # c
      <3>1. e \in loadedCubins
        BY <2>1
      <3>2. Going(e.crc) \/ e.crc \in known[k] \/ stays[k] <= e.age
        BY <3>1 DEF StaysInv, ListKnown, Knows
      <3>3. QED
        BY <1>2, <2>1, <3>2
    <2>2. QED
      BY <2>1
  <1>4. PushKnown'
    <2> SUFFICES ASSUME NEW k \in attached, NEW x \in Loaders, loader'[x].pc = "push"
                 PROVE  Crc(x)' \in known'[k] \/ stays[k] <= loader'[x].lag
      BY DEF PushKnown, Knows, Crc
    <2>1. CASE x # l
      <3>1. loader[x].pc = "push" /\ loader'[x] = loader[x] /\ Crc(x)' = Crc(x) /\ Crc(x) # c
        BY <1>1, <2>1
      <3>2. Crc(x) \in known[k] \/ stays[k] <= loader[x].lag
        BY <3>1 DEF StaysInv, PushKnown, Knows
      <3>3. QED
        BY <3>1, <3>2
    <2>2. QED
      BY <2>1
  <1>5. QED
    BY <1>3, <1>4 DEF StaysInv

(* A module callback, from its first line to its last.                     *)
LEMMA StaysLoad ==
  ASSUME TypeInv, StaysInv, OneAtATime, stays' = stays, NEW l \in Loaders,
         LoadStep(l) \/ \E m \in Modules : LoadModule(l, m) \/ UnloadModule(l, m)
  PROVE  StaysInv'
  <1>1. /\ loader \in [Loaders -> LoaderState] /\ loader[l] \in LoaderState
        /\ attached \subseteq Consumers /\ known \in [Consumers -> SUBSET Crcs]
    BY DEF TypeInv, TypeOK
  <1>2. attached' = attached /\ \A x \in Loaders \ {l} : loader'[x] = loader[x]
    BY <1>1
    DEF LoadStep, CountUp, CountStore, NewEntry, SetOne, FireCubinLoaded, Push, ReadCount,
        CountDown, Erase, FireCubinUnloaded, Drop, Moves, Returns, LoadModule,
        UnloadModule, world
  <1>3. ASSUME NEW from, NEW to, Moves(l, from, to)
        PROVE  loader[l].pc = from /\ loader'[l].pc = to /\ Crc(l)' = Crc(l)
    BY <1>1, <1>3 DEF Moves, LoaderState, Crc
  <1>4. ASSUME Returns(l) PROVE loader'[l].pc = "idle"
    BY <1>1, <1>4 DEF Returns, IdleLoader
  <1>5. ASSUME loader[l].pc # "idle"
        PROVE  \A x \in Loaders \ {l} : loader[x].pc = "push" => Crc(x) # Crc(l)
    BY <1>5 DEF OneAtATime
  <1>6. CASE \E m \in Modules : LoadModule(l, m) \/ UnloadModule(l, m)
    <2>1. /\ known' = known /\ loadedCubins' = loadedCubins /\ loader[l].pc = "idle"
          /\ loader'[l].pc # "push"
      BY <1>1, <1>6 DEF LoadModule, UnloadModule, world, LoaderState
    <2>2. QED
      BY <1>2, <2>1, StaysFrame
  <1>7. CASE \/ CountUp(l) \/ CountStore(l) \/ NewEntry(l) \/ SetOne(l)
             \/ ReadCount(l) \/ CountDown(l) \/ Erase(l)
    <2>1. known' = known /\ loadedCubins' = loadedCubins
      BY <1>7 DEF CountUp, CountStore, NewEntry, SetOne, ReadCount, CountDown, Erase, world
    <2>2. loader[l].pc # "drop" /\ loader'[l].pc # "push"
      BY <1>1, <1>4, <1>7
      DEF CountUp, CountStore, NewEntry, SetOne, ReadCount, CountDown, Erase, Moves,
          LoaderState
    <2>3. QED
      BY <1>2, <2>1, <2>2, StaysFrame
  <1>8. CASE FireCubinLoaded(l)
    <2>1. /\ loader[l].pc = "fireLoaded" /\ loader'[l].pc = "push" /\ Crc(l)' = Crc(l)
          /\ loadedCubins' = loadedCubins
      BY <1>3, <1>8 DEF FireCubinLoaded
    <2>2. \A k \in attached : known'[k] = known[k] \cup {Crc(l)}
      BY <1>1, <1>8 DEF FireCubinLoaded, Told
    <2>3. QED
      BY <1>2, <1>5, <2>1, <2>2, StaysLoader
  <1>9. CASE Push(l)
    <2> DEFINE new == [crc |-> Crc(l), age |-> loader[l].lag]
    <2>1. /\ loader[l].pc = "push" /\ loader'[l].pc = "idle" /\ known' = known
          /\ loadedCubins' = loadedCubins \cup {new}
      BY <1>4, <1>9 DEF Push, world
    <2>2. ASSUME NEW k \in attached, NEW e \in loadedCubins', e.crc = Crc(l)
          PROVE  Crc(l) \in known'[k] \/ stays[k] <= e.age
      <3>1. CASE e = new
        BY <2>1, <3>1 DEF StaysInv, PushKnown, Knows
      <3>2. CASE e # new
        <4>1. Going(Crc(l)) \/ Crc(l) \in known[k] \/ stays[k] <= e.age
          BY <2>1, <2>2, <3>2 DEF StaysInv, ListKnown, Knows
        <4>2. ~Going(Crc(l))
          BY <2>1 DEF Going, OneAtATime
        <4>3. QED
          BY <2>1, <4>1, <4>2
      <3>3. QED
        BY <3>1, <3>2
    <2>3. \A e \in loadedCubins' : e.crc # Crc(l) => e \in loadedCubins
      BY <2>1
    <2> HIDE DEF new
    <2>4. QED
      BY <1>2, <1>5, <2>1, <2>2, <2>3, StaysLoader
  <1>10. CASE FireCubinUnloaded(l)
    <2>1. /\ loader[l].pc = "fireUnloaded" /\ loader'[l].pc = "drop" /\ Crc(l)' = Crc(l)
          /\ loadedCubins' = loadedCubins
      BY <1>3, <1>10 DEF FireCubinUnloaded
    <2>2. \A k \in attached : known'[k] = known[k] \ {Crc(l)}
      BY <1>1, <1>10 DEF FireCubinUnloaded
    <2>3. Going(Crc(l))'
      BY <2>1 DEF Going
    <2>4. QED
      BY <1>2, <1>5, <2>1, <2>2, <2>3, StaysLoader
  <1>11. CASE Drop(l)
    <2>1. /\ loader[l].pc = "drop" /\ loader'[l].pc = "idle" /\ known' = known
          /\ loadedCubins' = {e \in loadedCubins : e.crc # Crc(l)}
      BY <1>4, <1>11 DEF Drop, world
    <2>2. QED
      BY <1>2, <1>5, <2>1, StaysLoader
  <1>12. QED
    BY <1>6, <1>7, <1>8, <1>9, <1>10, <1>11 DEF LoadStep

(* So it holds throughout.                                                 *)
LEMMA StaysInvariant == StaysSpec /\ []OneAtATime => []StaysInv
  <1>1. Init /\ stays = [k \in Consumers |-> 0] => StaysInv
    <2>1. Init => attached = {} /\ 0 \in Ages
      BY DEF Init, Ages, Old
    <2>2. QED
      BY <2>1 DEF StaysInv, ListKnown, PushKnown
  <1>2. TypeInv /\ StaysInv /\ OneAtATime /\ [StaysNext]_<<vars, stays>> => StaysInv'
    <2> SUFFICES ASSUME TypeInv, StaysInv, OneAtATime, [StaysNext]_<<vars, stays>>
                 PROVE  StaysInv'
      OBVIOUS
    <2>1. CASE UNCHANGED <<vars, stays>>
      BY <2>1
      DEF vars, world, counts, emission, StaysInv, ListKnown, PushKnown, Knows, Going, Crc
    <2>2. CASE StaysNext
      BY <2>2, StaysTick, StaysComes, StaysEmit, StaysLoad DEF StaysNext
    <2>3. QED
      BY <2>1, <2>2
  <1>3. StaysSpec /\ []OneAtATime => []TypeInv
    BY StaysOnlyWatches, ConsumerAssumption, TypeInvariant, PTL
  <1>4. QED
    BY <1>1, <1>2, <1>3, PTL DEF StaysSpec

(* A replay leaves no consumer without a cubin of a loaded module that has *)
(* been attached for more than a Period and a callback's delay.            *)
RefreshReaches ==
  \A t \in Callers, k \in Consumers, m \in Modules :
    Replay(t) /\ k \in attached /\ stays[k] > Period + MaxStall /\ m \in loaded
      => CrcOf[m] \in known'[k]

(* A cubin of a loaded module is on the list and is not about to leave it. *)
LEMMA LoadedStays ==
  ASSUME TypeInv, ListInv, NEW m \in loaded
  PROVE  Listed(CrcOf[m]) /\ ~Going(CrcOf[m])
  <1> DEFINE c == CrcOf[m]
  <1>1. c \in Crcs /\ References(c) > 0
    BY ReferencesFacts DEF TypeInv, TypeOK
  <1>2. ASSUME NEW l \in Loaders, loader[l].pc # "idle", Crc(l) = c
        PROVE  Listed(c) /\ loader[l].pc # "drop"
    <2>1. UnderWay(l) /\ loader[l].pc \in LoaderPCs
      BY <1>2 DEF ListInv, TypeInv, TypeOK, LoaderState
    <2>2. References(c) # 0
      BY <1>1, ReferencesFacts
    <2>3. QED
      BY <1>1, <1>2, <2>1, <2>2 DEF UnderWay, Agrees, LoaderPCs
  <1>3. ~Going(c)
    BY <1>2 DEF Going
  <1>4. Listed(c)
    <2>1. CASE Free(c)
      BY <1>1, <2>1 DEF ListInv, Agrees
    <2>2. CASE ~Free(c)
      BY <1>2, <2>2 DEF Free
    <2>3. QED
      BY <2>1, <2>2
  <1>5. QED
    BY <1>3, <1>4

(* If callbacks of one cubin do not overlap, a semaphore that has the same *)
(* value before and after one consumer goes and another comes can hide a   *)
(* consumer for a Period and no longer: whoever has been attached longer   *)
(* than that, and a callback's delay, knows the cubins of all the loaded   *)
(* modules after any replay.                                               *)
THEOREM RefreshReachesEveryone ==
  StaysSpec /\ []OneAtATime => [][RefreshReaches]_<<vars, stays>>
  <1>1. TypeInv /\ ListInv /\ StaysInv => RefreshReaches
    <2> SUFFICES ASSUME TypeInv, ListInv, StaysInv, NEW t \in Callers,
                        NEW k \in attached, NEW m \in loaded,
                        Replay(t), stays[k] > Period + MaxStall
                 PROVE  CrcOf[m] \in known'[k]
      BY DEF RefreshReaches
    <2>1. /\ attached \subseteq Consumers /\ k \in Consumers
          /\ known'[k] = known[k] \cup {e.crc : e \in Due(t)}
      BY DEF TypeInv, TypeOK, Replay, Told
    <2>2. PICK e \in loadedCubins : e.crc = CrcOf[m]
      BY LoadedStays DEF Listed
    <2>3. e.crc \in known[k] \/ stays[k] <= e.age
      BY <2>2, LoadedStays DEF StaysInv, ListKnown, Knows
    <2>4. /\ e.age \in Nat /\ caller[t].lag \in Nat /\ caller[t].lag <= MaxStall
          /\ stays[k] \in Nat
      BY <2>1
      DEF TypeInv, TypeOK, CubinRef, CallerState, Ages, Lags, StaysInv
    <2>5. CASE stays[k] <= e.age
      <3>1. MoreThanAPeriod(e.age, caller[t].lag)
        BY <2>4, <2>5 DEF MoreThanAPeriod
      <3>2. e \in Due(t)
        BY <3>1 DEF Due
      <3>3. QED
        BY <2>1, <2>2, <3>2
    <2>6. QED
      BY <2>1, <2>2, <2>3, <2>5
  <1>2. StaysSpec /\ []OneAtATime => []TypeInv /\ []ListInv
    BY StaysOnlyWatches, ConsumerAssumption, TypeInvariant, ListInvariant, PTL
  <1>3. QED
    BY <1>1, <1>2, StaysInvariant, PTL

=============================================================================
