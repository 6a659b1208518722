---------------------------- MODULE CubinReplay ----------------------------
(***************************************************************************)
(* How consumers learn which cubins are loaded (loadModule, unloadModule   *)
(* and emitMetadata of class PCSampling, src/src/pc_sampling.cpp).         *)
(*                                                                         *)
(* A cubin is announced (cubin_loaded) when the first module with its CRC  *)
(* is loaded, and put on a list.  For consumers that attach later every    *)
(* API callback calls emitMetadata: when the probe's semaphore, the number *)
(* of attached consumers, has grown since the last call the whole list is  *)
(* announced again; after a Period those entries are that have not been    *)
(* announced for as long.                                                  *)
(*                                                                         *)
(* A thread keeps nothing from one callback to the next, so threads are    *)
(* divided into those that make API calls and those that load modules.     *)
(* contextMutex is held for one step at a time.  Times are kept as ages:   *)
(* of what is shared, and of the nowNs a thread has read.  The stall reason*)
(* table and the GPU configurations, replayed by the same code with        *)
(* semaphores and counts of their own, are in ContextMetadata.             *)
(***************************************************************************)
EXTENDS Integers, FiniteSets

CONSTANTS
  Callers,      (* threads in API callbacks                               *)
  Loaders,      (* threads in module callbacks                            *)
  Consumers,
  Modules,
  Crcs,
  CrcOf,        (* the CRC of a module's cubin                            *)
  Period,       (* kEmitRefreshPeriodNs                                   *)
  MaxStall,     (* bound: ticks for which a thread may use its nowNs      *)
  NoModule      (* a loader outside its callbacks has none                *)

ASSUME CubinAssumption == CrcOf \in [Modules -> Crcs] /\ IsFiniteSet(Modules)
ASSUME NoModuleAssumption == NoModule \notin Modules
ASSUME ConsumerAssumption == IsFiniteSet(Consumers)
ASSUME TimeAssumption == Period \in Nat /\ MaxStall \in Nat

(* An age that has come this far is more than a Period for every thread.   *)
Old == Period + MaxStall + 1
Ages == 0 .. Old
Lags == 0 .. MaxStall

VARIABLES
  attached,       (* consumers; the semaphore is their number             *)
  known,          (* consumers: the cubins each was told of               *)
  loaded,         (* modules between their two callbacks                  *)
  refs,           (* cubinCrcToCubinData: CRC -> reference count          *)
  loadedCubins,   (* the list, with the age of each lastEmittedNs         *)
  prevCubinSem,
  lastRefresh,    (* the age of lastRefreshNs                             *)
  caller,         (* how far each caller is in emitMetadata               *)
  loader          (* how far each loader is in its callback               *)

world == <<attached, known>>
counts == <<loaded, refs>>
emission == <<prevCubinSem, lastRefresh, caller>>
shared == <<loadedCubins, prevCubinSem, lastRefresh>>
vars == <<world, counts, loadedCubins, emission, loader>>

-----------------------------------------------------------------------------

CallerPCs == {"idle", "checkRefresh", "storeRefresh", "readSem", "exchange",
              "replay"}
LoaderPCs == {"idle", "countUp", "countStore", "newEntry", "setOne",
              "fireLoaded", "push", "readCount", "countDown", "erase",
              "fireUnloaded", "drop"}

CallerState == [pc : CallerPCs, lag : Lags, refresh : BOOLEAN, sem : Nat,
                join : BOOLEAN]
LoaderState == [pc : LoaderPCs, module : Modules \cup {NoModule}, count : Nat,
                lag : Lags]
CubinRef == [crc : Crcs, age : Ages]

(* Maps and lists are about cubins, and ages stay within their cap. *)
TypeOK ==
  /\ attached \subseteq Consumers
  /\ known \in [Consumers -> SUBSET Crcs]
  /\ loaded \subseteq Modules
  /\ DOMAIN refs \subseteq Crcs /\ refs \in [DOMAIN refs -> Nat]
  /\ loadedCubins \subseteq CubinRef
  /\ prevCubinSem \in Nat
  /\ lastRefresh \in Ages
  /\ caller \in [Callers -> CallerState]
  /\ loader \in [Loaders -> LoaderState]

IdleCaller ==
  [pc |-> "idle", lag |-> 0, refresh |-> FALSE, sem |-> 0, join |-> FALSE]
IdleLoader == [pc |-> "idle", module |-> NoModule, count |-> 0, lag |-> 0]

(* lastRefreshNs is 0, and the machine has been up for more than a Period.  *)
Init ==
  /\ attached = {}
  /\ known = [k \in Consumers |-> {}]
  /\ loaded = {}
  /\ refs = [c \in {} |-> 0]
  /\ loadedCubins = {}
  /\ prevCubinSem = 0
  /\ lastRefresh = Old
  /\ caller = [t \in Callers |-> IdleCaller]
  /\ loader = [l \in Loaders |-> IdleLoader]

-----------------------------------------------------------------------------
(***************************************************************************)
(* emitMetadata.                                                           *)
(***************************************************************************)

(* nowNs - then > kEmitRefreshPeriodNs, of an age and the age of nowNs: the *)
(* difference of two uint64_t, so a time after nowNs is more than a Period *)
(* ago.                                                                    *)
MoreThanAPeriod(age, lag) == age - lag > Period \/ age < lag

Goes(t, pc) == caller' = [caller EXCEPT ![t].pc = pc]

(* nowNs = emitMetadataNowNs() *)
EmitMetadata(t) ==
  /\ caller[t].pc = "idle"
  /\ Goes(t, "checkRefresh")
  /\ UNCHANGED <<world, counts, shared, loader>>

(* Fault: the refresh is forgotten. *)
CheckRefreshNever(t) ==
  /\ caller[t].pc = "checkRefresh"
  /\ Goes(t, "readSem")
  /\ UNCHANGED <<world, counts, shared, loader>>

CheckRefresh(t) ==
  LET refresh == MoreThanAPeriod(lastRefresh, caller[t].lag) IN
  /\ caller[t].pc = "checkRefresh"
  /\ caller' = [caller EXCEPT
       ![t].refresh = refresh,
       ![t].pc = IF refresh THEN "storeRefresh" ELSE "readSem"]
  /\ UNCHANGED <<world, counts, shared, loader>>

StoreRefresh(t) ==
  /\ caller[t].pc = "storeRefresh"
  /\ lastRefresh' = caller[t].lag
  /\ Goes(t, "readSem")
  /\ UNCHANGED <<world, counts, loadedCubins, prevCubinSem, loader>>

ReadSem(t) ==
  /\ caller[t].pc = "readSem"
  /\ caller' = [caller EXCEPT ![t].pc = "exchange",
                              ![t].sem = Cardinality(attached)]
  /\ UNCHANGED <<world, counts, shared, loader>>

(* The decision to replay. *)
ReplaysOrReturns(t, join) ==
  caller' = [caller EXCEPT ![t] =
    IF caller[t].sem > 0 /\ (join \/ caller[t].refresh)
    THEN [IdleCaller EXCEPT !.pc = "replay", !.lag = caller[t].lag,
                            !.join = join]
    ELSE IdleCaller]

(* Fault: what is kept is the difference. *)
ExchangeForDifference(t) ==
  /\ caller[t].pc = "exchange"
  /\ prevCubinSem' = caller[t].sem - prevCubinSem
  /\ ReplaysOrReturns(t, caller[t].sem > prevCubinSem)
  /\ UNCHANGED <<world, counts, loadedCubins, lastRefresh, loader>>

(* prevCubinSem.exchange *)
Exchange(t) ==
  /\ caller[t].pc = "exchange"
  /\ prevCubinSem' = caller[t].sem
  /\ ReplaysOrReturns(t, caller[t].sem > prevCubinSem)
  /\ UNCHANGED <<world, counts, loadedCubins, lastRefresh, loader>>

Due(t) ==
  {e \in loadedCubins :
     caller[t].join \/ MoreThanAPeriod(e.age, caller[t].lag)}

(* Everybody attached is told of the cubins. *)
Told(cubins) ==
  [k \in Consumers |->
     IF k \in attached THEN known[k] \cup cubins ELSE known[k]]

(* The loop over loadedCubins, under contextMutex.  A consumer that attaches*)
(* in the middle of it has missed some entries; it is taken to attach after.*)
Replay(t) ==
  /\ caller[t].pc = "replay"
  /\ known' = Told({e.crc : e \in Due(t)})
  /\ loadedCubins' = (loadedCubins \ Due(t)) \cup
       {[crc |-> e.crc, age |-> caller[t].lag] : e \in Due(t)}
  /\ caller' = [caller EXCEPT ![t] = IdleCaller]
  /\ UNCHANGED <<attached, counts, prevCubinSem, lastRefresh, loader>>

-----------------------------------------------------------------------------
(***************************************************************************)
(* loadModule and unloadModule.  cubinCrcToCubinData locks itself for each *)
(* contain, operator[] and erase, not between them; operator[] makes an    *)
(* entry with count 0 where there is none.                                 *)
(***************************************************************************)

Crc(l) == CrcOf[loader[l].module]

Count(c) == IF c \in DOMAIN refs THEN refs[c] ELSE 0
WithCount(c, n) ==
  [x \in DOMAIN refs \cup {c} |-> IF x = c THEN n ELSE refs[x]]

Moves(l, from, to) ==
  /\ loader[l].pc = from
  /\ loader' = [loader EXCEPT ![l].pc = to]

(* The callback is over: the module is loaded. *)
Returns(l) == loader' = [loader EXCEPT ![l] = IdleLoader]
Loaded(l) == loaded' = loaded \cup {loader[l].module}

(* MODULE_LOADED: contain. *)
LoadModule(l, m) ==
  /\ loader[l].pc = "idle"
  /\ m \notin loaded
  /\ \A x \in Loaders : loader[x].module # m
  /\ loader' = [loader EXCEPT
       ![l].pc = IF CrcOf[m] \in DOMAIN refs THEN "countUp" ELSE "newEntry",
       ![l].module = m]
  /\ UNCHANGED <<world, counts, loadedCubins, emission>>

(* second++ is a load and a store. *)
CountUp(l) ==
  /\ loader[l].pc = "countUp"
  /\ loader' = [loader EXCEPT ![l].pc = "countStore",
                              ![l].count = Count(Crc(l))]
  /\ refs' = WithCount(Crc(l), Count(Crc(l)))
  /\ UNCHANGED <<world, loaded, loadedCubins, emission>>

(* The store goes through the reference: an entry erased since stays away. *)
CountStore(l) ==
  /\ loader[l].pc = "countStore"
  /\ refs' = IF Crc(l) \in DOMAIN refs
             THEN WithCount(Crc(l), loader[l].count + 1) ELSE refs
  /\ Loaded(l)
  /\ Returns(l)
  /\ UNCHANGED <<world, loadedCubins, emission>>

(* getCubinData makes the entry; the count follows. *)
NewEntry(l) ==
  /\ Moves(l, "newEntry", "setOne")
  /\ refs' = WithCount(Crc(l), Count(Crc(l)))
  /\ UNCHANGED <<world, loaded, loadedCubins, emission>>

(* The count, and then emittedNs = emitMetadataNowNs(). *)
SetOne(l) ==
  /\ Moves(l, "setOne", "fireLoaded")
  /\ refs' = WithCount(Crc(l), 1)
  /\ UNCHANGED <<world, loaded, loadedCubins, emission>>

FireCubinLoaded(l) ==
  /\ Moves(l, "fireLoaded", "push")
  /\ known' = Told({Crc(l)})
  /\ UNCHANGED <<attached, counts, loadedCubins, emission>>

Push(l) ==
  /\ loader[l].pc = "push"
  /\ loadedCubins' =
       loadedCubins \cup {[crc |-> Crc(l), age |-> loader[l].lag]}
  /\ Loaded(l)
  /\ Returns(l)
  /\ UNCHANGED <<world, refs, emission>>

(* MODULE_UNLOAD_STARTING: contain. *)
UnloadModule(l, m) ==
  /\ loader[l].pc = "idle"
  /\ m \in loaded
  /\ loaded' = loaded \ {m}
  /\ IF CrcOf[m] \in DOMAIN refs
     THEN loader' = [loader EXCEPT ![l].pc = "readCount", ![l].module = m]
     ELSE UNCHANGED loader
  /\ UNCHANGED <<world, refs, loadedCubins, emission>>

(* Fault: the last reference only counts down. *)
ReadCountKeeps(l) ==
  /\ loader[l].pc = "readCount"
  /\ refs' = WithCount(Crc(l), Count(Crc(l)))
  /\ loader' = [loader EXCEPT
       ![l].pc = IF Count(Crc(l)) > 0 THEN "countDown" ELSE "erase",
       ![l].count = Count(Crc(l))]
  /\ UNCHANGED <<world, loaded, loadedCubins, emission>>

ReadCount(l) ==
  /\ loader[l].pc = "readCount"
  /\ refs' = WithCount(Crc(l), Count(Crc(l)))
  /\ loader' = [loader EXCEPT
       ![l].pc = IF Count(Crc(l)) > 1 THEN "countDown" ELSE "erase",
       ![l].count = Count(Crc(l))]
  /\ UNCHANGED <<world, loaded, loadedCubins, emission>>

CountDown(l) ==
  /\ loader[l].pc = "countDown"
  /\ refs' = WithCount(Crc(l), loader[l].count - 1)
  /\ Returns(l)
  /\ UNCHANGED <<world, loaded, loadedCubins, emission>>

Erase(l) ==
  /\ Moves(l, "erase", "fireUnloaded")
  /\ refs' = [c \in DOMAIN refs \ {Crc(l)} |-> refs[c]]
  /\ UNCHANGED <<world, loaded, loadedCubins, emission>>

(* cubin_unloaded: whoever is attached forgets the cubin. *)
FireCubinUnloaded(l) ==
  /\ Moves(l, "fireUnloaded", "drop")
  /\ known' = [k \in Consumers |->
       IF k \in attached THEN known[k] \ {Crc(l)} ELSE known[k]]
  /\ UNCHANGED <<attached, counts, loadedCubins, emission>>

Drop(l) ==
  /\ loader[l].pc = "drop"
  /\ loadedCubins' = {e \in loadedCubins : e.crc # Crc(l)}
  /\ Returns(l)
  /\ UNCHANGED <<world, counts, emission>>

-----------------------------------------------------------------------------
(***************************************************************************)
(* The world around.                                                       *)
(***************************************************************************)

(* A consumer that attaches begins with nothing. *)
Attach(k) ==
  /\ k \notin attached
  /\ attached' = attached \cup {k}
  /\ known' = [known EXCEPT ![k] = {}]
  /\ UNCHANGED <<counts, loadedCubins, emission, loader>>

Detach(k) ==
  /\ k \in attached
  /\ attached' = attached \ {k}
  /\ known' = [known EXCEPT ![k] = {}]
  /\ UNCHANGED <<counts, loadedCubins, emission, loader>>

Older(age) == IF age < Old THEN age + 1 ELSE Old

(* The threads that have read the clock. *)
CallerWaits(t) == caller[t].pc # "idle"
LoaderWaits(l) == loader[l].pc \in {"fireLoaded", "push"}

Tick ==
  /\ \A t \in Callers : caller[t].lag < MaxStall \/ ~CallerWaits(t)
  /\ \A l \in Loaders : loader[l].lag < MaxStall \/ ~LoaderWaits(l)
  /\ lastRefresh' = Older(lastRefresh)
  /\ loadedCubins' = {[e EXCEPT !.age = Older(@)] : e \in loadedCubins}
  /\ caller' = [t \in Callers |->
       IF CallerWaits(t) THEN [caller[t] EXCEPT !.lag = @ + 1] ELSE caller[t]]
  /\ loader' = [l \in Loaders |->
       IF LoaderWaits(l) THEN [loader[l] EXCEPT !.lag = @ + 1] ELSE loader[l]]
  /\ UNCHANGED <<world, counts, prevCubinSem>>

EmitStep(t) ==
  \/ EmitMetadata(t) \/ CheckRefresh(t) \/ StoreRefresh(t)
  \/ ReadSem(t) \/ Exchange(t) \/ Replay(t)

LoadStep(l) ==
  \/ CountUp(l) \/ CountStore(l) \/ NewEntry(l) \/ SetOne(l)
  \/ FireCubinLoaded(l) \/ Push(l)
  \/ ReadCount(l) \/ CountDown(l) \/ Erase(l)
  \/ FireCubinUnloaded(l) \/ Drop(l)

Next ==
  \/ \E t \in Callers : EmitStep(t)
  \/ \E l \in Loaders :
       LoadStep(l) \/ \E m \in Modules : LoadModule(l, m) \/ UnloadModule(l, m)
  \/ \E k \in Consumers : Attach(k) \/ Detach(k)
  \/ Tick

Spec == Init /\ [][Next]_vars

(***************************************************************************)
(* The program goes on making API calls, callbacks run on, and time goes   *)
(* by.  Nothing is assumed of modules and consumers.                       *)
(***************************************************************************)
Fairness ==
  /\ \A t \in Callers : WF_vars(EmitStep(t))
  /\ \A l \in Loaders : WF_vars(LoadStep(l))
  /\ WF_vars(Tick)

FairSpec == Spec /\ Fairness

-----------------------------------------------------------------------------
(***************************************************************************)
(* Properties.                                                             *)
(***************************************************************************)

NoModuleCallback == \A l \in Loaders : loader[l].pc = "idle"

(* With one loading thread, the list that is replayed and the reference    *)
(* counts agree with what is loaded whenever no callback is under way: a   *)
(* cubin shared by several modules stays until the last of them goes.      *)
ListMatchesModules ==
  NoModuleCallback =>
    \A c \in Crcs :
      LET n == Cardinality({m \in loaded : CrcOf[m] = c}) IN
      /\ Count(c) = n /\ (c \in DOMAIN refs <=> n > 0)
      /\ Cardinality({e \in loadedCubins : e.crc = c}) =
           (IF n > 0 THEN 1 ELSE 0)

(* The list is "for replaying cubin_loaded probes to late-attaching        *)
(* tracers" (pc_sampling.h:157-158): the cubin of every loaded module is on*)
(* it.  Two threads that load modules of one cubin can lose a reference,   *)
(* and the first module to be unloaded takes the cubin off the list.       *)
LoadedModulesListed ==
  NoModuleCallback =>
    \A m \in loaded : \E e \in loadedCubins : e.crc = CrcOf[m]

(* A consumer that stays attached is told of every module that stays       *)
(* loaded, although a change of the semaphore may pass unnoticed: "Bounds  *)
(* how long an undetected ABA semaphore cycle [...] can leave a tracer     *)
(* missing cubins" (pc_sampling.cpp:686-688).                              *)
EveryConsumerTold ==
  \A k \in Consumers, m \in Modules :
    (k \in attached /\ m \in loaded)
      ~> (k \notin attached \/ m \notin loaded \/ CrcOf[m] \in known[k])

=============================================================================
