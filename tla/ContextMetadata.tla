--------------------------- MODULE ContextMetadata ---------------------------
(***************************************************************************)
(* What setting a context up for PC sampling leaves for consumers to learn *)
(* (ConfigureData::initialize, PCSampling::initialize and emitMetadata,    *)
(* src/src/pc_sampling.cpp, and StallReasonMap, src/src/stall_reason_map.h)*)
(*                                                                         *)
(* Under contextMutex a thread asks CUPTI for the context's stall reasons, *)
(* makes buffers with room for them, rebuilds the one table of their names *)
(* and announces the configuration of the GPU.  API callbacks of other     *)
(* threads meanwhile replay table and configurations to consumers that     *)
(* have joined, or on refresh: the configurations under contextMutex, the  *)
(* table under no lock.  A consumer (handle_stall_reason_map,              *)
(* src/test/bpf/activity_parser.bpf.c) takes in the first table it is shown*)
(* and no other.                                                           *)
(*                                                                         *)
(* The semaphores of the two probes count the same consumers; how several  *)
(* threads get in each other's way between reading one and exchanging it is*)
(* in CubinReplay.  Time passes in whole periods of kEmitRefreshPeriodNs.  *)
(* Entries that a reset adds for the same context are one.                 *)
(***************************************************************************)
EXTENDS Integers, FiniteSets

CONSTANTS
  Threads,
  Contexts,
  Consumers,
  Nobody,        (* the owner of a free mutex                              *)
  StallReasons   (* the number of stall reasons of a context's GPU         *)

ASSUME NobodyAssumption == Nobody \notin Threads
ASSUME ConsumersAssumption == IsFiniteSet(Consumers)
ASSUME StallReasonsAssumption == StallReasons \in [Contexts -> Nat \ {0}]

VARIABLES
  thread,          (* how far each thread is in its callback               *)
  contextMutex,
  tried,           (* contexts somebody has set up, or failed to           *)
  contextInitialized,
  configData,      (* per context: stall reasons, and room for them        *)
  buf,             (* StallReasonMap: what its buf points to               *)
  loadedConfigs,   (* contexts whose GPU configuration is on the list      *)
  stale,           (* those not announced for a period                     *)
  refreshDue,      (* a period has passed since lastRefreshNs              *)
  prevStallSem,
  prevConfigSem,
  attached,        (* consumers                                            *)
  table,           (* consumers: the stall reason names                    *)
  configs,         (* consumers: the GPU configurations                    *)
  raced            (* history: the table was shown while it was built      *)

setup == <<contextMutex, tried, contextInitialized, configData>>
emission == <<refreshDue, prevStallSem, prevConfigSem>>
list == <<loadedConfigs, stale>>
world == <<attached, table, configs>>
mvars == <<thread, setup, buf, list, emission, world, raced>>

-----------------------------------------------------------------------------

InitPCs == {"stallReasons", "attributes", "output", "free", "alloc", "fill",
            "gpuConfig"}
EmitPCs == {"stall", "config", "replay"}

(* The contexts that are set up are among those tried, and nothing is      *)
(* listed or known that was not set up.                                    *)
MTypeOK ==
  /\ thread \in [Threads -> [pc : {"idle"} \cup InitPCs \cup EmitPCs, ctx : Contexts,
                             refresh : BOOLEAN, join : BOOLEAN]]
  /\ contextMutex \in Threads \cup {Nobody}
  /\ contextInitialized \subseteq tried /\ tried \subseteq Contexts
  /\ configData \in [Contexts -> [stallReasons : Nat, sampling : Nat, output : Nat]]
  /\ buf \in {"null", "freed", "zeroed", "filled"}
  /\ stale \subseteq loadedConfigs /\ loadedConfigs \subseteq tried
  /\ refreshDue \in BOOLEAN
  /\ prevStallSem \in Nat /\ prevConfigSem \in Nat
  /\ attached \subseteq Consumers
  /\ table \in [Consumers -> {"empty", "names", "rubbish"}]
  /\ configs \in [Consumers -> SUBSET loadedConfigs]
  /\ raced \in BOOLEAN

NoData == [stallReasons |-> 0, sampling |-> 0, output |-> 0]

MInit ==
  /\ \E c \in Contexts :
       thread = [t \in Threads |-> [pc |-> "idle", ctx |-> c, refresh |-> FALSE,
                                    join |-> FALSE]]
  /\ contextMutex = Nobody
  /\ tried = {}
  /\ contextInitialized = {}
  /\ configData = [c \in Contexts |-> NoData]
  /\ buf = "null"
  /\ loadedConfigs = {}
  /\ stale = {}
  /\ refreshDue = TRUE
  /\ prevStallSem = 0
  /\ prevConfigSem = 0
  /\ attached = {}
  /\ table = [k \in Consumers |-> "empty"]
  /\ configs = [k \in Consumers |-> {}]
  /\ raced = FALSE

-----------------------------------------------------------------------------
(***************************************************************************)
(* initialize.                                                             *)
(***************************************************************************)

Moves(t, from, to) ==
  /\ thread[t].pc = from
  /\ thread' = [thread EXCEPT ![t].pc = to]

(* A context is created, or reset after CUPTI ran out of memory: finalize, *)
(* here in one step with what follows it, has erased what was known of it. *)
InitializeContext(t, c) ==
  /\ thread[t].pc = "idle"
  /\ contextMutex = Nobody
  /\ c \notin tried \/ c \in contextInitialized
  /\ contextMutex' = t
  /\ tried' = tried \cup {c}
  /\ contextInitialized' = contextInitialized \ {c}
  /\ configData' = [configData EXCEPT ![c] = NoData]
  /\ thread' = [thread EXCEPT ![t].pc = "stallReasons", ![t].ctx = c]
  /\ UNCHANGED <<buf, list, emission, world, raced>>

(* PC sampling cannot be enabled, or a CUPTI call throws: the context is   *)
(* created once, and not tried again.                                      *)
InitializeThrows(t) ==
  /\ thread[t].pc \in {"stallReasons", "attributes"}
  /\ contextMutex' = Nobody
  /\ thread' = [thread EXCEPT ![t].pc = "idle"]
  /\ UNCHANGED <<tried, contextInitialized, configData, buf, list, emission, world,
                 raced>>

(* configureStallReasons *)
ConfigureStallReasons(t) ==
  LET c == thread[t].ctx IN
  /\ Moves(t, "stallReasons", "attributes")
  /\ configData' = [configData EXCEPT ![c].stallReasons = StallReasons[c]]
  /\ UNCHANGED <<contextMutex, tried, contextInitialized, buf, list, emission, world,
                 raced>>

(* The other attributes, the sampling buffer among them, go to CUPTI. *)
ConfigureAttributes(t) ==
  LET c == thread[t].ctx IN
  /\ Moves(t, "attributes", "output")
  /\ configData' = [configData EXCEPT ![c].sampling = configData[c].stallReasons]
  /\ UNCHANGED <<contextMutex, tried, contextInitialized, buf, list, emission, world,
                 raced>>

(* Fault: outputData is left as it was. *)
NoOutputData(t) ==
  /\ Moves(t, "output", "free")
  /\ UNCHANGED <<setup, buf, list, emission, world, raced>>

AllocOutputData(t) ==
  LET c == thread[t].ctx IN
  /\ Moves(t, "output", "free")
  /\ configData' = [configData EXCEPT ![c].output = configData[c].stallReasons]
  /\ UNCHANGED <<contextMutex, tried, contextInitialized, buf, list, emission, world,
                 raced>>

(* StallReasonMap::build: free, calloc, and the names. *)
BuildFree(t) ==
  /\ Moves(t, "free", "alloc")
  /\ buf' = IF buf = "null" THEN buf ELSE "freed"
  /\ UNCHANGED <<setup, list, emission, world, raced>>

BuildAlloc(t) ==
  /\ Moves(t, "alloc", "fill")
  /\ buf' = "zeroed"
  /\ UNCHANGED <<setup, list, emission, world, raced>>

BuildFill(t) ==
  /\ Moves(t, "fill", "gpuConfig")
  /\ buf' = "filled"
  /\ UNCHANGED <<setup, list, emission, world, raced>>

Told(known) ==
  [k \in Consumers |-> IF k \in attached THEN configs[k] \cup known ELSE configs[k]]

(* Fault: announced, and not put on the list. *)
AnnounceUnlisted(t) ==
  /\ Moves(t, "gpuConfig", "idle")
  /\ contextInitialized' = contextInitialized \cup {thread[t].ctx}
  /\ configs' = Told({thread[t].ctx})
  /\ contextMutex' = Nobody
  /\ UNCHANGED <<tried, configData, buf, list, emission, attached, table, raced>>

(* The GPU configuration is announced and listed, under the lock still. *)
AnnounceConfig(t) ==
  /\ Moves(t, "gpuConfig", "idle")
  /\ contextInitialized' = contextInitialized \cup {thread[t].ctx}
  /\ loadedConfigs' = loadedConfigs \cup {thread[t].ctx}
  /\ stale' = stale \ {thread[t].ctx}
  /\ configs' = Told({thread[t].ctx})
  /\ contextMutex' = Nobody
  /\ UNCHANGED <<tried, configData, buf, emission, attached, table, raced>>

-----------------------------------------------------------------------------
(***************************************************************************)
(* emitMetadata.                                                           *)
(***************************************************************************)

Returns(t) ==
  thread' = [thread EXCEPT ![t].pc = "idle", ![t].refresh = FALSE, ![t].join = FALSE]

EmitMetadata(t) ==
  /\ thread[t].pc = "idle"
  /\ refreshDue' = FALSE
  /\ thread' = [thread EXCEPT ![t].pc = "stall", ![t].refresh = refreshDue]
  /\ UNCHANGED <<setup, buf, list, prevStallSem, prevConfigSem, world, raced>>

Sem == Cardinality(attached)

(* What a consumer reads through the pointer it is shown: memory that was  *)
(* freed may hold anything.                                                *)
Readable == IF buf = "filled" THEN {"names"}
            ELSE IF buf = "freed" THEN {"names", "rubbish"} ELSE {"rubbish"}

Shown(t) == Sem > 0 /\ (Sem > prevStallSem \/ thread[t].refresh)

ShowTable ==
  /\ \E names \in Readable :
       table' = [k \in Consumers |->
         IF k \in attached /\ table[k] = "empty" THEN names ELSE table[k]]
  /\ raced' = (raced \/ \E u \in Threads : thread[u].pc \in {"alloc", "fill"})

(* Fault: it is not asked whether there is a table.                        *)
EmitAnyTable(t) ==
  /\ Moves(t, "stall", "config")
  /\ prevStallSem' = Sem
  /\ IF Shown(t) THEN ShowTable ELSE UNCHANGED <<table, raced>>
  /\ UNCHANGED <<setup, buf, list, refreshDue, prevConfigSem, attached, configs>>

(* Fault: the table is only shown to those who join.                       *)
EmitTableOnJoin(t) ==
  /\ Moves(t, "stall", "config")
  /\ prevStallSem' = Sem
  /\ IF buf # "null" /\ Sem > prevStallSem
     THEN ShowTable ELSE UNCHANGED <<table, raced>>
  /\ UNCHANGED <<setup, buf, list, refreshDue, prevConfigSem, attached, configs>>

(* The count is exchanged whether there is a table to show or not. *)
EmitStallReasonMap(t) ==
  /\ Moves(t, "stall", "config")
  /\ prevStallSem' = Sem
  /\ IF buf # "null" /\ Shown(t) THEN ShowTable ELSE UNCHANGED <<table, raced>>
  /\ UNCHANGED <<setup, buf, list, refreshDue, prevConfigSem, attached, configs>>

EmitConfigs(t) ==
  LET join == Sem > prevConfigSem IN
  /\ thread[t].pc = "config"
  /\ prevConfigSem' = Sem
  /\ IF Sem > 0 /\ (join \/ thread[t].refresh)
     THEN thread' = [thread EXCEPT ![t].pc = "replay", ![t].join = join]
     ELSE Returns(t)
  /\ UNCHANGED <<setup, buf, list, refreshDue, prevStallSem, world, raced>>

ReplayConfigs(t) ==
  LET due == IF thread[t].join THEN loadedConfigs ELSE stale IN
  /\ thread[t].pc = "replay"
  /\ Returns(t)
  /\ contextMutex = Nobody
  /\ configs' = Told(due)
  /\ stale' = stale \ due
  /\ UNCHANGED <<setup, buf, loadedConfigs, emission, attached, table, raced>>

-----------------------------------------------------------------------------

(* Attached or not, a consumer begins with nothing. *)
Comes(k, now) ==
  /\ attached' = now
  /\ table' = [table EXCEPT ![k] = "empty"]
  /\ configs' = [configs EXCEPT ![k] = {}]
  /\ UNCHANGED <<thread, setup, buf, list, emission, raced>>

Attach(k) == k \notin attached /\ Comes(k, attached \cup {k})
Detach(k) == k \in attached /\ Comes(k, attached \ {k})

PeriodPasses ==
  /\ refreshDue' = TRUE
  /\ stale' = loadedConfigs
  /\ UNCHANGED <<thread, setup, buf, loadedConfigs, prevStallSem, prevConfigSem, world,
                 raced>>

InitStep(t) ==
  \/ InitializeThrows(t) \/ ConfigureStallReasons(t) \/ ConfigureAttributes(t)
  \/ AllocOutputData(t) \/ BuildFree(t) \/ BuildAlloc(t) \/ BuildFill(t)
  \/ AnnounceConfig(t)

EmitStep(t) ==
  EmitMetadata(t) \/ EmitStallReasonMap(t) \/ EmitConfigs(t) \/ ReplayConfigs(t)

MNext ==
  \/ \E t \in Threads :
       InitStep(t) \/ EmitStep(t) \/ \E c \in Contexts : InitializeContext(t, c)
  \/ \E k \in Consumers : Attach(k) \/ Detach(k)
  \/ PeriodPasses

MSpec == MInit /\ [][MNext]_mvars

(* Every thread goes on making API calls, in which it gets a mutex that is *)
(* free again and again, and periods pass.                                 *)
FairSpec ==
  /\ MSpec
  /\ \A t \in Threads : WF_mvars(InitStep(t)) /\ SF_mvars(EmitStep(t))
  /\ WF_mvars(PeriodPasses)

-----------------------------------------------------------------------------
(***************************************************************************)
(* Properties.                                                             *)
(***************************************************************************)

(* CUPTI writes as many stall reasons per record as the context has: the   *)
(* buffers of a context that samples have that much room.                  *)
RoomForStallReasons ==
  \A c \in contextInitialized :
    /\ configData[c].sampling = StallReasons[c]
    /\ configData[c].output = StallReasons[c]

(* A consumer takes the first table it is shown for good; it is the whole  *)
(* table, unless a context was being set up at that very moment.           *)
TableWhole == ~raced => \A k \in Consumers : table[k] # "rubbish"

(* A consumer that stays has the stall reasons and the configurations of   *)
(* all GPUs in the end, also one that came before there was a table and    *)
(* whose coming was used up without it; no configuration is lost between   *)
(* the probe and the list.                                                 *)
MetadataComes ==
  \A k \in Consumers, c \in Contexts :
    (k \in attached /\ c \in contextInitialized)
      ~> (k \notin attached \/ (table[k] # "empty" /\ c \in configs[k]))

=============================================================================
