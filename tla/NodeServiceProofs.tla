-------------------------- MODULE NodeServiceProofs --------------------------
(***************************************************************************)
(* Proofs of the safety properties of NodeService, for every set of        *)
(* configurations.                                                         *)
(***************************************************************************)
EXTENDS NodeService, TLAPS

-----------------------------------------------------------------------------
(* The steps of a start-up *)

\* The steps and their positions.
LEMMA FullPositions ==
  /\ Len(FullSteps) = 11
  /\ FullSteps[1] = "new_parts" /\ FullSteps[2] = "transaction_pool"
  /\ FullSteps[3] = "block_import" /\ FullSteps[4] = "import_queue"
  /\ FullSteps[5] = "build_network" /\ FullSteps[6] = "offchain"
  /\ FullSteps[7] = "spawn_tasks" /\ FullSteps[8] = "babe"
  /\ FullSteps[9] = "authority_discovery" /\ FullSteps[10] = "grandpa"
  /\ FullSteps[11] = "start_network"
  BY DEF FullSteps, PartialSteps

LEMMA LightPositions ==
  /\ Len(LightSteps) = 8
  /\ LightSteps[1] = "new_parts" /\ LightSteps[2] = "transaction_pool"
  /\ LightSteps[3] = "block_import" /\ LightSteps[4] = "import_queue"
  /\ LightSteps[5] = "build_network" /\ LightSteps[6] = "start_network"
  /\ LightSteps[7] = "offchain" /\ LightSteps[8] = "spawn_tasks"
  BY DEF LightSteps, PartialSteps

LEMMA PartialPositions ==
  /\ Len(PartialSteps) = 4
  /\ PartialSteps[1] = "new_parts" /\ PartialSteps[2] = "transaction_pool"
  /\ PartialSteps[3] = "block_import" /\ PartialSteps[4] = "import_queue"
  BY DEF PartialSteps

\* A node is built in one of three ways.
LEMMA Kinds ==
  /\ ServiceKind \in {"full", "light", "partial"}
  /\ ServiceKind = "full" => Steps = FullSteps
  /\ ServiceKind = "light" => Steps = LightSteps
  /\ ServiceKind = "partial" => Steps = PartialSteps
  /\ ServiceKind = "full" => Len(Steps) = 11
  /\ ServiceKind = "light" => Len(Steps) = 8
  /\ ServiceKind = "partial" => Len(Steps) = 4
  BY FullPositions, LightPositions, PartialPositions DEF ServiceKind, Steps

\* The start-up stays within its steps.
LEMMA Within ==
  ASSUME TypeOK
  PROVE  /\ pc \in Nat /\ pc >= 1 /\ pc <= Len(Steps) + 1
         /\ Len(Steps) \in {4, 8, 11}
<1>1. Len(Steps) \in {4, 8, 11}
  BY Kinds
<1>2. pc \in 1 .. Len(Steps) + 1
  BY DEF TypeOK
<1> QED
  BY <1>1, <1>2

\* Where the start-up is when it takes a step.
LEMMA Located ==
  ASSUME TypeOK
  PROVE  /\ At("new_parts") => pc = 1
         /\ At("transaction_pool") => pc = 2
         /\ At("block_import") => pc = 3
         /\ At("import_queue") => pc = 4
         /\ At("build_network") => pc = 5 /\ ServiceKind # "partial"
         /\ At("offchain") => \/ ServiceKind = "full" /\ pc = 6
                              \/ ServiceKind = "light" /\ pc = 7
         /\ At("spawn_tasks") => \/ ServiceKind = "full" /\ pc = 7
                                 \/ ServiceKind = "light" /\ pc = 8
         /\ At("babe") => ServiceKind = "full" /\ pc = 8
         /\ At("authority_discovery") => ServiceKind = "full" /\ pc = 9
         /\ At("grandpa") => ServiceKind = "full" /\ pc = 10
         /\ At("start_network") => \/ ServiceKind = "full" /\ pc = 11
                                   \/ ServiceKind = "light" /\ pc = 6
<1>1. CASE ServiceKind = "full"
  <2>1. Steps = FullSteps /\ Len(Steps) = 11
    BY <1>1, Kinds
  <2>2. pc \in 1 .. 12
    BY <2>1, Within
  <2> QED
    BY <1>1, <2>1, <2>2, FullPositions DEF At
<1>2. CASE ServiceKind = "light"
  <2>1. Steps = LightSteps /\ Len(Steps) = 8
    BY <1>2, Kinds
  <2>2. pc \in 1 .. 9
    BY <2>1, Within
  <2> QED
    BY <1>2, <2>1, <2>2, LightPositions DEF At
<1>3. CASE ServiceKind = "partial"
  <2>1. Steps = PartialSteps /\ Len(Steps) = 4
    BY <1>3, Kinds
  <2>2. pc \in 1 .. 5
    BY <2>1, Within
  <2> QED
    BY <1>3, <2>1, <2>2, PartialPositions DEF At
<1> QED
  BY <1>1, <1>2, <1>3, Kinds

-----------------------------------------------------------------------------
(* The invariant *)

\* The position of the step that spawns a task that listens to the network.
OffchainAt == IF ServiceKind = "full" THEN 6 ELSE 7
ServiceAt  == IF ServiceKind = "full" THEN 7 ELSE 8

\* A listener the configuration asks for was spawned by the step that does so.
ListenersSpawned ==
  /\ pc > ServiceAt => tasks["service-tasks"] # "absent"
  /\ config.offchain /\ pc > OffchainAt => tasks["offchain-worker"] # "absent"
  /\ IsNetworkAuthority(config.role) /\ pc > 9 => tasks["authority-discovery-worker"] # "absent"
  /\ config.grandpa /\ pc > 10 => tasks["grandpa-voter"] # "absent"

\* The consensus tasks were not spawned before their step, so no step spawns
\* one that has ended.
ConsensusAbsent ==
  /\ pc <= 8 => tasks["babe-proposer"] = "absent"
  /\ pc <= 10 => tasks["grandpa-voter"] = "absent"

\* The network of a full node starts with its last step; that of a node that is
\* only needed in parts never does.
NetworkStarted ==
  network = "started" => \/ ServiceKind = "full" /\ pc = 12
                         \/ ServiceKind = "light"

\* A failure of an essential task is remembered for a task that has ended.
FailureIsReal ==
  essentialFailed => tasks["babe-proposer"] = "ended" \/ tasks["grandpa-voter"] = "ended"

\* Where the process is and whether its tasks were told to stop.
Phases ==
  /\ outcome = "running" => pc = Len(Steps) + 1
  /\ outcome \notin {"starting", "running"} => exit
  /\ outcome = "taken down" => essentialFailed

IInv ==
  /\ TypeOK
  /\ ListenersSpawned
  /\ ConsensusAbsent
  /\ NetworkStarted
  /\ FailureIsReal
  /\ Phases
  /\ NoEventMissed
  /\ SignersHoldKeys

LEMMA InitIInv == Init => IInv
<1> SUFFICES ASSUME Init PROVE IInv
  OBVIOUS
<1>1. pc = 1 /\ Len(Steps) \in {4, 8, 11}
  BY Kinds DEF Init
<1>2. TypeOK
  <2>1. pc \in 1 .. Len(Steps) + 1
    BY <1>1
  <2>2. tasks \in [Task -> {"absent", "running", "ended", "stopped"}]
    BY DEF Init
  <2> QED
    BY <2>1, <2>2 DEF Init, TypeOK
<1>3. ListenersSpawned /\ ConsensusAbsent
  BY <1>1, Kinds DEF Init, ListenersSpawned, ConsensusAbsent, OffchainAt, ServiceAt, Task
<1>4. NetworkStarted /\ FailureIsReal /\ Phases
  BY DEF Init, NetworkStarted, FailureIsReal, Phases
<1>5. NoEventMissed /\ SignersHoldKeys
  BY DEF Init, NoEventMissed, SignersHoldKeys, Signers, Task
<1> QED
  BY <1>2, <1>3, <1>4, <1>5 DEF IInv

-----------------------------------------------------------------------------
(* The steps of the start-up *)

\* What every step of the start-up does, and the positions after it.
LEMMA StartupStep ==
  ASSUME IInv, NEW step, At(step), NEW new \in SUBSET Task, Spawn(new), config' = config,
         UNCHANGED <<outcome, exit, essentialFailed, missed>>
  PROVE  /\ config' \in Configs /\ pc' \in 1 .. Len(Steps') + 1
         /\ outcome' = "starting"
         /\ tasks' \in [Task -> {"absent", "running", "ended", "stopped"}]
         /\ ServiceKind' = ServiceKind /\ Steps' = Steps
         /\ Phases' /\ NoEventMissed'
<1>1. ServiceKind' = ServiceKind /\ Steps' = Steps
  BY DEF ServiceKind, Steps
<1>2. pc \in Nat /\ pc >= 1 /\ pc <= Len(Steps) /\ outcome = "starting" /\ Len(Steps) \in Nat
  BY Within DEF IInv, At
<1>3. pc' \in 1 .. Len(Steps') + 1
  BY <1>1, <1>2 DEF Spawn
<1>4. tasks' \in [Task -> {"absent", "running", "ended", "stopped"}]
  <2>1. tasks \in [Task -> {"absent", "running", "ended", "stopped"}]
    BY DEF IInv, TypeOK
  <2> QED
    BY <2>1 DEF Spawn
<1>5. Phases' /\ NoEventMissed'
  BY <1>1, <1>2 DEF IInv, Phases, NoEventMissed
<1> QED
  BY <1>1, <1>2, <1>3, <1>4, <1>5 DEF IInv, TypeOK

\* A step that spawns the task its position stands for, and no consensus task
\* at another position, keeps what is known about the tasks.
LEMMA SpawnKeeps ==
  ASSUME IInv, NEW step, At(step), NEW new \in SUBSET Task, Spawn(new), config' = config,
         essentialFailed' = essentialFailed,
         pc = ServiceAt => "service-tasks" \in new,
         config.offchain /\ pc = OffchainAt => "offchain-worker" \in new,
         IsNetworkAuthority(config.role) /\ pc = 9 => "authority-discovery-worker" \in new,
         config.grandpa /\ pc = 10 => "grandpa-voter" \in new,
         pc # 8 => "babe-proposer" \notin new,
         pc # 10 => "grandpa-voter" \notin new
  PROVE  ListenersSpawned' /\ ConsensusAbsent' /\ FailureIsReal'
<1>1. ServiceKind' = ServiceKind /\ ServiceAt' = ServiceAt /\ OffchainAt' = OffchainAt
  BY DEF ServiceKind, ServiceAt, OffchainAt
<1>2. ServiceAt \in Nat /\ OffchainAt \in Nat /\ pc \in Nat /\ pc' = pc + 1
  BY Within DEF ServiceAt, OffchainAt, IInv, Spawn
<1>3. /\ tasks'["service-tasks"] = IF "service-tasks" \in new THEN "running" ELSE tasks["service-tasks"]
      /\ tasks'["offchain-worker"] = IF "offchain-worker" \in new THEN "running" ELSE tasks["offchain-worker"]
      /\ tasks'["authority-discovery-worker"] = IF "authority-discovery-worker" \in new
                                                THEN "running" ELSE tasks["authority-discovery-worker"]
      /\ tasks'["grandpa-voter"] = IF "grandpa-voter" \in new THEN "running" ELSE tasks["grandpa-voter"]
      /\ tasks'["babe-proposer"] = IF "babe-proposer" \in new THEN "running" ELSE tasks["babe-proposer"]
  BY DEF Spawn, Task
<1>4. ListenersSpawned /\ ConsensusAbsent /\ FailureIsReal
  BY DEF IInv
<1>5. ListenersSpawned'
  BY <1>1, <1>2, <1>3, <1>4 DEF ListenersSpawned
<1>6. ConsensusAbsent'
  BY <1>2, <1>3, <1>4 DEF ConsensusAbsent
<1>7. FailureIsReal'
  BY <1>2, <1>3, <1>4 DEF ConsensusAbsent, FailureIsReal
<1> QED
  BY <1>5, <1>6, <1>7

\* The step hands the keystore to the tasks that sign among those it spawns, if
\* the node is an authority.
KeysFollow(new) ==
  keys' \cap Signers = (keys \cap Signers) \cup OnlyIf(IsAuthority(config.role), new \cap Signers)

\* Then the tasks that sign and were spawned are still those that have it.
LEMMA KeysStep ==
  ASSUME IInv, NEW new \in SUBSET Task, Spawn(new), config' = config, KeysFollow(new)
  PROVE  SignersHoldKeys'
<1>1. tasks' = [t \in Task |-> IF t \in new THEN "running" ELSE tasks[t]]
  BY DEF Spawn
<1>2. Signers \subseteq Task
  BY DEF Signers, Task
<1>3. keys \cap Signers = {t \in Signers : IsAuthority(config.role) /\ tasks[t] # "absent"}
  BY DEF IInv, SignersHoldKeys
<1>4. \A t \in Signers : tasks'[t] # "absent" <=> t \in new \/ tasks[t] # "absent"
  BY <1>1, <1>2
<1> QED
  BY <1>3, <1>4 DEF KeysFollow, OnlyIf, SignersHoldKeys

\* A step of the start-up whose tasks are those of its position keeps the
\* invariant, when the network, the RPC servers and the keys it leaves do.
LEMMA StepKeeps ==
  ASSUME IInv, NEW step, At(step), NEW new \in SUBSET Task, Spawn(new), config' = config,
         UNCHANGED <<outcome, exit, essentialFailed, missed>>,
         pc = ServiceAt => "service-tasks" \in new,
         config.offchain /\ pc = OffchainAt => "offchain-worker" \in new,
         IsNetworkAuthority(config.role) /\ pc = 9 => "authority-discovery-worker" \in new,
         config.grandpa /\ pc = 10 => "grandpa-voter" \in new,
         pc # 8 => "babe-proposer" \notin new,
         pc # 10 => "grandpa-voter" \notin new,
         network' = network \/ (network' \in {"absent", "built", "started"} /\ NetworkStarted'),
         rpc' \subseteq {"system", "payment", "babe", "grandpa"},
         keys' \subseteq Task \cup {"babe-rpc"},
         KeysFollow(new)
  PROVE  IInv'
<1>1. /\ config' \in Configs /\ pc' \in 1 .. Len(Steps') + 1 /\ outcome' = "starting"
      /\ tasks' \in [Task -> {"absent", "running", "ended", "stopped"}]
      /\ ServiceKind' = ServiceKind /\ Steps' = Steps
      /\ Phases' /\ NoEventMissed'
  BY StartupStep
<1>2. ListenersSpawned' /\ ConsensusAbsent' /\ FailureIsReal'
  BY SpawnKeeps
<1>3. network' \in {"absent", "built", "started"}
  BY DEF IInv, TypeOK
<1>4. NetworkStarted'
  <2>1. CASE network' = network
    <3>1. NetworkStarted /\ pc \in Nat /\ pc <= Len(Steps)
      BY Within DEF IInv, At
    <3>2. ServiceKind = "full" => Len(Steps) = 11
      BY Kinds
    <3>3. ASSUME ServiceKind = "full" PROVE pc # 12
      <4>1. Len(Steps) = 11
        BY <3>2, <3>3
      <4> QED
        BY <3>1, <4>1
    <3> QED
      BY <1>1, <2>1, <3>1, <3>3 DEF NetworkStarted
  <2> QED
    BY <2>1
<1>5. TypeOK'
  <2>1. exit \in BOOLEAN /\ essentialFailed \in BOOLEAN /\ missed \subseteq Task
    BY DEF IInv, TypeOK
  <2> QED
    BY <1>1, <1>3, <2>1 DEF TypeOK
<1> QED
  BY <1>1, <1>2, <1>4, <1>5, KeysStep DEF IInv

\* Every step of the start-up keeps the invariant.
LEMMA StartupKeeps ==
  ASSUME IInv, Startup
  PROVE  IInv'
<1>1. TypeOK /\ SignersHoldKeys /\ ConsensusAbsent /\ rpc \subseteq {"system", "payment", "babe", "grandpa"}
      /\ keys \subseteq Task \cup {"babe-rpc"}
  BY DEF IInv, TypeOK
<1>2. /\ ServiceAt = IF ServiceKind = "full" THEN 7 ELSE 8
      /\ OffchainAt = IF ServiceKind = "full" THEN 6 ELSE 7
  BY DEF ServiceAt, OffchainAt
<1>3. CASE NewParts
  <2>1. PICK step \in {"new_parts", "block_import"} : At(step)
    BY <1>3 DEF NewParts
  <2>2. /\ Spawn({}) /\ config' = config
        /\ UNCHANGED <<outcome, exit, essentialFailed, missed>>
        /\ UNCHANGED <<network, rpc, keys>>
    BY <1>3 DEF NewParts
  <2>3. pc \in {1, 3}
    BY <1>1, <1>3, Located DEF NewParts
  <2>4. {} \in SUBSET Task
    BY DEF Task
  <2>5. /\ pc = ServiceAt => "service-tasks" \in {}
        /\ config.offchain /\ pc = OffchainAt => "offchain-worker" \in {}
        /\ IsNetworkAuthority(config.role) /\ pc = 9 => "authority-discovery-worker" \in {}
        /\ config.grandpa /\ pc = 10 => "grandpa-voter" \in {}
        /\ pc # 8 => "babe-proposer" \notin {}
        /\ pc # 10 => "grandpa-voter" \notin {}
    BY <1>2, <2>3
  <2>6. rpc' \subseteq {"system", "payment", "babe", "grandpa"}
    BY <1>1, <1>3, <2>2
  <2>7. keys' \subseteq Task \cup {"babe-rpc"} /\ KeysFollow({})
    BY <1>1, <1>3, <2>2 DEF KeysFollow, Signers, OnlyIf
  <2>8. network' = network \/ (network' \in {"absent", "built", "started"} /\ NetworkStarted')
    BY <2>2
  <2> QED
    BY <2>1, <2>2, <2>4, <2>5, <2>6, <2>7, <2>8, StepKeeps
<1>4. CASE NewTransactionPool
  <2>1. PICK step \in {"transaction_pool"} : At(step)
    BY <1>4 DEF NewTransactionPool
  <2>2. /\ Spawn({"txpool"}) /\ config' = config
        /\ UNCHANGED <<outcome, exit, essentialFailed, missed>>
        /\ UNCHANGED <<network, rpc, keys>>
    BY <1>4 DEF NewTransactionPool
  <2>3. pc = 2
    BY <1>1, <1>4, Located DEF NewTransactionPool
  <2>4. {"txpool"} \in SUBSET Task
    BY DEF Task
  <2>5. /\ pc = ServiceAt => "service-tasks" \in {"txpool"}
        /\ config.offchain /\ pc = OffchainAt => "offchain-worker" \in {"txpool"}
        /\ IsNetworkAuthority(config.role) /\ pc = 9 => "authority-discovery-worker" \in {"txpool"}
        /\ config.grandpa /\ pc = 10 => "grandpa-voter" \in {"txpool"}
        /\ pc # 8 => "babe-proposer" \notin {"txpool"}
        /\ pc # 10 => "grandpa-voter" \notin {"txpool"}
    BY <1>2, <2>3
  <2>6. rpc' \subseteq {"system", "payment", "babe", "grandpa"}
    BY <1>1, <1>4, <2>2
  <2>7. keys' \subseteq Task \cup {"babe-rpc"} /\ KeysFollow({"txpool"})
    BY <1>1, <1>4, <2>2 DEF KeysFollow, Signers, OnlyIf
  <2>8. network' = network \/ (network' \in {"absent", "built", "started"} /\ NetworkStarted')
    BY <2>2
  <2> QED
    BY <2>1, <2>2, <2>4, <2>5, <2>6, <2>7, <2>8, StepKeeps
<1>5. CASE NewImportQueue
  <2>1. PICK step \in {"import_queue"} : At(step)
    BY <1>5 DEF NewImportQueue
  <2>2. /\ Spawn({"import-queue"}) /\ config' = config
        /\ UNCHANGED <<outcome, exit, essentialFailed, missed>>
        /\ UNCHANGED <<network, rpc, keys>>
    BY <1>5 DEF NewImportQueue
  <2>3. pc = 4
    BY <1>1, <1>5, Located DEF NewImportQueue
  <2>4. {"import-queue"} \in SUBSET Task
    BY DEF Task
  <2>5. /\ pc = ServiceAt => "service-tasks" \in {"import-queue"}
        /\ config.offchain /\ pc = OffchainAt => "offchain-worker" \in {"import-queue"}
        /\ IsNetworkAuthority(config.role) /\ pc = 9 => "authority-discovery-worker" \in {"import-queue"}
        /\ config.grandpa /\ pc = 10 => "grandpa-voter" \in {"import-queue"}
        /\ pc # 8 => "babe-proposer" \notin {"import-queue"}
        /\ pc # 10 => "grandpa-voter" \notin {"import-queue"}
    BY <1>2, <2>3
  <2>6. rpc' \subseteq {"system", "payment", "babe", "grandpa"}
    BY <1>1, <1>5, <2>2
  <2>7. keys' \subseteq Task \cup {"babe-rpc"} /\ KeysFollow({"import-queue"})
    BY <1>1, <1>5, <2>2 DEF KeysFollow, Signers, OnlyIf
  <2>8. network' = network \/ (network' \in {"absent", "built", "started"} /\ NetworkStarted')
    BY <2>2
  <2> QED
    BY <2>1, <2>2, <2>4, <2>5, <2>6, <2>7, <2>8, StepKeeps
<1>6. CASE BuildNetwork
  <2>1. PICK step \in {"build_network"} : At(step)
    BY <1>6 DEF BuildNetwork
  <2>2. /\ Spawn({"network-worker"}) /\ config' = config
        /\ UNCHANGED <<outcome, exit, essentialFailed, missed>>
        /\ UNCHANGED <<rpc, keys>>
    BY <1>6 DEF BuildNetwork
  <2>3. pc = 5
    BY <1>1, <1>6, Located DEF BuildNetwork
  <2>4. {"network-worker"} \in SUBSET Task
    BY DEF Task
  <2>5. /\ pc = ServiceAt => "service-tasks" \in {"network-worker"}
        /\ config.offchain /\ pc = OffchainAt => "offchain-worker" \in {"network-worker"}
        /\ IsNetworkAuthority(config.role) /\ pc = 9 => "authority-discovery-worker" \in {"network-worker"}
        /\ config.grandpa /\ pc = 10 => "grandpa-voter" \in {"network-worker"}
        /\ pc # 8 => "babe-proposer" \notin {"network-worker"}
        /\ pc # 10 => "grandpa-voter" \notin {"network-worker"}
    BY <1>2, <2>3
  <2>6. rpc' \subseteq {"system", "payment", "babe", "grandpa"}
    BY <1>1, <1>6, <2>2
  <2>7. keys' \subseteq Task \cup {"babe-rpc"} /\ KeysFollow({"network-worker"})
    BY <1>1, <1>6, <2>2 DEF KeysFollow, Signers, OnlyIf
  <2>8. network' \in {"absent", "built", "started"} /\ NetworkStarted'
    BY <1>6 DEF BuildNetwork, NetworkStarted
  <2> QED
    BY <2>1, <2>2, <2>4, <2>5, <2>6, <2>7, <2>8, StepKeeps
<1>7. CASE BuildOffchainWorkers
  <2> DEFINE new == OnlyIf(config.offchain, {"offchain-worker"})
  <2>1. PICK step \in {"offchain"} : At(step)
    BY <1>7 DEF BuildOffchainWorkers
  <2>2. /\ Spawn(new) /\ config' = config
        /\ UNCHANGED <<outcome, exit, essentialFailed, missed>>
        /\ UNCHANGED <<network, rpc, keys>>
    BY <1>7 DEF BuildOffchainWorkers
  <2>3. (ServiceKind = "full" /\ pc = 6) \/ (ServiceKind = "light" /\ pc = 7)
    BY <1>1, <1>7, Located DEF BuildOffchainWorkers
  <2>4. new \in SUBSET Task
    BY DEF Task, OnlyIf
  <2>5. /\ pc = ServiceAt => "service-tasks" \in new
        /\ config.offchain /\ pc = OffchainAt => "offchain-worker" \in new
        /\ IsNetworkAuthority(config.role) /\ pc = 9 => "authority-discovery-worker" \in new
        /\ config.grandpa /\ pc = 10 => "grandpa-voter" \in new
        /\ pc # 8 => "babe-proposer" \notin new
        /\ pc # 10 => "grandpa-voter" \notin new
    BY <1>2, <2>3 DEF OnlyIf
  <2>6. rpc' \subseteq {"system", "payment", "babe", "grandpa"}
    BY <1>1, <1>7, <2>2
  <2>7. keys' \subseteq Task \cup {"babe-rpc"} /\ KeysFollow(new)
    BY <1>1, <1>7, <2>2 DEF KeysFollow, Signers, OnlyIf
  <2>8. network' = network \/ (network' \in {"absent", "built", "started"} /\ NetworkStarted')
    BY <2>2
  <2> HIDE DEF new
  <2> QED
    BY <2>1, <2>2, <2>4, <2>5, <2>6, <2>7, <2>8, StepKeeps
<1>8. CASE SpawnTasks
  <2>1. PICK step \in {"spawn_tasks"} : At(step)
    BY <1>8 DEF SpawnTasks
  <2>2. /\ Spawn({"service-tasks"}) /\ config' = config
        /\ UNCHANGED <<outcome, exit, essentialFailed, missed>>
        /\ network' = network /\ keys' = keys \cup RpcKeys
    BY <1>8 DEF SpawnTasks
  <2>3. (ServiceKind = "full" /\ pc = 7) \/ (ServiceKind = "light" /\ pc = 8)
    BY <1>1, <1>8, Located DEF SpawnTasks
  <2>4. {"service-tasks"} \in SUBSET Task
    BY DEF Task
  <2>5. /\ pc = ServiceAt => "service-tasks" \in {"service-tasks"}
        /\ config.offchain /\ pc = OffchainAt => "offchain-worker" \in {"service-tasks"}
        /\ IsNetworkAuthority(config.role) /\ pc = 9 => "authority-discovery-worker" \in {"service-tasks"}
        /\ config.grandpa /\ pc = 10 => "grandpa-voter" \in {"service-tasks"}
        /\ pc # 8 => "babe-proposer" \notin {"service-tasks"}
        /\ pc # 10 => "grandpa-voter" \notin {"service-tasks"}
    BY <1>2, <2>3
  <2>6. rpc' \subseteq {"system", "payment", "babe", "grandpa"}
    BY <1>1, <1>8, <2>2 DEF SpawnTasks, RpcExtensions
  <2>7. keys' \subseteq Task \cup {"babe-rpc"} /\ KeysFollow({"service-tasks"})
    BY <1>1, <1>8, <2>2 DEF KeysFollow, Signers, OnlyIf, RpcKeys, Task
  <2>8. network' = network \/ (network' \in {"absent", "built", "started"} /\ NetworkStarted')
    BY <2>2
  <2> QED
    BY <2>1, <2>2, <2>4, <2>5, <2>6, <2>7, <2>8, StepKeeps
<1>9. CASE StartBabe
  <2> DEFINE new == OnlyIf(IsAuthority(config.role), {"babe-proposer"})
  <2>1. PICK step \in {"babe"} : At(step)
    BY <1>9 DEF StartBabe
  <2>2. /\ Spawn(new) /\ config' = config
        /\ UNCHANGED <<outcome, exit, essentialFailed, missed>>
        /\ UNCHANGED <<network, rpc>>
    BY <1>9 DEF StartBabe
  <2>3. ServiceKind = "full" /\ pc = 8
    BY <1>1, <1>9, Located DEF StartBabe
  <2>4. new \in SUBSET Task
    BY DEF Task, OnlyIf
  <2>5. /\ pc = ServiceAt => "service-tasks" \in new
        /\ config.offchain /\ pc = OffchainAt => "offchain-worker" \in new
        /\ IsNetworkAuthority(config.role) /\ pc = 9 => "authority-discovery-worker" \in new
        /\ config.grandpa /\ pc = 10 => "grandpa-voter" \in new
        /\ pc # 8 => "babe-proposer" \notin new
        /\ pc # 10 => "grandpa-voter" \notin new
    BY <1>2, <2>3 DEF OnlyIf
  <2>6. rpc' \subseteq {"system", "payment", "babe", "grandpa"}
    BY <1>1, <1>9, <2>2
  <2>7. keys' \subseteq Task \cup {"babe-rpc"} /\ KeysFollow(new)
    BY <1>1, <1>9, <2>2 DEF KeysFollow, Signers, StartBabe, OnlyIf, Task
  <2>8. network' = network \/ (network' \in {"absent", "built", "started"} /\ NetworkStarted')
    BY <2>2
  <2> HIDE DEF new
  <2> QED
    BY <2>1, <2>2, <2>4, <2>5, <2>6, <2>7, <2>8, StepKeeps
<1>10. CASE StartAuthorityDiscovery
  <2> DEFINE new == OnlyIf(IsNetworkAuthority(config.role), {"authority-discovery-worker"})
  <2>1. PICK step \in {"authority_discovery"} : At(step)
    BY <1>10 DEF StartAuthorityDiscovery
  <2>2. /\ Spawn(new) /\ config' = config
        /\ UNCHANGED <<outcome, exit, essentialFailed, missed>>
        /\ UNCHANGED <<network, rpc>>
    BY <1>10 DEF StartAuthorityDiscovery
  <2>3. ServiceKind = "full" /\ pc = 9
    BY <1>1, <1>10, Located DEF StartAuthorityDiscovery
  <2>4. new \in SUBSET Task
    BY DEF Task, OnlyIf
  <2>5. /\ pc = ServiceAt => "service-tasks" \in new
        /\ config.offchain /\ pc = OffchainAt => "offchain-worker" \in new
        /\ IsNetworkAuthority(config.role) /\ pc = 9 => "authority-discovery-worker" \in new
        /\ config.grandpa /\ pc = 10 => "grandpa-voter" \in new
        /\ pc # 8 => "babe-proposer" \notin new
        /\ pc # 10 => "grandpa-voter" \notin new
    BY <1>2, <2>3 DEF OnlyIf
  <2>6. rpc' \subseteq {"system", "payment", "babe", "grandpa"}
    BY <1>1, <1>10, <2>2
  <2>7. keys' \subseteq Task \cup {"babe-rpc"} /\ KeysFollow(new)
    BY <1>1, <1>10, <2>2
    DEF KeysFollow, Signers, StartAuthorityDiscovery, OnlyIf, Task, IsAuthority, IsNetworkAuthority
  <2>8. network' = network \/ (network' \in {"absent", "built", "started"} /\ NetworkStarted')
    BY <2>2
  <2> HIDE DEF new
  <2> QED
    BY <2>1, <2>2, <2>4, <2>5, <2>6, <2>7, <2>8, StepKeeps
<1>11. CASE StartGrandpa
  <2> DEFINE new == OnlyIf(config.grandpa, {"grandpa-voter"})
  <2>1. PICK step \in {"grandpa"} : At(step)
    BY <1>11 DEF StartGrandpa
  <2>2. /\ Spawn(new) /\ config' = config
        /\ UNCHANGED <<outcome, exit, essentialFailed, missed>>
        /\ UNCHANGED <<network, rpc>>
    BY <1>11 DEF StartGrandpa
  <2>3. ServiceKind = "full" /\ pc = 10
    BY <1>1, <1>11, Located DEF StartGrandpa
  <2>4. new \in SUBSET Task
    BY DEF Task, OnlyIf
  <2>5. /\ pc = ServiceAt => "service-tasks" \in new
        /\ config.offchain /\ pc = OffchainAt => "offchain-worker" \in new
        /\ IsNetworkAuthority(config.role) /\ pc = 9 => "authority-discovery-worker" \in new
        /\ config.grandpa /\ pc = 10 => "grandpa-voter" \in new
        /\ pc # 8 => "babe-proposer" \notin new
        /\ pc # 10 => "grandpa-voter" \notin new
    BY <1>2, <2>3 DEF OnlyIf
  <2>6. rpc' \subseteq {"system", "payment", "babe", "grandpa"}
    BY <1>1, <1>11, <2>2
  <2>7. keys' \subseteq Task \cup {"babe-rpc"} /\ KeysFollow(new)
    BY <1>1, <1>11, <2>2 DEF KeysFollow, Signers, StartGrandpa, OnlyIf, Task
  <2>8. network' = network \/ (network' \in {"absent", "built", "started"} /\ NetworkStarted')
    BY <2>2
  <2> HIDE DEF new
  <2> QED
    BY <2>1, <2>2, <2>4, <2>5, <2>6, <2>7, <2>8, StepKeeps
<1>12. CASE StartNetwork
  <2>1. PICK step \in {"start_network"} : At(step)
    BY <1>12 DEF StartNetwork
  <2>2. /\ Spawn({}) /\ config' = config
        /\ UNCHANGED <<outcome, exit, essentialFailed, missed>>
        /\ UNCHANGED <<rpc, keys>>
    BY <1>12 DEF StartNetwork
  <2>3. (ServiceKind = "full" /\ pc = 11) \/ (ServiceKind = "light" /\ pc = 6)
    BY <1>1, <1>12, Located DEF StartNetwork
  <2>4. {} \in SUBSET Task
    BY DEF Task
  <2>5. /\ pc = ServiceAt => "service-tasks" \in {}
        /\ config.offchain /\ pc = OffchainAt => "offchain-worker" \in {}
        /\ IsNetworkAuthority(config.role) /\ pc = 9 => "authority-discovery-worker" \in {}
        /\ config.grandpa /\ pc = 10 => "grandpa-voter" \in {}
        /\ pc # 8 => "babe-proposer" \notin {}
        /\ pc # 10 => "grandpa-voter" \notin {}
    BY <1>2, <2>3
  <2>6. rpc' \subseteq {"system", "payment", "babe", "grandpa"}
    BY <1>1, <1>12, <2>2
  <2>7. keys' \subseteq Task \cup {"babe-rpc"} /\ KeysFollow({})
    BY <1>1, <1>12, <2>2 DEF KeysFollow, Signers, OnlyIf
  <2>8. network' \in {"absent", "built", "started"} /\ NetworkStarted'
    BY <1>12, <2>2, <2>3 DEF StartNetwork, NetworkStarted, Spawn, ServiceKind
  <2> QED
    BY <2>1, <2>2, <2>4, <2>5, <2>6, <2>7, <2>8, StepKeeps
<1>13. CASE StartupDone
  <2>1. /\ outcome = "starting" /\ outcome' = "running" /\ pc = Len(Steps) + 1
        /\ UNCHANGED <<config, pc, tasks, exit, essentialFailed, network, rpc, keys, missed>>
    BY <1>1, <1>13, Within DEF StartupDone
  <2>2. ServiceKind' = ServiceKind /\ Steps' = Steps
    BY <2>1 DEF ServiceKind, Steps
  <2>3. TypeOK'
    BY <1>1, <2>1, <2>2 DEF TypeOK
  <2>4. Phases'
    BY <2>1, <2>2 DEF Phases
  <2>5. ListenersSpawned' /\ ConsensusAbsent' /\ NetworkStarted' /\ FailureIsReal'
    BY <2>1, <2>2 DEF IInv, ListenersSpawned, ConsensusAbsent, NetworkStarted, FailureIsReal, ServiceAt, OffchainAt
  <2>6. NoEventMissed' /\ SignersHoldKeys'
    BY <2>1, <2>2 DEF IInv, NoEventMissed, SignersHoldKeys
  <2> QED
    BY <2>3, <2>4, <2>5, <2>6 DEF IInv
<1> QED
  BY <1>3, <1>4, <1>5, <1>6, <1>7, <1>8, <1>9, <1>10, <1>11, <1>12, <1>13 DEF Startup

-----------------------------------------------------------------------------
(* The tasks, the network and the runner *)

\* A step that leaves the start-up, the keys and the network alone, spawns
\* nothing, and gives the process and its tasks states that fit.
LEMMA RunningKeeps ==
  ASSUME IInv, UNCHANGED <<config, pc, network, keys>>,
         outcome' \in {"starting", "running", "failed", "interrupted", "taken down", "exited"},
         tasks' \in [Task -> {"absent", "running", "ended", "stopped"}],
         \A t \in Task : tasks'[t] = "absent" <=> tasks[t] = "absent",
         exit' \in BOOLEAN, essentialFailed' \in BOOLEAN,
         rpc' \subseteq {"system", "payment", "babe", "grandpa"}, missed' \subseteq Task,
         FailureIsReal', Phases', NoEventMissed'
  PROVE  IInv'
<1>1. ServiceKind' = ServiceKind /\ Steps' = Steps
  BY DEF ServiceKind, Steps
<1>2. TypeOK'
  <2>1. config \in Configs /\ pc \in 1 .. Len(Steps) + 1
        /\ network \in {"absent", "built", "started"} /\ keys \subseteq Task \cup {"babe-rpc"}
    BY DEF IInv, TypeOK
  <2> QED
    BY <1>1, <2>1 DEF TypeOK
<1>3. ListenersSpawned'
  BY <1>1 DEF IInv, ListenersSpawned, ServiceAt, OffchainAt, Task
<1>4. ConsensusAbsent'
  BY DEF IInv, ConsensusAbsent, Task
<1>5. NetworkStarted'
  BY <1>1 DEF IInv, NetworkStarted
<1>6. SignersHoldKeys'
  <2>1. \A t \in Signers : tasks'[t] = "absent" <=> tasks[t] = "absent"
    BY DEF Signers, Task
  <2> QED
    BY <2>1 DEF IInv, SignersHoldKeys
<1> QED
  BY <1>2, <1>3, <1>4, <1>5, <1>6 DEF IInv

\* A node that is handed to the runner has spawned every task that listens to
\* the network, so that an event is missed only while it starts; a full node's
\* network has no event before.
LEMMA AllListen ==
  ASSUME IInv, network = "started", ~exit, outcome # "starting" \/ ServiceKind = "full"
  PROVE  {t \in Listeners : tasks[t] = "absent"} = {}
<1>1. TypeOK /\ Phases /\ NetworkStarted /\ ListenersSpawned
  BY DEF IInv
<1>2. \/ ServiceKind = "full" /\ pc = 12
      \/ ServiceKind = "light" /\ pc = 9
  <2>1. \/ ServiceKind = "full" /\ pc = 12
        \/ ServiceKind = "light"
    BY <1>1 DEF NetworkStarted
  <2>2. ServiceKind = "light" => outcome # "starting"
    OBVIOUS
  <2>3. outcome # "starting" => pc = Len(Steps) + 1
    BY <1>1 DEF Phases
  <2>4. ASSUME ServiceKind = "light" PROVE pc = 9
    <3>1. Len(Steps) = 8
      BY <2>4, Kinds
    <3>2. outcome # "starting"
      BY <2>2, <2>4
    <3> QED
      BY <2>3, <3>1, <3>2
  <2> QED
    BY <2>1, <2>4
<1>3. pc > ServiceAt /\ pc > OffchainAt
  BY <1>2 DEF ServiceAt, OffchainAt
<1>4. tasks["service-tasks"] # "absent" /\ (config.offchain => tasks["offchain-worker"] # "absent")
  BY <1>1, <1>3 DEF ListenersSpawned
<1>5. ServiceKind = "full" => pc > 9 /\ pc > 10
  BY <1>2
<1>6. /\ ServiceKind = "full" /\ IsNetworkAuthority(config.role)
          => tasks["authority-discovery-worker"] # "absent"
      /\ ServiceKind = "full" /\ config.grandpa => tasks["grandpa-voter"] # "absent"
  BY <1>1, <1>5 DEF ListenersSpawned
<1> QED
  BY <1>4, <1>6 DEF Listeners, OnlyIf

\* Nothing but the start-up disturbs the invariant either.
LEMMA NextIInv == IInv /\ [Next]_vars => IInv'
<1> SUFFICES ASSUME IInv, [Next]_vars PROVE IInv'
  OBVIOUS
<1>1. /\ TypeOK /\ FailureIsReal /\ Phases /\ NoEventMissed
      /\ outcome \in {"starting", "running", "failed", "interrupted", "taken down", "exited"}
      /\ tasks \in [Task -> {"absent", "running", "ended", "stopped"}]
      /\ exit \in BOOLEAN /\ essentialFailed \in BOOLEAN
      /\ rpc \subseteq {"system", "payment", "babe", "grandpa"} /\ missed \subseteq Task
  BY DEF IInv, TypeOK
<1>2. ASSUME config' = config PROVE ServiceKind' = ServiceKind /\ Steps' = Steps
  BY <1>2 DEF ServiceKind, Steps
<1>3. CASE Startup
  BY <1>3, StartupKeeps
<1>4. CASE StartupFails
  <2>1. /\ UNCHANGED <<config, pc, tasks, essentialFailed, network, keys, missed>>
        /\ outcome' = "failed" /\ exit' = TRUE /\ rpc' = {}
    BY <1>4 DEF StartupFails
  <2>2. FailureIsReal' /\ Phases' /\ NoEventMissed'
    BY <1>1, <1>2, <2>1 DEF FailureIsReal, Phases, NoEventMissed
  <2> QED
    BY <1>1, <2>1, <2>2, RunningKeeps
<1>5. CASE \E t \in Task : TaskEnds(t)
  <2>1. PICK t \in Task : TaskEnds(t)
    BY <1>5
  <2>2. /\ UNCHANGED <<config, pc, outcome, exit, network, rpc, keys, missed>>
        /\ tasks[t] = "running" /\ tasks' = [tasks EXCEPT ![t] = "ended"] /\ ~exit
        /\ essentialFailed' = (essentialFailed \/ t \in EssentialTask)
    BY <2>1 DEF TaskEnds
  <2>3. tasks' \in [Task -> {"absent", "running", "ended", "stopped"}]
        /\ \A u \in Task : tasks'[u] = "absent" <=> tasks[u] = "absent"
    BY <1>1, <2>2
  <2>4. FailureIsReal'
    BY <1>1, <2>2 DEF FailureIsReal, EssentialTask, Task
  <2>5. Phases' /\ NoEventMissed'
    BY <1>1, <1>2, <2>2 DEF Phases, NoEventMissed
  <2> QED
    BY <1>1, <2>2, <2>3, <2>4, <2>5, RunningKeeps
<1>6. CASE \E t \in Task : TaskStops(t)
  <2>1. PICK t \in Task : TaskStops(t)
    BY <1>6
  <2>2. /\ UNCHANGED <<config, pc, outcome, exit, essentialFailed, network, rpc, keys, missed>>
        /\ tasks[t] = "running" /\ tasks' = [tasks EXCEPT ![t] = "stopped"]
    BY <2>1 DEF TaskStops
  <2>3. tasks' \in [Task -> {"absent", "running", "ended", "stopped"}]
        /\ \A u \in Task : tasks'[u] = "absent" <=> tasks[u] = "absent"
    BY <1>1, <2>2
  <2>4. FailureIsReal'
    BY <1>1, <2>2 DEF FailureIsReal, Task
  <2>5. Phases' /\ NoEventMissed'
    BY <1>1, <1>2, <2>2 DEF Phases, NoEventMissed
  <2> QED
    BY <1>1, <2>2, <2>3, <2>4, <2>5, RunningKeeps
<1>7. CASE NetworkEvent
  <2>1. /\ UNCHANGED <<config, pc, outcome, tasks, exit, essentialFailed, network, rpc, keys>>
        /\ network = "started" /\ ~exit
        /\ missed' = missed \cup {t \in Listeners : tasks[t] = "absent"}
    BY <1>7 DEF NetworkEvent
  <2>2. missed' \subseteq Task
    <3>1. Listeners \subseteq Task
      BY DEF Listeners, OnlyIf, Task
    <3> QED
      BY <1>1, <2>1, <3>1
  <2>3. NoEventMissed'
    BY <1>1, <1>2, <2>1, AllListen DEF NoEventMissed
  <2>4. FailureIsReal' /\ Phases'
    BY <1>1, <1>2, <2>1 DEF FailureIsReal, Phases
  <2> QED
    BY <1>1, <2>1, <2>2, <2>3, <2>4, RunningKeeps
<1>8. CASE Interrupted \/ EssentialTaskFailed
  <2>1. /\ UNCHANGED <<config, pc, tasks, essentialFailed, network, rpc, keys, missed>>
        /\ outcome' = "interrupted" \/ (outcome' = "taken down" /\ essentialFailed)
        /\ exit' = TRUE
    BY <1>8 DEF Interrupted, EssentialTaskFailed
  <2>2. FailureIsReal' /\ Phases' /\ NoEventMissed'
    BY <1>1, <1>2, <2>1 DEF FailureIsReal, Phases, NoEventMissed
  <2> QED
    BY <1>1, <2>1, <2>2, RunningKeeps
<1>9. CASE Exit
  <2>1. /\ UNCHANGED <<config, pc, tasks, exit, essentialFailed, network, keys, missed>>
        /\ outcome \in {"failed", "interrupted", "taken down"} /\ outcome' = "exited" /\ rpc' = {}
        /\ \A t \in Task : tasks[t] # "running"
    BY <1>9 DEF Exit
  <2>2. FailureIsReal' /\ Phases' /\ NoEventMissed'
    BY <1>1, <1>2, <2>1 DEF FailureIsReal, Phases, NoEventMissed
  <2> QED
    BY <1>1, <2>1, <2>2, RunningKeeps
<1>10. CASE UNCHANGED vars
  <2>1. UNCHANGED <<config, pc, outcome, tasks, exit, essentialFailed, network, rpc, keys, missed>>
    BY <1>10 DEF vars
  <2>2. FailureIsReal' /\ Phases' /\ NoEventMissed'
    BY <1>1, <1>2, <2>1 DEF FailureIsReal, Phases, NoEventMissed
  <2> QED
    BY <1>1, <2>1, <2>2, RunningKeeps
<1> QED
  BY <1>3, <1>4, <1>5, <1>6, <1>7, <1>8, <1>9, <1>10 DEF Next

LEMMA Invariance == Spec => []IInv
  BY InitIInv, NextIInv, PTL DEF Spec

-----------------------------------------------------------------------------
(* The theorems *)

\* Every variable has its type, and the start-up never runs past its steps.
THEOREM TypeCorrect == Spec => []TypeOK
<1>1. IInv => TypeOK
  BY DEF IInv
<1> QED
  BY <1>1, Invariance, PTL

\* A full node misses no network event: start_network, the last step of
\* new_full_base, comes after every task that listens has been spawned.
THEOREM FullNodeMissesNothing == Spec => []NoEventMissed
<1>1. IInv => NoEventMissed
  BY DEF IInv
<1> QED
  BY <1>1, Invariance, PTL

\* No node, a light one included, misses an event once new_full_base or
\* new_light_base has returned.
THEOREM MissesOnlyAtStart == Spec => MissedOnlyWhileStarting
<1>1. IInv /\ [Next]_vars => [missed' # missed => outcome = "starting"]_vars
  <2> SUFFICES ASSUME IInv, Next, missed' # missed, outcome # "starting" PROVE FALSE
    OBVIOUS
  <2>1. NetworkEvent
    BY DEF Next, Startup, NewParts, NewTransactionPool, NewImportQueue, BuildNetwork,
           BuildOffchainWorkers, SpawnTasks, StartBabe, StartAuthorityDiscovery, StartGrandpa,
           StartNetwork, StartupDone, StartupFails, TaskEnds, TaskStops, Interrupted,
           EssentialTaskFailed, Exit
  <2>2. network = "started" /\ ~exit /\ missed' = missed \cup {t \in Listeners : tasks[t] = "absent"}
    BY <2>1 DEF NetworkEvent
  <2> QED
    BY <2>2, AllListen
<1> QED
  BY <1>1, Invariance, PTL DEF Spec, MissedOnlyWhileStarting

\* BABE, authority discovery and the GRANDPA voter have the keystore where the
\* node is an authority, and only there: a sentry's and a full node's run
\* without, however far the start-up came.
THEOREM KeysStayWithAuthorities == Spec => []SignersHoldKeys
<1>1. IInv => SignersHoldKeys
  BY DEF IInv
<1> QED
  BY <1>1, Invariance, PTL

\* The runner takes a node down only after its BABE or its GRANDPA task ended.
THEOREM OnlyConsensusTakesDown == Spec => []TakenDownByConsensus
<1>1. IInv => TakenDownByConsensus
  BY DEF IInv, Phases, FailureIsReal, TakenDownByConsensus
<1> QED
  BY <1>1, Invariance, PTL

=============================================================================
