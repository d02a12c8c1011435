----------------------------- MODULE NodeService -----------------------------
(***************************************************************************)
(* A node's process from the command line to its exit: node/cli/src/       *)
(* command.rs picks the service to build, node/cli/src/service.rs builds   *)
(* it step by step and spawns tasks that run while the steps after them    *)
(* are still being executed.  Every step that ends in `?` may fail, which  *)
(* drops the task manager and with it every task spawned so far.           *)
(*                                                                         *)
(* The task manager, the runner and the network worker are Substrate's     *)
(* (sc_service, sc_cli); they are modelled by what service.rs relies on:   *)
(* dropping or terminating the manager raises the exit signal of all its   *)
(* tasks, the end of an essential task is kept for the runner, and the     *)
(* network worker is idle until network_starter.start_network().           *)
(***************************************************************************)
EXTENDS Naturals, Sequences

CONSTANTS Configs   \* the configurations to start the node with

VARIABLES
  config,           \* [command, role, offchain, grandpa]
  pc,               \* index of the next start-up step
  outcome,          \* what the process is doing
  tasks,            \* the tasks of the TaskManager
  exit,             \* the TaskManager's exit signal
  essentialFailed,  \* an essential task has ended: kept for the runner
  network,          \* the network worker's state
  rpc,              \* the RPC extensions that are served
  keys,             \* the tasks and RPC handlers that were handed the keystore
  missed            \* the tasks that were absent when the network had an event

vars == <<config, pc, outcome, tasks, exit, essentialFailed, network, rpc, keys, missed>>

-----------------------------------------------------------------------------
(* Configuration *)

Commands == {"run", "browser", "build-sync-spec", "partial"}
Roles    == {"Full", "Light", "Sentry", "Authority"}

Task == {"txpool", "import-queue", "network-worker", "offchain-worker",
         "service-tasks", "babe-proposer", "authority-discovery-worker", "grandpa-voter"}

ASSUME ConfigsAssumption ==
  Configs \subseteq [command : Commands, role : Roles, offchain : BOOLEAN, grandpa : BOOLEAN]

\* A plausible bug: the voter is spawned with spawn_handle().
EssentialVoterForgotten == {"babe-proposer"}

\* A plausible bug: authority discovery is spawned as an essential task.
EssentialTooMany == {"babe-proposer", "grandpa-voter", "authority-discovery-worker"}

\* The tasks spawned with spawn_essential_handle().
EssentialTask == {"babe-proposer", "grandpa-voter"}

\* Role::is_authority and Role::is_network_authority.
IsAuthority(role)        == role = "Authority"
IsNetworkAuthority(role) == role \in {"Authority", "Sentry"}

\* command.rs: a light node is built by new_light, any other node and
\* BuildSyncSpec by new_full_base; CheckBlock, ExportBlocks, ExportState,
\* ImportBlocks and Revert only need new_partial.  browser.rs builds a light
\* node.
ServiceKind ==
  CASE config.command = "partial" -> "partial"
    [] config.command = "browser" -> "light"
    [] config.command = "run" /\ config.role = "Light" -> "light"
    [] OTHER -> "full"

\* new_partial, and the same first steps in new_light_base.
PartialSteps == <<"new_parts", "transaction_pool", "block_import", "import_queue">>

\* A plausible bug: the network starts as soon as it is built.
FullStepsNetworkFirst ==
  PartialSteps \o <<"build_network", "start_network", "offchain", "spawn_tasks",
                    "babe", "authority_discovery", "grandpa">>

\* new_full_base: the network starts last.
FullSteps ==
  PartialSteps \o <<"build_network", "offchain", "spawn_tasks", "babe",
                    "authority_discovery", "grandpa", "start_network">>

\* new_light_base: the network starts as soon as it is built.
LightSteps ==
  PartialSteps \o <<"build_network", "start_network", "offchain", "spawn_tasks">>

Steps == CASE ServiceKind = "partial" -> PartialSteps
           [] ServiceKind = "light"   -> LightSteps
           [] OTHER                   -> FullSteps

\* The steps whose result is unwrapped with `?`.  start_babe runs on an
\* authority only.
Fallible(step) ==
  \/ step \in {"new_parts", "block_import", "import_queue", "build_network",
               "spawn_tasks", "grandpa"}
  \/ step = "babe" /\ IsAuthority(config.role)

Init ==
  /\ config \in Configs
  /\ pc = 1
  /\ outcome = "starting"
  /\ tasks = [t \in Task |-> "absent"]
  /\ exit = FALSE
  /\ essentialFailed = FALSE
  /\ network = "absent"
  /\ rpc = {}
  /\ keys = {}
  /\ missed = {}

-----------------------------------------------------------------------------
(* Start-up, one action per step *)

At(step) == outcome = "starting" /\ pc <= Len(Steps) /\ Steps[pc] = step

\* A plausible bug: the step after this one is skipped.
SpawnSkips(new) ==
  /\ pc' = pc + 2
  /\ tasks' = [t \in Task |-> IF t \in new THEN "running" ELSE tasks[t]]

\* The step is done and has spawned the tasks in new.
Spawn(new) ==
  /\ pc' = pc + 1
  /\ tasks' = [t \in Task |-> IF t \in new THEN "running" ELSE tasks[t]]

OnlyIf(condition, set) == IF condition THEN set ELSE {}

\* new_full_parts / new_light_parts and the block import pipelines of GRANDPA
\* and BABE: nothing runs yet.
NewParts ==
  /\ At("new_parts") \/ At("block_import")
  /\ Spawn({})
  /\ UNCHANGED <<config, outcome, exit, essentialFailed, network, rpc, keys, missed>>

NewTransactionPool ==
  /\ At("transaction_pool")
  /\ Spawn({"txpool"})
  /\ UNCHANGED <<config, outcome, exit, essentialFailed, network, rpc, keys, missed>>

NewImportQueue ==
  /\ At("import_queue")
  /\ Spawn({"import-queue"})
  /\ UNCHANGED <<config, outcome, exit, essentialFailed, network, rpc, keys, missed>>

\* build_network: the worker is spawned and waits for the starter.
BuildNetwork ==
  /\ At("build_network")
  /\ Spawn({"network-worker"})
  /\ network' = "built"
  /\ UNCHANGED <<config, outcome, exit, essentialFailed, rpc, keys, missed>>

BuildOffchainWorkers ==
  /\ At("offchain")
  /\ Spawn(OnlyIf(config.offchain, {"offchain-worker"}))
  /\ UNCHANGED <<config, outcome, exit, essentialFailed, network, rpc, keys, missed>>

\* create_full and create_light, node/rpc/src/lib.rs.
RpcExtensions ==
  IF ServiceKind = "light" THEN {"system"}
                           ELSE {"system", "payment", "babe", "grandpa"}

\* spawn_tasks is given the keystore on every node, for the author RPC, and so
\* is BabeRpcHandler where it is served.
RpcKeys == {"service-tasks"} \cup OnlyIf("babe" \in RpcExtensions, {"babe-rpc"})

\* A plausible bug: the service tasks are left out.
SpawnTasksRpcOnly ==
  /\ At("spawn_tasks")
  /\ Spawn({})
  /\ rpc' = RpcExtensions
  /\ keys' = keys \cup RpcKeys
  /\ UNCHANGED <<config, outcome, exit, essentialFailed, network, missed>>

\* spawn_tasks: the RPC servers, the informant, transaction pool maintenance.
SpawnTasks ==
  /\ At("spawn_tasks")
  /\ Spawn({"service-tasks"})
  /\ rpc' = RpcExtensions
  /\ keys' = keys \cup RpcKeys
  /\ UNCHANGED <<config, outcome, exit, essentialFailed, network, missed>>

StartBabe ==
  /\ At("babe")
  /\ Spawn(OnlyIf(IsAuthority(config.role), {"babe-proposer"}))
  /\ keys' = keys \cup OnlyIf(IsAuthority(config.role), {"babe-proposer"})
  /\ UNCHANGED <<config, outcome, exit, essentialFailed, network, rpc, missed>>

\* Authorities and sentries discover; only an authority hands over its keys.
StartAuthorityDiscovery ==
  /\ At("authority_discovery")
  /\ Spawn(OnlyIf(IsNetworkAuthority(config.role), {"authority-discovery-worker"}))
  /\ keys' = keys \cup OnlyIf(IsAuthority(config.role), {"authority-discovery-worker"})
  /\ UNCHANGED <<config, outcome, exit, essentialFailed, network, rpc, missed>>

\* A plausible bug: the voter's keystore depends on is_network_authority.
StartGrandpaSentryKeys ==
  /\ At("grandpa")
  /\ Spawn(OnlyIf(config.grandpa, {"grandpa-voter"}))
  /\ keys' = keys \cup OnlyIf(config.grandpa /\ IsNetworkAuthority(config.role), {"grandpa-voter"})
  /\ UNCHANGED <<config, outcome, exit, essentialFailed, network, rpc, missed>>

\* run_grandpa_voter, or setup_disabled_grandpa, which spawns nothing.
StartGrandpa ==
  /\ At("grandpa")
  /\ Spawn(OnlyIf(config.grandpa, {"grandpa-voter"}))
  /\ keys' = keys \cup OnlyIf(config.grandpa /\ IsAuthority(config.role), {"grandpa-voter"})
  /\ UNCHANGED <<config, outcome, exit, essentialFailed, network, rpc, missed>>

StartNetwork ==
  /\ At("start_network")
  /\ Spawn({})
  /\ network' = "started"
  /\ UNCHANGED <<config, outcome, exit, essentialFailed, rpc, keys, missed>>

\* A plausible bug: the manager is leaked, its tasks are not told to stop.
StartupFailsLeaky ==
  /\ \E step \in {"new_parts", "block_import", "import_queue", "build_network",
                  "spawn_tasks", "babe", "grandpa"} : At(step) /\ Fallible(step)
  /\ outcome' = "failed"
  /\ rpc' = {}
  /\ UNCHANGED <<config, pc, tasks, exit, essentialFailed, network, keys, missed>>

\* A step returns an error: `?` drops the task manager and the RPC handlers it
\* keeps alive.
StartupFails ==
  /\ \E step \in {"new_parts", "block_import", "import_queue", "build_network",
                  "spawn_tasks", "babe", "grandpa"} : At(step) /\ Fallible(step)
  /\ outcome' = "failed"
  /\ exit' = TRUE
  /\ rpc' = {}
  /\ UNCHANGED <<config, pc, tasks, essentialFailed, network, keys, missed>>

\* The service is returned to the runner.
StartupDone ==
  /\ outcome = "starting" /\ pc > Len(Steps)
  /\ outcome' = "running"
  /\ UNCHANGED <<config, pc, tasks, exit, essentialFailed, network, rpc, keys, missed>>

-----------------------------------------------------------------------------
(* The tasks, while the start-up goes on and after it *)

\* A task returns or panics by itself.
TaskEnds(t) ==
  /\ tasks[t] = "running" /\ ~exit
  /\ tasks' = [tasks EXCEPT ![t] = "ended"]
  /\ essentialFailed' = (essentialFailed \/ t \in EssentialTask)
  /\ UNCHANGED <<config, pc, outcome, exit, network, rpc, keys, missed>>

\* A task sees the exit signal.
TaskStops(t) ==
  /\ tasks[t] = "running" /\ exit
  /\ tasks' = [tasks EXCEPT ![t] = "stopped"]
  /\ UNCHANGED <<config, pc, outcome, exit, essentialFailed, network, rpc, keys, missed>>

\* The tasks that follow the network's events or the blocks it imports.
Listeners ==
  {"service-tasks"} \cup OnlyIf(config.offchain, {"offchain-worker"})
    \cup OnlyIf(ServiceKind = "full" /\ IsNetworkAuthority(config.role),
                {"authority-discovery-worker"})
    \cup OnlyIf(ServiceKind = "full" /\ config.grandpa, {"grandpa-voter"})

\* A block or a DHT event arrives; a listener not spawned yet never sees it.
NetworkEvent ==
  /\ network = "started" /\ tasks["network-worker"] = "running" /\ ~exit
  /\ missed' = missed \cup {t \in Listeners : tasks[t] = "absent"}
  /\ UNCHANGED <<config, pc, outcome, tasks, exit, essentialFailed, network, rpc, keys>>

-----------------------------------------------------------------------------
(* The runner *)

\* SIGINT or SIGTERM; async_run's command is done.
Interrupted ==
  /\ outcome = "running"
  /\ outcome' = "interrupted"
  /\ exit' = TRUE
  /\ UNCHANGED <<config, pc, tasks, essentialFailed, network, rpc, keys, missed>>

\* run_node_until_exit polls the task manager's future: an essential task that
\* ended, be it during the start-up, takes the service down.
EssentialTaskFailed ==
  /\ outcome = "running" /\ config.command = "run" /\ essentialFailed
  /\ outcome' = "taken down"
  /\ exit' = TRUE
  /\ UNCHANGED <<config, pc, tasks, essentialFailed, network, rpc, keys, missed>>

\* clean_shutdown waits for the tasks, then drops what the manager keeps alive,
\* the RPC servers, and the process exits.  After a failed start-up run()
\* returns the error, the runner is dropped, and its executor waits likewise.
Exit ==
  /\ outcome \in {"failed", "interrupted", "taken down"}
  /\ \A t \in Task : tasks[t] # "running"
  /\ outcome' = "exited"
  /\ rpc' = {}
  /\ UNCHANGED <<config, pc, tasks, exit, essentialFailed, network, keys, missed>>

-----------------------------------------------------------------------------

Startup ==
  \/ NewParts \/ NewTransactionPool \/ NewImportQueue \/ BuildNetwork
  \/ BuildOffchainWorkers \/ SpawnTasks \/ StartBabe \/ StartAuthorityDiscovery
  \/ StartGrandpa \/ StartNetwork \/ StartupDone

Next ==
  \/ Startup
  \/ StartupFails
  \/ \E t \in Task : TaskEnds(t) \/ TaskStops(t)
  \/ NetworkEvent
  \/ Interrupted
  \/ EssentialTaskFailed
  \/ Exit

\* The start-up thread and the runner run; the executor polls every task, and
\* a task's future completes once its exit signal is raised.  Nothing forces an
\* error, an event or a signal to happen.
Fairness ==
  /\ WF_vars(Startup)
  /\ \A t \in Task : WF_vars(TaskStops(t))
  /\ WF_vars(EssentialTaskFailed)
  /\ WF_vars(Exit)

Spec == Init /\ [][Next]_vars /\ Fairness

-----------------------------------------------------------------------------
(* Properties *)

\* Every variable has its type, and the start-up stays within its steps.
TypeOK ==
  /\ config \in Configs
  /\ pc \in 1 .. Len(Steps) + 1
  /\ outcome \in {"starting", "running", "failed", "interrupted", "taken down", "exited"}
  /\ tasks \in [Task -> {"absent", "running", "ended", "stopped"}]
  /\ exit \in BOOLEAN /\ essentialFailed \in BOOLEAN
  /\ network \in {"absent", "built", "started"}
  /\ rpc \subseteq {"system", "payment", "babe", "grandpa"}
  /\ keys \subseteq Task \cup {"babe-rpc"}
  /\ missed \subseteq Task

\* A full node misses no network event: start_network is called after every
\* task that listens to the network has been spawned.
NoEventMissed == ServiceKind = "full" => missed = {}

\* A light node's network starts before its offchain workers and service tasks,
\* which may then miss its first events.  No node misses any once it has been
\* handed to the runner: every listener its configuration asks for was spawned.
MissedOnlyWhileStarting == [][missed' # missed => outcome = "starting"]_vars

\* The tasks that sign for a validator.
Signers == {"babe-proposer", "authority-discovery-worker", "grandpa-voter"}

\* A task that signs has the keystore exactly on a validator: a sentry, which
\* discovers other authorities, and a full node, which follows GRANDPA, run
\* their tasks without ("if the node isn't actively participating in consensus
\* then it doesn't need a keystore"), and no signing task of a validator runs
\* without.  The RPC server has the keystore on every node and is not part of
\* this.
SignersHoldKeys ==
  keys \cap Signers = {t \in Signers : IsAuthority(config.role) /\ tasks[t] # "absent"}

\* The two consensus tasks are the only ones whose end takes the node down: a
\* node does not stop because its discovery or offchain worker did.
TakenDownByConsensus ==
  outcome = "taken down" =>
    tasks["babe-proposer"] = "ended" \/ tasks["grandpa-voter"] = "ended"

\* "if it fails we take down the service with it": the end of the BABE or of
\* the GRANDPA task, even while the node is still starting, ends the node.
EssentialFailureStops ==
  (config.command = "run" /\ \E t \in {"babe-proposer", "grandpa-voter"} : tasks[t] = "ended")
    ~> (outcome = "exited")

\* A start-up that fails half-way, when tasks already run and RPC is served,
\* leaves nothing behind: all of it ends, for good, and so does the process.
FailedStartStopsTasks ==
  (outcome = "failed") ~>
    [](outcome = "exited" /\ rpc = {} /\ \A t \in Task : tasks[t] # "running")

=============================================================================
