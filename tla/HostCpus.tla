------------------------------ MODULE HostCpus ------------------------------
(***************************************************************************)
(* Which process runs on which CPU.  compute_affinity_plan deals physical  *)
(* cores out to the load generator and the workers; pin_loadgen narrows    *)
(* the mask of the process itself, which its children inherit; the         *)
(* aggregator's tokenizer shards span all CPUs of the cgroup again; the    *)
(* HTTP client benchmark pins and restores once per sweep iteration.       *)
(***************************************************************************)
EXTENDS Integers, Sequences, SequencesExt, FiniteSets, FiniteSetsExt

CONSTANTS
  Machines,        \* what sysfs says of each CPU: [core, numa, score]
  Masks,           \* the CPU sets a cgroup may allow
  LoadgenCores,    \* physical cores asked for the load generator
  PoolSize,        \* worker processes
  CoresPerShard,   \* CORES_PER_WORKER of the tokenizer shards
  ReservedCpus,    \* DRAIN_RESERVED_CPUS
  MaxPins          \* bound on the runs, or sweep iterations, of one process

VARIABLE host

HostIdle == host = [stage |-> "idle"]

\* tool: the benchmark command, or the sweep of utils/benchmark_httpclient.
HostInit ==
  \E tool \in {"run", "sweep"}, machine \in Machines, allowed \in Masks :
    host = [stage |-> "start", tool |-> tool, machine |-> machine,
            allowed |-> allowed, mask |-> allowed, saved |-> allowed, plan |-> <<>>,
            workers |-> <<>>, pinned |-> {}, aggregator |-> {}, shards |-> <<>>,
            plans |-> <<>>, restored |-> TRUE]

Online(m) == DOMAIN m.core

-----------------------------------------------------------------------------
(***************************************************************************)
(* The topology and the plan                                               *)
(***************************************************************************)

\* get_cpus_ranked_by_performance: a CPU without a score counts as 0, and the
\* sort keeps the order of the CPU numbers.
Faster(m, c, d) ==
  m.score[c] > m.score[d] \/ (m.score[c] = m.score[d] /\ c < d)

FastestOf(m, cpus) == CHOOSE c \in cpus : \A d \in cpus \ {c} : Faster(m, c, d)

\* A CPU whose core_id cannot be read (-1) is a core of its own.  A core_id is
\* only told apart within a NUMA node.
CoreOf(m, c) == <<m.numa[c], IF m.core[c] = -1 THEN c ELSE m.core[c]>>

CpusOf(m, cpus, core) == {c \in cpus : CoreOf(m, c) = core}
NodeCpus(m, cpus, numa) == {c \in cpus : m.numa[c] = numa}

\* core_perf_rank: a core is as fast as its fastest CPU.
CoreFaster(m, cpus, j, k) ==
  Faster(m, FastestOf(m, CpusOf(m, cpus, j)), FastestOf(m, CpusOf(m, cpus, k)))

\* Cores of the primary node first, then node by node, the better node first.
DealtBefore(m, cpus, j, k) ==
  LET primary == m.numa[FastestOf(m, cpus)]
  IN  IF j[1] = k[1] THEN CoreFaster(m, cpus, j, k)
      ELSE \/ j[1] = primary
           \/ /\ k[1] # primary
              /\ Faster(m, FastestOf(m, NodeCpus(m, cpus, j[1])),
                           FastestOf(m, NodeCpus(m, cpus, k[1])))

compute_affinity_plan(m, mask) ==
  LET cpus == Online(m) \cap mask
      cores == SetToSortSeq({CoreOf(m, c) : c \in cpus},
                            LAMBDA j, k : DealtBefore(m, cpus, j, k))
      primary == m.numa[FastestOf(m, cpus)]
      local == Cardinality({c \in Range(cores) : c[1] = primary})
      n == Min({LoadgenCores, local})
      sets == [i \in DOMAIN cores |-> CpusOf(m, cpus, cores[i])]
  IN  IF cpus = {} THEN [from |-> {}, loadgen |-> {}, sets |-> <<>>]
      ELSE [from |-> cpus,
            loadgen |-> UNION {sets[i] : i \in 1..n},
            sets |-> SubSeq(sets, n + 1, Len(sets))]

\* AffinityPlan.get_worker_cpus, for workers numbered from 0.
get_worker_cpus(plan, worker) ==
  IF plan.sets = <<>> THEN {} ELSE plan.sets[(worker % Len(plan.sets)) + 1]

-----------------------------------------------------------------------------
(***************************************************************************)
(* Pinning                                                                 *)
(***************************************************************************)

\* setup_benchmark's pin_loadgen: the call may be refused, and then there is no
\* plan at all.
pin_loadgen ==
  /\ host.stage = "start" /\ host.tool = "run"
  /\ LET plan == compute_affinity_plan(host.machine, host.mask)
     IN  \/ /\ plan.loadgen # {}
            /\ host' = [host EXCEPT !.stage = "pinned", !.plan = <<plan>>,
                                    !.plans = Append(@, plan), !.mask = plan.loadgen]
         \/ host' = [host EXCEPT !.stage = "pinned", !.plan = <<>>]

\* run_benchmark saves its mask, and _create_client pins it.
SaveAndPin_Late ==
  /\ host.stage = "start" /\ host.tool = "sweep"
  /\ LET plan == compute_affinity_plan(host.machine, host.mask)
         mask == IF plan.loadgen # {} THEN plan.loadgen ELSE host.mask
     IN  host' = [host EXCEPT !.stage = "spawning", !.plan = <<plan>>,
                              !.plans = Append(@, plan), !.mask = mask, !.saved = mask]

SaveAndPin ==
  /\ host.stage = "start" /\ host.tool = "sweep"
  /\ LET plan == compute_affinity_plan(host.machine, host.mask)
     IN  host' = [host EXCEPT
           !.stage = "spawning", !.plan = <<plan>>, !.plans = Append(@, plan),
           !.saved = host.mask,
           !.mask = IF plan.loadgen # {} THEN plan.loadgen ELSE @]

\* expand_to_all_online_cpus asks for all CPUs, the kernel grants the cgroup's;
\* a refusal leaves the inherited mask.
Widened == {Online(host.machine) \cap host.allowed, host.mask}

\* _setup_shards: blocks of the sorted CPUs, the last ones reserved.
Blocks(available) ==
  LET sorted == SetToSortSeq(available, <)
      usable == SubSeq(sorted, 1, Max({1, Len(sorted) - ReservedCpus}))
      starts == {s \in DOMAIN usable : (s - 1) % CoresPerShard = 0}
  IN  {{usable[i] : i \in s..Min({s + CoresPerShard - 1, Len(usable)})} : s \in starts}

\* The aggregator is a child of the pinned process.  cgroup_clamped_cpus widens
\* its mask, looks, and restores it if the kernel lets it.
LaunchAggregator ==
  /\ host.stage = "pinned"
  /\ \E wide \in Widened, back \in BOOLEAN :
       host' = [host EXCEPT !.stage = "spawning",
                            !.aggregator = IF back THEN host.mask ELSE wide,
                            !.shards = SetToSeq(Blocks(wide)), !.restored = back]

\* _pin_workers, after all workers were started with the inherited mask; a
\* refused call leaves the worker where it is.
_pin_workers ==
  /\ host.stage = "spawning"
  /\ \E refused \in SUBSET (0..PoolSize - 1) :
       LET plan == IF host.plan = <<>> THEN [sets |-> <<>>] ELSE host.plan[1]
           pinned == {w \in 0..PoolSize - 1 :
                        w \notin refused /\ get_worker_cpus(plan, w) # {}}
       IN  host' = [host EXCEPT
             !.stage = "running", !.pinned = pinned,
             !.workers = [w \in 0..PoolSize - 1 |->
                            IF w \in pinned THEN get_worker_cpus(plan, w)
                            ELSE host.mask]]

\* The run is over.  Only the sweep gives its process the old mask back, unless
\* the kernel refuses; the next run of a process starts from the mask it has.
FinishRun ==
  /\ host.stage = "running"
  /\ \E back \in IF host.tool = "sweep" THEN BOOLEAN ELSE {FALSE} :
       host' = [host EXCEPT
         !.stage = IF Len(host.plans) < MaxPins THEN "start" ELSE "over",
         !.mask = IF back THEN host.saved ELSE @,
         !.restored = IF host.tool = "sweep" THEN back ELSE TRUE,
         !.plan = <<>>, !.workers = <<>>, !.pinned = {}, !.shards = <<>>,
         !.aggregator = {},
         !.plans = IF host.tool = "sweep" /\ ~back THEN <<>> ELSE @]

HostNext ==
  \/ pin_loadgen \/ SaveAndPin \/ LaunchAggregator \/ _pin_workers \/ FinishRun

-----------------------------------------------------------------------------
\* A plan deals out every CPU it was made from, none twice; the load generator
\* gets the fastest one, stays in one NUMA node, and no hyperthread of its
\* cores, or of a worker's core, is anyone else's.
PlanDealsCores(m, plan) ==
  LET dealt == <<plan.loadgen>> \o plan.sets
  IN  /\ UNION Range(dealt) = plan.from
      /\ \A i, j \in DOMAIN dealt : i # j => dealt[i] \cap dealt[j] = {}
      /\ \A c, d \in plan.from :
           CoreOf(m, c) = CoreOf(m, d) =>
             \E i \in DOMAIN dealt : {c, d} \subseteq dealt[i]
      /\ FastestOf(m, plan.from) \in plan.loadgen
      /\ \A c, d \in plan.loadgen : m.numa[c] = m.numa[d]

\* The measurement is undisturbed: a pinned worker never runs on a CPU of the
\* load generator nor, while there are cores enough, of another pinned worker;
\* the shards' blocks are disjoint, inside the cgroup and leave the reserved
\* CPUs free whenever there are more; the probe leaves the aggregator where it
\* was, unless the kernel refuses; each sweep iteration whose predecessors could
\* restore the mask deals out the same cores as the first ("subsequent sweep
\* iterations see only the restricted set").
CpusAreApart ==
  host.stage # "idle" =>
    /\ \A i \in DOMAIN host.plans : PlanDealsCores(host.machine, host.plans[i])
    /\ host.stage = "running" =>
         \A w \in host.pinned :
           /\ host.workers[w] \cap host.mask = {}
           /\ Len(host.plan[1].sets) >= PoolSize =>
                \A v \in host.pinned \ {w} : host.workers[v] \cap host.workers[w] = {}
    /\ LET used == UNION Range(host.shards)
       IN  /\ \A i, j \in DOMAIN host.shards :
                i # j => host.shards[i] \cap host.shards[j] = {}
           /\ used \subseteq host.allowed
           /\ host.tool = "run" /\ host.restored /\ host.stage = "spawning" =>
                host.aggregator = host.mask
           /\ Cardinality(used) > 1 =>
                Cardinality(host.allowed) - Cardinality(used) >= ReservedCpus
    /\ host.tool = "sweep" =>
         \A i \in DOMAIN host.plans : host.plans[i] = host.plans[1]
=============================================================================
