-------------------------------- MODULE Cluster --------------------------------
(***************************************************************************)
(* From the resources a configuration names to workers with ranks: the     *)
(* split of the nodes between training, generation and the reward model,   *)
(* virtual clusters of one bundle per GPU, placement groups, tied groups of*)
(* workers, and the ranks they take in the collective that carries the     *)
(* weights.  Which GPU a bundle gets is Ray's choice (external).  Ranks,   *)
(* nodes and bundles count from zero as in the code.                       *)
(***************************************************************************)
EXTENDS Integers, Sequences, FiniteSets, SequencesExt

LOCAL Product(sizes) == FoldLeft(LAMBDA x, y : x * y, 1, sizes)
Refused(why) == [refused |-> why]
IsRefused(x) == "refused" \in DOMAIN x

(* What a driver attaches to: its tag is the sorted list of its devices.   *)
Tag(devices) == SortSeq(devices, <)
AttachTo(answers, tags, devices) ==
  CASE ~answers -> "started"
    [] tags = {} -> "external"
    [] Tag(devices) \in tags -> "reused"
    [] OTHER -> "started"

VirtualCluster(nodes, gpus, slots) ==
  [bundles |-> [n \in 1 .. nodes |-> gpus], perNode |-> gpus, slots |-> slots]
WorldSize(cluster) == Len(cluster.bundles) * cluster.perNode

(* ----------------------------------------------------------------------- *)
(* The split of the nodes: 0 for a number that is not given.               *)

Slots(cfg) == CASE cfg.algorithm \in {"sft", "eval"} -> 1
                [] cfg.algorithm = "distillation" ->
                     IF cfg.colocated /\ cfg.backend = "megatron" THEN 1 ELSE 3
                [] OTHER -> IF cfg.colocated /\ cfg.backend = "vllm" THEN 2 ELSE 1

PolicyNodes(cfg) == IF cfg.nodes = 1 THEN 1 ELSE cfg.nodes - cfg.rmNodes

Shared(cfg) ==
  LET gpus == IF cfg.nodes = 1 THEN cfg.gpus - cfg.rmGpus ELSE cfg.gpus
      cluster == VirtualCluster(PolicyNodes(cfg), gpus, Slots(cfg))
  IN  IF PolicyNodes(cfg) <= 0 \/ gpus <= 0 THEN Refused("split")
      ELSE [train |-> cluster, inference |-> cluster]

SeparateGpus(cfg) ==
  LET gpus == cfg.gpus - cfg.infGpus - (IF cfg.nodes = 1 THEN cfg.rmGpus ELSE 0)
  IN  IF cfg.infGpus = 0 \/ cfg.infNodes > 1 \/ gpus <= 0 THEN Refused("split")
      ELSE [train |-> VirtualCluster(1, gpus, Slots(cfg)),
            inference |-> VirtualCluster(1, cfg.infGpus, Slots(cfg))]

(* That nodes are left for training shows only when its policy is built.   *)
SeparateNodes(cfg) ==
  IF cfg.infNodes = 0 \/ cfg.infGpus # cfg.gpus THEN Refused("split")
  ELSE [train |-> VirtualCluster(PolicyNodes(cfg) - cfg.infNodes, cfg.gpus, Slots(cfg)),
        inference |-> VirtualCluster(cfg.infNodes, cfg.gpus, Slots(cfg))]

Split(cfg) ==
  CASE cfg.colocated \/ cfg.algorithm \in {"sft", "eval"} -> Shared(cfg)
    [] cfg.backend = "megatron" \/ PolicyNodes(cfg) <= 0 -> Refused("split")
    [] OTHER -> IF PolicyNodes(cfg) = 1 THEN SeparateGpus(cfg) ELSE SeparateNodes(cfg)

(* ----------------------------------------------------------------------- *)
(* Placement groups. *)

(* Bundles are asked for again while the cluster is too small, but not     *)
(* after they failed to become ready.                                      *)
Created(cluster, seen, retries) ==
  LET enough == {i \in DOMAIN seen : /\ WorldSize(cluster) <= seen[i].gpus
                                     /\ WorldSize(cluster) * cluster.slots <= seen[i].cpus}
      tried == {i \in enough : i <= retries}
  IN  CASE tried = {} -> Refused("insufficient")
        [] ~seen[CHOOSE i \in tried : \A j \in tried : i <= j].ready -> Refused("timeout")
        [] OTHER -> [created |-> TRUE]

(* Ray (external): bundle b of a group over n nodes; GPUs in any order.    *)
RayPlace(cluster, strategy, b) ==
  LET n == Len(cluster.bundles)
      g == cluster.perNode
  IN  IF strategy = "SPREAD" THEN <<b % n, g - 1 - (b \div n)>> ELSE <<b \div g, g - 1 - (b % g)>>

(* Mutant: the bundles as Ray numbers them. *)
SortedBundlesNot(group) == [i \in DOMAIN group |-> i - 1]

(* By node, then by GPU. *)
SortedBundles(group) ==
  LET before(i, j) == \/ group[i + 1][1] < group[j + 1][1]
                      \/ group[i + 1][1] = group[j + 1][1] /\ group[i + 1][2] < group[j + 1][2]
  IN  SortSeq([i \in DOMAIN group |-> i - 1], before)

PlacementGroups(cluster, strategy, unified) ==
  IF unified
  THEN LET group == [i \in 1 .. WorldSize(cluster) |-> RayPlace(cluster, strategy, i - 1)]
       IN  [groups |-> <<group>>, sorted |-> SortedBundles(group)]
  ELSE [groups |-> [n \in DOMAIN cluster.bundles |->
                      [i \in 1 .. cluster.bundles[n] |-> <<n - 1, cluster.perNode - i>>]],
        sorted |-> <<>>]

Group(placed, index) ==
  IF Len(placed.groups) = 1 THEN placed.groups[1] ELSE placed.groups[index + 1]

Master(placed) == Group(placed, 0)[(IF placed.sorted = <<>> THEN 0 ELSE placed.sorted[1]) + 1]

(* ----------------------------------------------------------------------- *)
(* Tied groups of bundles: the group or node they are on, and which.       *)

Tied(node, bundles) == [node |-> node, bundles |-> bundles]
Interval(from, n) == [i \in 1 .. n |-> from + i - 1]

Alone(placed) ==
  FlattenSeq([n \in DOMAIN placed.groups |->
    [i \in DOMAIN placed.groups[n] |-> Tied(n - 1, <<i - 1>>)]])

PolicyTied(cluster, placed) ==
  IF placed.sorted = <<>> THEN Alone(placed)
  ELSE [i \in DOMAIN placed.sorted |-> Tied((i - 1) \div cluster.perNode, <<placed.sorted[i]>>)]

(* Over a single group: bundles in the order of their nodes, sliced.       *)
AcrossNodes(group, size) ==
  LET flat == SortSeq([i \in DOMAIN group |-> i - 1],
                LAMBDA i, j : \/ group[i + 1][1] < group[j + 1][1]
                              \/ group[i + 1][1] = group[j + 1][1] /\ i < j)
      slice(k) == SubSeq(flat, (k - 1) * size + 1, k * size)
      nodes == {group[i][1] : i \in DOMAIN group}
      index(node) == Cardinality({m \in nodes : m < node})
  IN  [k \in 1 .. Len(flat) \div size |-> Tied(index(group[slice(k)[1] + 1][1]), slice(k))]

WithinNodes(groups, size) ==
  FlattenSeq([n \in DOMAIN groups |->
    [k \in 1 .. Len(groups[n]) \div size |-> Tied(n - 1, Interval((k - 1) * size, size))]])

EngineTied(placed, size) ==
  CASE size = 1 -> Alone(placed)
    [] Len(placed.groups) = 1 -> AcrossNodes(placed.groups[1], size)
    [] OTHER -> WithinNodes(placed.groups, size)

(* Workers in the order of their ranks; the first of each group leads it   *)
(* and alone is told the bundles.                                          *)
Workers(placed, tied) ==
  FlattenSeq([g \in DOMAIN tied |->
    [i \in DOMAIN tied[g].bundles |->
      [shard |-> g - 1, node |-> tied[g].node,
       place |-> Group(placed, tied[g].node)[tied[g].bundles[i] + 1],
       owns |-> IF i = 1 THEN tied[g].bundles ELSE <<>>]]])

(* The coordinate of a rank on an axis of the layout.                      *)
Coordinate(sizes, axis, rank) ==
  (rank \div Product(SubSeq(sizes, axis + 1, Len(sizes)))) % sizes[axis]
Ranks(sizes) == 0 .. Product(sizes) - 1

(* The ranks a call goes to that only rank 0 of some axes runs.            *)
RunOn(sizes, axes) == {r \in Ranks(sizes) : \A a \in axes : Coordinate(sizes, a, r) = 0}

(* The seed of an engine, also the name of its cache. *)
Seed(worker) ==
  1024 * worker.node + (IF Len(worker.owns) = 1 THEN worker.owns[1]
                        ELSE worker.owns[1] \div Len(worker.owns))

(* ----------------------------------------------------------------------- *)
(* Policies and engines. *)

PolicySizes(cluster, p) ==
  <<p.pp, WorldSize(cluster) \div (p.pp * p.cp * p.tp), p.cp, p.tp>>

Policy(cluster, placed, p) ==
  IF WorldSize(cluster) < p.pp * p.cp * p.tp \/ WorldSize(cluster) % (p.pp * p.cp * p.tp) # 0
  THEN Refused("policy")
  ELSE [sizes |-> PolicySizes(cluster, p), workers |-> Workers(placed, PolicyTied(cluster, placed))]

EngineSize(e) == e.tp * e.pp

Supported(cluster, e) ==
  /\ WorldSize(cluster) % EngineSize(e) = 0
  /\ e.pp > 1 => e.async
  /\ e.ep > 1 => e.ep % e.tp = 0 /\ (e.ep # e.tp => ~e.async)

Unified(cluster, e) == EngineSize(e) > cluster.perNode

Engine(cluster, placed, e) ==
  LET dp == WorldSize(cluster) \div EngineSize(e)
      tied == EngineTied(placed, EngineSize(e))
  IN  IF ~Supported(cluster, e) THEN Refused("engine")
      ELSE IF Len(tied) # dp THEN Refused("groups")
      ELSE [sizes |-> <<dp, e.pp, e.tp>>, workers |-> Workers(placed, tied)]

(* Engines that share experts: the rank of each in its domain, and whose   *)
(* address they meet at.                                                   *)
ExpertDomain(e, rank) ==
  LET world == (e.ep \div e.tp) * EngineSize(e)
  IN  [rank |-> (rank % world) \div EngineSize(e), leader |-> (rank \div world) * world]

(* Ranks in the collective: training workers keep theirs; each engine adds *)
(* to the training world its prefix and its worker's own rank.             *)
RankPrefixes(engine) ==
  LET each == Len(engine.workers) \div engine.sizes[1]
  IN  [k \in 1 .. engine.sizes[1] |-> (k - 1) * each]

CollectiveRank(train, engine, rank) ==
  LET called == RunOn(engine.sizes, {2, 3})
      leader == CHOOSE r \in called : engine.workers[r + 1].shard = engine.workers[rank + 1].shard
      k == Cardinality({r \in called : r <= leader})
  IN  train + RankPrefixes(engine)[k] + (rank - leader)

(* The first that is built on a cluster decides how its groups are placed: *)
(* the engine, but in distillation the teacher.                            *)
Placed(cfg, clusters) ==
  LET unified == Unified(clusters.inference, cfg.engine)
      engine == PlacementGroups(clusters.inference,
                                IF cfg.colocated THEN "SPREAD" ELSE "PACK", unified)
      plain == PlacementGroups(clusters.train, "SPREAD", FALSE)
  IN  CASE cfg.backend = "megatron" \/ cfg.algorithm = "sft" -> [train |-> plain, inference |-> plain]
        [] ~cfg.colocated -> [train |-> plain, inference |-> engine]
        [] cfg.algorithm = "distillation" -> [train |-> plain, inference |-> plain]
        [] OTHER -> [train |-> engine, inference |-> engine]

HasEngine(cfg) == cfg.backend = "vllm" /\ cfg.algorithm # "sft"

SetUp(cfg) ==
  LET clusters == Split(cfg)
      made == Created(clusters.train, cfg.seen, cfg.retries)
      placed == Placed(cfg, clusters)
      policy == Policy(clusters.train, placed.train, cfg.policy)
      engine == Engine(clusters.inference, placed.inference, cfg.engine)
  IN  CASE IsRefused(clusters) -> clusters
        [] WorldSize(clusters.train) > 0 /\ IsRefused(made) -> made
        [] cfg.algorithm # "eval" /\ IsRefused(policy) -> policy
        [] HasEngine(cfg) /\ IsRefused(engine) -> engine
        [] OTHER -> [clusters |-> clusters, placed |-> placed, policy |-> policy, engine |-> engine]
================================================================================
