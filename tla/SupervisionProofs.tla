------------------------- MODULE SupervisionProofs -------------------------
(***************************************************************************)
(* Theorems about Supervision, for trees of agents of every size, every    *)
(* budget, number of permits and mailbox capacity.                         *)
(***************************************************************************)
EXTENDS Supervision, FiniteSetTheorems, FunctionTheorems, TLAPS

Born(a) == loop[a] # "unborn"

\* Ids are handed out in order, so that a parent is older than its children.
TreeInv ==
    /\ Born(Root)
    /\ \A j, k \in Agents : j < k /\ Born(k) => Born(j)
    /\ \A a \in Agents : agent[a].depth <= a
    /\ \A k \in Children : Born(k) => agent[k].parent < k /\ agent[k].mode \in Modes

\* What a parent that spawns or waits is busy with.
SpawnInv ==
    \A a \in Agents :
        /\ loop[a] = "spawning" \/ loop[a] = "building" => spec[a].mode \in Modes
        /\ loop[a] = "joining" \/ loop[a] = "awaiting" =>
            LET k == spec[a].child
            IN  k \in Children /\ Born(k) /\ agent[k].parent = a /\ agent[k].mode = "AwaitResult"

\* A living agent's token can be derived from, and a child's was derived from
\* its parent's.
TokenInv ==
    /\ \A a \in Agents : Alive(a) => a \in agent_tokens
    /\ \A k \in Children : Born(k) => lineage[agent[k].parent] \subseteq lineage[k]

Listed(k) == k \in agents /\ k \in children_of[agent[k].parent] /\ k \in agent_tokens
Unlisted(k) == k \notin agents /\ k \notin children_of[agent[k].parent] /\ k \notin agent_tokens

\* Where a child is registered, from its birth to after its end.
Registered(k) ==
    /\ agent[k].mode = "Concurrent" =>
        /\ Alive(k) => Listed(k)
        /\ loop[k] = "ended" => Unlisted(k)
    /\ agent[k].mode = "AwaitResult" =>
        LET a == agent[k].parent
        IN  \/ loop[a] = "joining" /\ spec[a].child = k
            \/ /\ loop[a] = "awaiting" /\ spec[a].child = k
               /\ k \notin agents /\ k \notin children_of[a]
            \/ /\ loop[k] = "ended" \/ loop[k] = "dead"
               /\ Unlisted(k)

RegistryInv == \A k \in Children : Born(k) => Registered(k)

\* What has been made of a child's end: nothing before it, once after it.
Accounted(k) ==
    /\ loop[k] = "cleaning" \/ loop[k] = "ended" =>
        /\ reports[k] + Waiting(k) <= 1
        /\ Alive(agent[k].parent) => reports[k] + Waiting(k) = 1
    /\ loop[k] = "dead" =>
        /\ Waiting(k) = 0
        /\ reports[k] = IF agent[k].mode = "AwaitResult" /\ ~WaitsFor(agent[k].parent, k)
                        THEN 1 ELSE 0
    /\ loop[k] \notin {"cleaning", "ended", "dead"} => reports[k] = 0 /\ Waiting(k) = 0

ReportInv == \A k \in Children : Accounted(k)

\* A child's end waits in no mailbox but its parent's.
MailInv ==
    \A a \in Agents : \A i \in DOMAIN mailbox[a] :
        mailbox[a][i] \in Children =>
            LET k == mailbox[a][i] IN Born(k) /\ agent[k].parent = a

Living == {k \in Children : Alive(k)}
Builders == {a \in Agents : loop[a] = "building"}

IInv ==
    /\ TypeOK /\ PermitsAccounted
    /\ TreeInv /\ SpawnInv /\ TokenInv /\ RegistryInv /\ MailInv /\ ReportInv

-----------------------------------------------------------------------------
(***************************************************************************)
(* The tree.                                                               *)
(***************************************************************************)
LEMMA Ids ==
    /\ Root \in Agents /\ Children \subseteq Agents
    /\ \A a \in Agents : a \in Int
    /\ \A k \in Children : k # Root
    /\ IsFiniteSet(Agents) /\ IsFiniteSet(Children)
BY BoundsAssumption, FS_Interval DEF Root, Agents, Children

\* What a spawn changes of the tree.
LEMMA SpawnChildTree ==
    ASSUME TypeOK, TreeInv, SpawnInv, NEW a \in Agents, NEW k \in Children, spawn_child(a, k)
    PROVE  /\ a < k /\ Born(a) /\ ~Born(k) /\ spec[a].mode \in Modes
           /\ agent'[k].parent = a /\ agent'[k].depth = agent[a].depth + 1
           /\ agent'[k].mode = spec[a].mode /\ agent'[k].budget = spec[a].budget
           /\ \A b \in Agents : b # k => agent'[b] = agent[b]
           /\ loop'[k] = "running"
           /\ loop'[a] = IF spec[a].mode = "AwaitResult" THEN "joining" ELSE "running"
           /\ \A b \in Agents : b # k /\ b # a => loop'[b] = loop[b]
<1>1. loop[a] = "building" /\ loop[k] = "unborn"
  BY DEF spawn_child, NextId
<1>2. a # k /\ Born(a) /\ ~Born(k)
  BY <1>1 DEF Born
<1>3. a < k
  BY <1>2, Ids DEF TreeInv
<1>4. spec[a].mode \in Modes
  BY <1>1 DEF SpawnInv
<1>5. /\ agent'[k].parent = a /\ agent'[k].depth = agent[a].depth + 1
      /\ agent'[k].mode = spec[a].mode /\ agent'[k].budget = spec[a].budget
      /\ \A b \in Agents : b # k => agent'[b] = agent[b]
  <2>1. agent' = [agent EXCEPT ![k] = [parent |-> a, depth |-> agent[a].depth + 1,
                                       budget |-> spec[a].budget, mode |-> spec[a].mode]]
    BY DEF spawn_child
  <2>2. k \in Agents /\ DOMAIN agent = Agents
    BY Ids DEF TypeOK
  <2> QED BY <2>1, <2>2
<1>6. /\ loop'[k] = "running"
      /\ loop'[a] = IF spec[a].mode = "AwaitResult" THEN "joining" ELSE "running"
      /\ \A b \in Agents : b # k /\ b # a => loop'[b] = loop[b]
  BY <1>2, Ids DEF TypeOK, spawn_child
<1> QED BY <1>2, <1>3, <1>4, <1>5, <1>6

(***************************************************************************)
(* Every step keeps the tree in order.                                     *)
(***************************************************************************)
LEMMA TreeStep ==
    ASSUME TypeOK, TreeInv, SpawnInv, [Next]_vars
    PROVE  TreeInv'
<1> loop \in [Agents -> Loops] BY DEF TypeOK
<1> agent \in [Agents -> [parent : Agents, depth : 0..MaxAgents, mode : Modes \cup {"None"},
                          budget : Budgets \cup {RootBudget}]]
  BY DEF TypeOK
<1> USE Ids
<1>1. ASSUME NEW a \in Agents, Carry_on(a)
       PROVE  TreeInv'
  BY <1>1 DEF TreeInv, Born, Takes, Carry_on
<1>2. ASSUME NEW a \in Agents, FinishRun(a)
       PROVE  TreeInv'
  BY <1>2 DEF TreeInv, Born, Takes, FinishRun
<1>3. ASSUME NEW a \in Agents, Cancel(a)
       PROVE  TreeInv'
  BY <1>3 DEF TreeInv, Born, Takes, Cancel
<1>4. ASSUME NEW a \in Agents, CancelledLoop(a)
       PROVE  TreeInv'
  BY <1>4 DEF TreeInv, Born, Takes, CancelledLoop
<1>5. ASSUME NEW a \in Agents, NEW m \in Modes, NEW g \in Budgets, Spawn(a, m, g)
       PROVE  TreeInv'
  BY <1>5 DEF TreeInv, Born, Takes, Spawn
<1>6. ASSUME NEW a \in Agents, acquire_agent_permit(a)
       PROVE  TreeInv'
  BY <1>6 DEF TreeInv, Born, Takes, acquire_agent_permit
<1>7. ASSUME NEW a \in Agents, SpawnFails(a)
       PROVE  TreeInv'
  BY <1>7 DEF TreeInv, Born, Takes, SpawnFails
<1>8. ASSUME NEW a \in Agents, NEW k \in Children, spawn_child(a, k)
       PROVE  TreeInv'
  <2>1. \A b \in Agents : Born(b)' <=> Born(b) \/ b = k
    BY <1>8, SpawnChildTree DEF Born
  <2>2. \A j \in Children : j < k => Born(j)
    BY <1>8 DEF NextId, spawn_child, Born
  <2>3. \A j \in Agents : j < k => Born(j)
    BY <2>2 DEF TreeInv, Root, Children, Agents
  <2>4. \A j, i \in Agents : j < i /\ Born(i)' => Born(j)'
    BY <2>1, <2>3 DEF TreeInv
  <2>5. \A b \in Agents : agent'[b].depth <= b
    <3>1. agent'[k].depth = agent[a].depth + 1 /\ agent[a].depth <= a /\ a < k
      BY <1>8, SpawnChildTree DEF TreeInv
    <3>2. agent[a].depth \in Int
      BY BoundsAssumption
    <3>3. \A b \in Agents : agent[b].depth <= b
      BY DEF TreeInv
    <3> QED BY <3>1, <3>2, <3>3, <1>8, SpawnChildTree
  <2>6. \A j \in Children : Born(j)' => agent'[j].parent < j /\ agent'[j].mode \in Modes
    <3>1. \A j \in Children : Born(j) => agent[j].parent < j /\ agent[j].mode \in Modes
      BY DEF TreeInv
    <3> QED BY <2>1, <3>1, <1>8, SpawnChildTree
  <2> QED BY <2>1, <2>4, <2>5, <2>6 DEF TreeInv, Born
<1>9. ASSUME NEW a \in Agents, NEW k \in Children, ChildReported(a, k)
       PROVE  TreeInv'
  BY <1>9 DEF TreeInv, Born, Takes, ChildReported
<1>10. ASSUME NEW a \in Agents, await_child(a)
       PROVE  TreeInv'
  BY <1>10 DEF TreeInv, Born, Takes, await_child
<1>11. ASSUME NEW a \in Agents, Joined(a)
       PROVE  TreeInv'
  BY <1>11 DEF TreeInv, Born, Takes, Joined
<1>12. ASSUME NEW k \in Children, Report(k)
       PROVE  TreeInv'
  BY <1>12 DEF TreeInv, Born, Takes, Report
<1>13. ASSUME NEW k \in Children, TaskEnds(k)
       PROVE  TreeInv'
  BY <1>13 DEF TreeInv, Born, Takes, TaskEnds
<1>14. ASSUME NEW k \in Children, TaskDies(k)
       PROVE  TreeInv'
  BY <1>14 DEF TreeInv, Born, Takes, TaskDies
<1>15. ASSUME NEW a \in Agents, Deliver(a)
       PROVE  TreeInv'
  BY <1>15 DEF TreeInv, Born, Takes, Deliver
<1>16. ASSUME cancel_session
       PROVE  TreeInv'
  BY <1>16 DEF TreeInv, Born, Takes, cancel_session
<1>17. CASE UNCHANGED vars
  BY <1>17 DEF TreeInv, Born, vars
<1> QED BY <1>1, <1>2, <1>3, <1>4, <1>5, <1>6, <1>7, <1>8, <1>9, <1>10, <1>11, <1>12, <1>13, <1>14, <1>15, <1>16, <1>17
    DEF Next, TaskStep, Step, Epilogue

(***************************************************************************)
(* Every step keeps track of what a parent waits for.                      *)
(***************************************************************************)
LEMMA SpawnStep ==
    ASSUME TypeOK, TreeInv, SpawnInv, [Next]_vars
    PROVE  SpawnInv'
<1> loop \in [Agents -> Loops] BY DEF TypeOK
<1> agent \in [Agents -> [parent : Agents, depth : 0..MaxAgents, mode : Modes \cup {"None"},
                          budget : Budgets \cup {RootBudget}]]
  BY DEF TypeOK
<1> USE Ids
<1> spec \in [Agents -> [child : Agents, mode : Modes \cup {"None"},
                         budget : Budgets \cup {RootBudget}]]
  BY DEF TypeOK
<1>1. ASSUME NEW a \in Agents, Carry_on(a)
       PROVE  SpawnInv'
  BY <1>1 DEF TreeInv, SpawnInv, Born, Takes, Carry_on
<1>2. ASSUME NEW a \in Agents, FinishRun(a)
       PROVE  SpawnInv'
  <2>1. agent' = agent /\ spec' = spec /\ \A b \in Agents : Born(b)' <=> Born(b)
    BY <1>2 DEF Born, Takes, FinishRun
  <2>2. \A b \in Agents : loop'[b] \in {"spawning", "building", "joining", "awaiting"} => loop'[b] = loop[b]
    BY <1>2 DEF Takes, FinishRun
  <2> QED BY <2>1, <2>2 DEF SpawnInv
<1>3. ASSUME NEW a \in Agents, Cancel(a)
       PROVE  SpawnInv'
  BY <1>3 DEF TreeInv, SpawnInv, Born, Takes, Cancel
<1>4. ASSUME NEW a \in Agents, CancelledLoop(a)
       PROVE  SpawnInv'
  BY <1>4 DEF TreeInv, SpawnInv, Born, Takes, CancelledLoop
<1>5. ASSUME NEW a \in Agents, NEW m \in Modes, NEW g \in Budgets, Spawn(a, m, g)
       PROVE  SpawnInv'
  BY <1>5 DEF TreeInv, SpawnInv, Born, Takes, Spawn
<1>6. ASSUME NEW a \in Agents, acquire_agent_permit(a)
       PROVE  SpawnInv'
  BY <1>6 DEF TreeInv, SpawnInv, Born, Takes, acquire_agent_permit
<1>7. ASSUME NEW a \in Agents, SpawnFails(a)
       PROVE  SpawnInv'
  BY <1>7 DEF TreeInv, SpawnInv, Born, Takes, SpawnFails
<1>8. ASSUME NEW a \in Agents, NEW k \in Children, spawn_child(a, k)
       PROVE  SpawnInv'
  BY <1>8 DEF TreeInv, SpawnInv, Born, NextId, spawn_child
<1>9. ASSUME NEW a \in Agents, NEW k \in Children, ChildReported(a, k)
       PROVE  SpawnInv'
  BY <1>9 DEF TreeInv, SpawnInv, Born, Takes, ChildReported
<1>10. ASSUME NEW a \in Agents, await_child(a)
       PROVE  SpawnInv'
  BY <1>10 DEF TreeInv, SpawnInv, Born, Takes, await_child
<1>11. ASSUME NEW a \in Agents, Joined(a)
       PROVE  SpawnInv'
  BY <1>11 DEF TreeInv, SpawnInv, Born, Takes, Joined
<1>12. ASSUME NEW k \in Children, Report(k)
       PROVE  SpawnInv'
  <2>1. agent' = agent /\ spec' = spec /\ \A b \in Agents : Born(b)' <=> Born(b)
    BY <1>12 DEF Born, Takes, Report
  <2>2. \A b \in Agents : loop'[b] \in {"spawning", "building", "joining", "awaiting"} => loop'[b] = loop[b]
    BY <1>12 DEF Takes, Report
  <2> QED BY <2>1, <2>2 DEF SpawnInv
<1>13. ASSUME NEW k \in Children, TaskEnds(k)
       PROVE  SpawnInv'
  <2>1. agent' = agent /\ spec' = spec /\ \A b \in Agents : Born(b)' <=> Born(b)
    BY <1>13 DEF Born, Takes, TaskEnds
  <2>2. \A b \in Agents : loop'[b] \in {"spawning", "building", "joining", "awaiting"} => loop'[b] = loop[b]
    BY <1>13 DEF Takes, TaskEnds
  <2> QED BY <2>1, <2>2 DEF SpawnInv
<1>14. ASSUME NEW k \in Children, TaskDies(k)
       PROVE  SpawnInv'
  <2>1. agent' = agent /\ spec' = spec /\ \A b \in Agents : Born(b)' <=> Born(b)
    BY <1>14 DEF Born, Takes, TaskDies
  <2>2. \A b \in Agents : loop'[b] \in {"spawning", "building", "joining", "awaiting"} => loop'[b] = loop[b]
    BY <1>14 DEF Takes, TaskDies
  <2> QED BY <2>1, <2>2 DEF SpawnInv
<1>15. ASSUME NEW a \in Agents, Deliver(a)
       PROVE  SpawnInv'
  BY <1>15 DEF TreeInv, SpawnInv, Born, Takes, Deliver
<1>16. ASSUME cancel_session
       PROVE  SpawnInv'
  BY <1>16 DEF TreeInv, SpawnInv, Born, Takes, cancel_session
<1>17. CASE UNCHANGED vars
  BY <1>17 DEF SpawnInv, Born, vars
<1> QED BY <1>1, <1>2, <1>3, <1>4, <1>5, <1>6, <1>7, <1>8, <1>9, <1>10, <1>11, <1>12, <1>13, <1>14, <1>15, <1>16, <1>17
    DEF Next, TaskStep, Step, Epilogue

(***************************************************************************)
(* Every step keeps the tokens of the living, and of a child below its     *)
(* parent's.                                                               *)
(***************************************************************************)
LEMMA TokenStep ==
    ASSUME TypeOK, TreeInv, SpawnInv, TokenInv, [Next]_vars
    PROVE  TokenInv'
<1> loop \in [Agents -> Loops] BY DEF TypeOK
<1> agent \in [Agents -> [parent : Agents, depth : 0..MaxAgents, mode : Modes \cup {"None"},
                          budget : Budgets \cup {RootBudget}]]
  BY DEF TypeOK
<1> USE Ids
<1> lineage \in [Agents -> SUBSET (Agents \cup {Session})] /\ agent_tokens \subseteq Agents
  BY DEF TypeOK
<1>1. ASSUME NEW a \in Agents, Carry_on(a)
       PROVE  TokenInv'
  BY <1>1 DEF TreeInv, TokenInv, Born, Alive, Takes, supervisor, Carry_on
<1>2. ASSUME NEW a \in Agents, FinishRun(a)
       PROVE  TokenInv'
  BY <1>2 DEF TreeInv, TokenInv, Born, Alive, Takes, supervisor, FinishRun
<1>3. ASSUME NEW a \in Agents, Cancel(a)
       PROVE  TokenInv'
  BY <1>3 DEF TreeInv, TokenInv, Born, Alive, Takes, supervisor, Cancel
<1>4. ASSUME NEW a \in Agents, CancelledLoop(a)
       PROVE  TokenInv'
  BY <1>4 DEF TreeInv, TokenInv, Born, Alive, Takes, supervisor, CancelledLoop
<1>5. ASSUME NEW a \in Agents, NEW m \in Modes, NEW g \in Budgets, Spawn(a, m, g)
       PROVE  TokenInv'
  BY <1>5 DEF TreeInv, TokenInv, Born, Alive, Takes, supervisor, Spawn
<1>6. ASSUME NEW a \in Agents, acquire_agent_permit(a)
       PROVE  TokenInv'
  BY <1>6 DEF TreeInv, TokenInv, Born, Alive, Takes, supervisor, acquire_agent_permit
<1>7. ASSUME NEW a \in Agents, SpawnFails(a)
       PROVE  TokenInv'
  BY <1>7 DEF TreeInv, TokenInv, Born, Alive, Takes, supervisor, SpawnFails
<1>8. ASSUME NEW a \in Agents, NEW k \in Children, spawn_child(a, k)
       PROVE  TokenInv'
  BY <1>8 DEF TreeInv, SpawnInv, TokenInv, Born, Alive, child_cancellation, NextId, spawn_child
<1>9. ASSUME NEW a \in Agents, NEW k \in Children, ChildReported(a, k)
       PROVE  TokenInv'
  BY <1>9 DEF TreeInv, TokenInv, Born, Alive, Takes, supervisor, ChildReported
<1>10. ASSUME NEW a \in Agents, await_child(a)
       PROVE  TokenInv'
  BY <1>10 DEF TreeInv, TokenInv, Born, Alive, Takes, supervisor, await_child
<1>11. ASSUME NEW a \in Agents, Joined(a)
       PROVE  TokenInv'
  BY <1>11 DEF TreeInv, TokenInv, Born, Alive, Takes, supervisor, Joined
<1>12. ASSUME NEW k \in Children, Report(k)
       PROVE  TokenInv'
  BY <1>12 DEF TreeInv, TokenInv, Born, Alive, Takes, supervisor, Report
<1>13. ASSUME NEW k \in Children, TaskEnds(k)
       PROVE  TokenInv'
  BY <1>13 DEF TreeInv, TokenInv, Born, Alive, deregister, TaskEnds, supervisor
<1>14. ASSUME NEW k \in Children, TaskDies(k)
       PROVE  TokenInv'
  BY <1>14 DEF TreeInv, TokenInv, Born, Alive, Takes, supervisor, TaskDies
<1>15. ASSUME NEW a \in Agents, Deliver(a)
       PROVE  TokenInv'
  BY <1>15 DEF TreeInv, TokenInv, Born, Alive, Takes, supervisor, Deliver
<1>16. ASSUME cancel_session
       PROVE  TokenInv'
  BY <1>16 DEF TreeInv, TokenInv, Born, Alive, Takes, supervisor, cancel_session
<1>17. CASE UNCHANGED vars
  BY <1>17 DEF TokenInv, Born, Alive, vars, supervisor
<1> QED BY <1>1, <1>2, <1>3, <1>4, <1>5, <1>6, <1>7, <1>8, <1>9, <1>10, <1>11, <1>12, <1>13, <1>14, <1>15, <1>16, <1>17
    DEF Next, TaskStep, Step, Epilogue

(***************************************************************************)
(* Every step keeps the registry current.                                  *)
(***************************************************************************)
LEMMA RegistryStep ==
    ASSUME TypeOK, TreeInv, SpawnInv, TokenInv, RegistryInv, [Next]_vars
    PROVE  RegistryInv'
<1> loop \in [Agents -> Loops] BY DEF TypeOK
<1> agent \in [Agents -> [parent : Agents, depth : 0..MaxAgents, mode : Modes \cup {"None"},
                          budget : Budgets \cup {RootBudget}]]
  BY DEF TypeOK
<1> USE Ids
<1> spec \in [Agents -> [child : Agents, mode : Modes \cup {"None"},
                         budget : Budgets \cup {RootBudget}]]
  BY DEF TypeOK
<1> children_of \in [Agents -> SUBSET Children] /\ agents \subseteq Children /\ agent_tokens \subseteq Agents
  BY DEF TypeOK
<1>1. ASSUME NEW a \in Agents, Carry_on(a)
       PROVE  RegistryInv'
  BY <1>1 DEF TreeInv, SpawnInv, RegistryInv, Registered, Listed, Unlisted, Born, Alive, Takes, supervisor, Carry_on
<1>2. ASSUME NEW a \in Agents, FinishRun(a)
       PROVE  RegistryInv'
  BY <1>2 DEF TreeInv, SpawnInv, RegistryInv, Registered, Listed, Unlisted, Born, Alive, Takes, supervisor, FinishRun
<1>3. ASSUME NEW a \in Agents, Cancel(a)
       PROVE  RegistryInv'
  BY <1>3 DEF TreeInv, SpawnInv, RegistryInv, Registered, Listed, Unlisted, Born, Alive, Takes, supervisor, Cancel
<1>4. ASSUME NEW a \in Agents, CancelledLoop(a)
       PROVE  RegistryInv'
  <2>1. UNCHANGED <<agent, spec, agents, children_of, agent_tokens>>
    BY <1>4 DEF CancelledLoop, supervisor
  <2>2. loop[a] = "running" /\ loop'[a] \in {"ended", "reporting"} /\ \A b \in Agents : b # a => loop'[b] = loop[b]
    BY <1>4 DEF CancelledLoop
  <2>3. a # Root => loop'[a] = "reporting"
    BY <1>4 DEF CancelledLoop
  <2> QED BY <2>1, <2>2, <2>3 DEF TreeInv, SpawnInv, RegistryInv, Registered, Listed, Unlisted, Born, Alive
<1>5. ASSUME NEW a \in Agents, NEW m \in Modes, NEW g \in Budgets, Spawn(a, m, g)
       PROVE  RegistryInv'
  BY <1>5 DEF TreeInv, SpawnInv, RegistryInv, Registered, Listed, Unlisted, Born, Alive, Takes, supervisor, Spawn
<1>6. ASSUME NEW a \in Agents, acquire_agent_permit(a)
       PROVE  RegistryInv'
  BY <1>6 DEF TreeInv, SpawnInv, RegistryInv, Registered, Listed, Unlisted, Born, Alive, Takes, supervisor, acquire_agent_permit
<1>7. ASSUME NEW a \in Agents, SpawnFails(a)
       PROVE  RegistryInv'
  BY <1>7 DEF TreeInv, SpawnInv, RegistryInv, Registered, Listed, Unlisted, Born, Alive, Takes, supervisor, SpawnFails
<1>8. ASSUME NEW a \in Agents, NEW k \in Children, spawn_child(a, k)
       PROVE  RegistryInv'
  <2>1. /\ agents' = agents \cup {k} /\ agent_tokens' = agent_tokens \cup {k}
        /\ \A b \in Agents : children_of'[b] = IF b = a THEN children_of[b] \cup {k} ELSE children_of[b]
    BY <1>8 DEF spawn_child
  <2>2. /\ spec[a].mode = "AwaitResult" => spec'[a].child = k
        /\ \A b \in Agents : b # a => spec'[b] = spec[b]
    BY <1>8 DEF spawn_child
  <2>3. ASSUME NEW j \in Children, j # k, Born(j) PROVE Registered(j)'
    <3>1. j \in Agents /\ agent'[j] = agent[j] /\ agent[j].parent \in Agents /\ agent[j].parent # k
      <4>1. agent[j].parent \in Agents /\ agent[j].parent < j /\ j \in Agents
        BY <2>3 DEF TreeInv
      <4>2. Born(agent[j].parent)
        BY <4>1, <2>3 DEF TreeInv
      <4> QED BY <1>8, <2>3, <4>1, <4>2, SpawnChildTree
    <3>2. loop[a] = "building" /\ loop[j] # "unborn"
      BY <1>8, <2>3 DEF spawn_child, Born
    <3>3. Registered(j)
      BY <2>3 DEF RegistryInv
    <3>4. (Listed(j)' <=> Listed(j)) /\ (Unlisted(j)' <=> Unlisted(j))
      BY <2>1, <2>3, <3>1 DEF Listed, Unlisted
    <3>5. (Alive(j)' <=> Alive(j)) /\ (loop'[j] = "ended" <=> loop[j] = "ended") /\ (loop'[j] = "dead" <=> loop[j] = "dead")
      BY <1>8, <2>3, <3>1, <3>2, SpawnChildTree DEF Alive
    <3>6. CASE agent[j].parent = a
      BY <3>1, <3>2, <3>3, <3>4, <3>5, <3>6 DEF Registered
    <3>7. CASE agent[j].parent # a
      <4> DEFINE b == agent[j].parent
      <4>1. b \in Agents /\ b # a /\ b # k
        BY <3>1, <3>7
      <4> HIDE DEF b
      <4>2. loop'[b] = loop[b]
        BY <1>8, <4>1, SpawnChildTree
      <4>3. loop'[b] = loop[b] /\ spec'[b] = spec[b] /\ children_of'[b] = children_of[b]
        BY <2>1, <2>2, <4>1, <4>2
      <4>4. j \in agents' <=> j \in agents
        BY <2>1, <2>3
      <4> QED BY <3>1, <3>3, <3>4, <3>5, <4>3, <4>4 DEF Registered, b
    <3> QED BY <3>6, <3>7
  <2>4. Registered(k)'
    <3>1. Listed(k)' /\ k \in Agents
      <4>1. agent'[k].parent = a
        BY <1>8, SpawnChildTree
      <4> QED BY <2>1, <4>1 DEF Listed
    <3> QED BY <1>8, <2>2, <3>1, SpawnChildTree DEF Registered, Modes
  <2>5. \A j \in Children : Born(j)' => Born(j) \/ j = k
    BY <1>8, SpawnChildTree DEF Born
  <2> QED BY <2>3, <2>4, <2>5 DEF RegistryInv
<1>9. ASSUME NEW a \in Agents, NEW k \in Children, ChildReported(a, k)
       PROVE  RegistryInv'
  BY <1>9 DEF TreeInv, SpawnInv, RegistryInv, Registered, Listed, Unlisted, Born, Alive, Takes, supervisor, ChildReported
<1>10. ASSUME NEW a \in Agents, await_child(a)
       PROVE  RegistryInv'
  BY <1>10 DEF TreeInv, SpawnInv, RegistryInv, Registered, Listed, Unlisted, Born, Alive, Takes, supervisor, await_child
<1>11. ASSUME NEW a \in Agents, Joined(a)
       PROVE  RegistryInv'
  BY <1>11 DEF TreeInv, SpawnInv, RegistryInv, Registered, Listed, Unlisted, Born, Alive, Takes, supervisor, Joined
<1>12. ASSUME NEW k \in Children, Report(k)
       PROVE  RegistryInv'
  BY <1>12 DEF TreeInv, SpawnInv, RegistryInv, Registered, Listed, Unlisted, Born, Alive, Takes, supervisor, Report
<1>13. ASSUME NEW k \in Children, TaskEnds(k)
       PROVE  RegistryInv'
  <2>1. loop[k] = "cleaning" /\ loop'[k] = "ended" /\ \A b \in Agents : b # k => loop'[b] = loop[b]
    BY <1>13 DEF TaskEnds
  <2>2. agent' = agent /\ spec' = spec
    BY <1>13 DEF TaskEnds
  <2>3. Registered(k) /\ Alive(k) /\ agent[k].mode \in Modes
    BY <2>1 DEF RegistryInv, TreeInv, Born, Alive
  <2>4. ASSUME NEW j \in Children, Born(j), j # k PROVE Registered(j)'
    <3>1. CASE agent[k].mode = "Concurrent"
      <4>1. /\ agents' = agents \ {k} /\ agent_tokens' = agent_tokens \ {k}
            /\ children_of' = [children_of EXCEPT ![agent[k].parent] = @ \ {k}]
        BY <1>13, <3>1 DEF TaskEnds, deregister
      <4>2. \A b \in Agents : children_of'[b] = IF b = agent[k].parent THEN children_of[b] \ {k} ELSE children_of[b]
        BY <4>1
      <4>3. agent[j].parent \in Agents /\ j \in Agents
        BY <2>4
      <4>4. (Listed(j)' <=> Listed(j)) /\ (Unlisted(j)' <=> Unlisted(j))
        BY <2>2, <2>4, <4>1, <4>2, <4>3 DEF Listed, Unlisted
      <4>5. j \notin agents /\ j \notin children_of[agent[j].parent]
             => j \notin agents' /\ j \notin children_of'[agent[j].parent]
        BY <2>4, <4>1, <4>2, <4>3
      <4> QED BY <2>1, <2>2, <2>4, <4>3, <4>4, <4>5 DEF RegistryInv, Registered, Alive
    <3>2. CASE agent[k].mode # "Concurrent"
      <4>1. UNCHANGED supervisor
        BY <1>13, <3>2 DEF TaskEnds
      <4> QED BY <2>1, <2>2, <2>4, <4>1 DEF RegistryInv, Registered, Listed, Unlisted, Alive, supervisor
    <3> QED BY <3>1, <3>2
  <2>5. Registered(k)'
    <3>1. CASE agent[k].mode = "Concurrent"
      BY <1>13, <2>1, <2>2, <3>1 DEF Registered, Unlisted, Alive, TaskEnds, deregister
    <3>2. CASE agent[k].mode = "AwaitResult"
      BY <1>13, <2>1, <2>2, <2>3, <3>2 DEF Registered, TaskEnds, supervisor
    <3> QED BY <2>3, <3>1, <3>2 DEF Modes
  <2>6. \A j \in Children : Born(j)' => Born(j)
    BY <2>1 DEF Born
  <2> QED BY <2>4, <2>5, <2>6 DEF RegistryInv
<1>14. ASSUME NEW k \in Children, TaskDies(k)
       PROVE  RegistryInv'
  BY <1>14 DEF TreeInv, SpawnInv, RegistryInv, Registered, Listed, Unlisted, Born, Alive, Takes, supervisor, TaskDies
<1>15. ASSUME NEW a \in Agents, Deliver(a)
       PROVE  RegistryInv'
  BY <1>15 DEF TreeInv, SpawnInv, RegistryInv, Registered, Listed, Unlisted, Born, Alive, Takes, supervisor, Deliver
<1>16. ASSUME cancel_session
       PROVE  RegistryInv'
  BY <1>16 DEF TreeInv, SpawnInv, RegistryInv, Registered, Listed, Unlisted, Born, Alive, Takes, supervisor, cancel_session
<1>17. CASE UNCHANGED vars
  BY <1>17 DEF RegistryInv, Registered, Listed, Unlisted, Born, Alive, vars, supervisor
<1> QED BY <1>1, <1>2, <1>3, <1>4, <1>5, <1>6, <1>7, <1>8, <1>9, <1>10, <1>11, <1>12, <1>13, <1>14, <1>15, <1>16, <1>17
    DEF Next, TaskStep, Step, Epilogue

LEMMA LivingAndBuilders ==
    /\ IsFiniteSet(Living) /\ IsFiniteSet(Builders)
    /\ Cardinality(Living) \in Nat /\ Cardinality(Builders) \in Nat
<1>1. Living \subseteq Children /\ Builders \subseteq Agents
  BY DEF Living, Builders
<1>2. IsFiniteSet(Living) /\ IsFiniteSet(Builders)
  BY <1>1, Ids, FS_Subset
<1> QED BY <1>2, FS_CardinalityType

(***************************************************************************)
(* Every step accounts for every permit.                                   *)
(***************************************************************************)
LEMMA PermitsStep ==
    ASSUME TypeOK, PermitsAccounted, TreeInv, SpawnInv, [Next]_vars
    PROVE  PermitsAccounted'
<1> loop \in [Agents -> Loops] /\ available \in Nat
  BY DEF TypeOK
<1> USE Ids
<1>1. ASSUME NEW a \in Agents, Carry_on(a)
       PROVE  PermitsAccounted'
  <2>1. Living' = Living
    BY <1>1 DEF Living, Alive, Takes, Carry_on
  <2>2. Builders' = Builders
    BY <1>1 DEF Builders, Takes, Carry_on
  <2>3. available' = available
    BY <1>1 DEF Carry_on, Takes
  <2> QED BY <2>1, <2>2, <2>3, LivingAndBuilders, FS_AddElement, FS_RemoveElement DEF PermitsAccounted, Living, Builders
<1>2. ASSUME NEW a \in Agents, FinishRun(a)
       PROVE  PermitsAccounted'
  <2>1. Living' = Living
    BY <1>2 DEF Living, Alive, Takes, FinishRun
  <2>2. Builders' = Builders
    BY <1>2 DEF Builders, Takes, FinishRun
  <2>3. available' = available
    BY <1>2 DEF FinishRun, Takes
  <2> QED BY <2>1, <2>2, <2>3, LivingAndBuilders, FS_AddElement, FS_RemoveElement DEF PermitsAccounted, Living, Builders
<1>3. ASSUME NEW a \in Agents, Cancel(a)
       PROVE  PermitsAccounted'
  <2>1. Living' = Living
    BY <1>3 DEF Living, Alive, Takes, Cancel
  <2>2. Builders' = Builders
    BY <1>3 DEF Builders, Takes, Cancel
  <2>3. available' = available
    BY <1>3 DEF Cancel, Takes
  <2> QED BY <2>1, <2>2, <2>3, LivingAndBuilders, FS_AddElement, FS_RemoveElement DEF PermitsAccounted, Living, Builders
<1>4. ASSUME NEW a \in Agents, CancelledLoop(a)
       PROVE  PermitsAccounted'
  <2>1. Living' = Living
    BY <1>4 DEF Living, Alive, Takes, CancelledLoop
  <2>2. Builders' = Builders
    BY <1>4 DEF Builders, Takes, CancelledLoop
  <2>3. available' = available
    BY <1>4 DEF CancelledLoop, Takes
  <2> QED BY <2>1, <2>2, <2>3, LivingAndBuilders, FS_AddElement, FS_RemoveElement DEF PermitsAccounted, Living, Builders
<1>5. ASSUME NEW a \in Agents, NEW m \in Modes, NEW g \in Budgets, Spawn(a, m, g)
       PROVE  PermitsAccounted'
  <2>1. Living' = Living
    BY <1>5 DEF Living, Alive, Takes, Spawn
  <2>2. Builders' = Builders
    BY <1>5 DEF Builders, Takes, Spawn
  <2>3. available' = available
    BY <1>5 DEF Spawn, Takes
  <2> QED BY <2>1, <2>2, <2>3, LivingAndBuilders, FS_AddElement, FS_RemoveElement DEF PermitsAccounted, Living, Builders
<1>6. ASSUME NEW a \in Agents, acquire_agent_permit(a)
       PROVE  PermitsAccounted'
  <2>1. Living' = Living
    BY <1>6 DEF Living, Alive, acquire_agent_permit
  <2>2. Builders' = Builders \cup {a}
    BY <1>6 DEF Builders, acquire_agent_permit
  <2>3. available' = available - 1
    BY <1>6 DEF acquire_agent_permit
  <2>4. a \notin Builders
    BY <1>6 DEF Living, Builders, Alive, NextId, acquire_agent_permit
  <2>5. Cardinality(Living') = Cardinality(Living)
    BY <2>1, <2>4, LivingAndBuilders, FS_AddElement, FS_RemoveElement
  <2>6. Cardinality(Builders') = Cardinality(Builders) + 1
    BY <2>2, <2>4, LivingAndBuilders, FS_AddElement, FS_RemoveElement
  <2>7. available + Cardinality(Living) + Cardinality(Builders) = max_active_agents
    BY DEF PermitsAccounted, Living, Builders
  <2>8. available' + Cardinality(Living') + Cardinality(Builders') = max_active_agents
    BY <2>3, <2>5, <2>6, <2>7, LivingAndBuilders
  <2> QED BY <2>8 DEF PermitsAccounted, Living, Builders
<1>7. ASSUME NEW a \in Agents, SpawnFails(a)
       PROVE  PermitsAccounted'
  <2>1. Living' = Living
    BY <1>7 DEF Living, Alive, SpawnFails
  <2>2. Builders' = Builders \ {a}
    BY <1>7 DEF Builders, SpawnFails
  <2>3. available' = available + 1
    BY <1>7 DEF SpawnFails, permit_dropped
  <2>4. a \in Builders
    BY <1>7 DEF Living, Builders, Alive, NextId, SpawnFails
  <2>5. Cardinality(Living') = Cardinality(Living)
    BY <2>1, <2>4, LivingAndBuilders, FS_AddElement, FS_RemoveElement
  <2>6. Cardinality(Builders') = Cardinality(Builders) - 1
    BY <2>2, <2>4, LivingAndBuilders, FS_AddElement, FS_RemoveElement
  <2>7. available + Cardinality(Living) + Cardinality(Builders) = max_active_agents
    BY DEF PermitsAccounted, Living, Builders
  <2>8. available' + Cardinality(Living') + Cardinality(Builders') = max_active_agents
    BY <2>3, <2>5, <2>6, <2>7, LivingAndBuilders
  <2> QED BY <2>8 DEF PermitsAccounted, Living, Builders
<1>8. ASSUME NEW a \in Agents, NEW k \in Children, spawn_child(a, k)
       PROVE  PermitsAccounted'
  <2>0. a # k /\ \A b \in Agents : loop'[b] = IF b = k THEN "running" ELSE IF b = a THEN loop'[a] ELSE loop[b]
    BY <1>8, SpawnChildTree
  <2>1. Living' = Living \cup {k}
    BY <1>8 DEF Living, Alive, spawn_child
  <2>2. Builders' = Builders \ {a}
    <3>1. loop[a] = "building" /\ loop[k] # "building" /\ loop'[a] # "building"
      BY <1>8, SpawnChildTree DEF spawn_child, NextId
    <3>2. \A b \in Agents : loop'[b] = "building" <=> loop[b] = "building" /\ b # a
      BY <2>0, <3>1
    <3> QED BY <3>2 DEF Builders
  <2>3. available' = available
    BY <1>8 DEF spawn_child
  <2>4. k \notin Living /\ a \in Builders /\ a # k
    BY <1>8 DEF Living, Builders, Alive, NextId, spawn_child
  <2>5. Cardinality(Living') = Cardinality(Living) + 1
    BY <2>1, <2>4, LivingAndBuilders, FS_AddElement, FS_RemoveElement
  <2>6. Cardinality(Builders') = Cardinality(Builders) - 1
    BY <2>2, <2>4, LivingAndBuilders, FS_AddElement, FS_RemoveElement
  <2>7. available + Cardinality(Living) + Cardinality(Builders) = max_active_agents
    BY DEF PermitsAccounted, Living, Builders
  <2>8. available' + Cardinality(Living') + Cardinality(Builders') = max_active_agents
    BY <2>3, <2>5, <2>6, <2>7, LivingAndBuilders
  <2> QED BY <2>8 DEF PermitsAccounted, Living, Builders
<1>9. ASSUME NEW a \in Agents, NEW k \in Children, ChildReported(a, k)
       PROVE  PermitsAccounted'
  <2>1. Living' = Living
    BY <1>9 DEF Living, Alive, Takes, ChildReported
  <2>2. Builders' = Builders
    BY <1>9 DEF Builders, Takes, ChildReported
  <2>3. available' = available
    BY <1>9 DEF ChildReported, Takes
  <2> QED BY <2>1, <2>2, <2>3, LivingAndBuilders, FS_AddElement, FS_RemoveElement DEF PermitsAccounted, Living, Builders
<1>10. ASSUME NEW a \in Agents, await_child(a)
       PROVE  PermitsAccounted'
  <2>1. Living' = Living
    BY <1>10 DEF Living, Alive, Takes, await_child
  <2>2. Builders' = Builders
    BY <1>10 DEF Builders, Takes, await_child
  <2>3. available' = available
    BY <1>10 DEF await_child, Takes
  <2> QED BY <2>1, <2>2, <2>3, LivingAndBuilders, FS_AddElement, FS_RemoveElement DEF PermitsAccounted, Living, Builders
<1>11. ASSUME NEW a \in Agents, Joined(a)
       PROVE  PermitsAccounted'
  <2>1. Living' = Living
    BY <1>11 DEF Living, Alive, Takes, Joined
  <2>2. Builders' = Builders
    BY <1>11 DEF Builders, Takes, Joined
  <2>3. available' = available
    BY <1>11 DEF Joined, Takes
  <2> QED BY <2>1, <2>2, <2>3, LivingAndBuilders, FS_AddElement, FS_RemoveElement DEF PermitsAccounted, Living, Builders
<1>12. ASSUME NEW k \in Children, Report(k)
       PROVE  PermitsAccounted'
  <2>1. Living' = Living
    BY <1>12 DEF Living, Alive, Takes, Report
  <2>2. Builders' = Builders
    BY <1>12 DEF Builders, Takes, Report
  <2>3. available' = available
    BY <1>12 DEF Report, Takes
  <2> QED BY <2>1, <2>2, <2>3, LivingAndBuilders, FS_AddElement, FS_RemoveElement DEF PermitsAccounted, Living, Builders
<1>13. ASSUME NEW k \in Children, TaskEnds(k)
       PROVE  PermitsAccounted'
  <2>1. Living' = Living \ {k}
    BY <1>13 DEF Living, Alive, TaskEnds
  <2>2. Builders' = Builders
    BY <1>13 DEF Builders, TaskEnds
  <2>3. available' = available + 1
    BY <1>13 DEF TaskEnds
  <2>4. k \in Living
    BY <1>13 DEF Living, Builders, Alive, NextId, TaskEnds
  <2>5. Cardinality(Living') = Cardinality(Living) - 1
    BY <2>1, <2>4, LivingAndBuilders, FS_AddElement, FS_RemoveElement
  <2>6. Cardinality(Builders') = Cardinality(Builders)
    BY <2>2, <2>4, LivingAndBuilders, FS_AddElement, FS_RemoveElement
  <2>7. available + Cardinality(Living) + Cardinality(Builders) = max_active_agents
    BY DEF PermitsAccounted, Living, Builders
  <2>8. available' + Cardinality(Living') + Cardinality(Builders') = max_active_agents
    BY <2>3, <2>5, <2>6, <2>7, LivingAndBuilders
  <2> QED BY <2>8 DEF PermitsAccounted, Living, Builders
<1>14. ASSUME NEW k \in Children, TaskDies(k)
       PROVE  PermitsAccounted'
  <2>1. Living' = Living \ {k}
    BY <1>14 DEF Living, Alive, TaskDies
  <2>2. Builders' = Builders
    BY <1>14 DEF Builders, TaskDies
  <2>3. available' = available + 1
    BY <1>14 DEF TaskDies
  <2>4. k \in Living
    BY <1>14 DEF Living, Builders, Alive, NextId, TaskDies
  <2>5. Cardinality(Living') = Cardinality(Living) - 1
    BY <2>1, <2>4, LivingAndBuilders, FS_AddElement, FS_RemoveElement
  <2>6. Cardinality(Builders') = Cardinality(Builders)
    BY <2>2, <2>4, LivingAndBuilders, FS_AddElement, FS_RemoveElement
  <2>7. available + Cardinality(Living) + Cardinality(Builders) = max_active_agents
    BY DEF PermitsAccounted, Living, Builders
  <2>8. available' + Cardinality(Living') + Cardinality(Builders') = max_active_agents
    BY <2>3, <2>5, <2>6, <2>7, LivingAndBuilders
  <2> QED BY <2>8 DEF PermitsAccounted, Living, Builders
<1>15. ASSUME NEW a \in Agents, Deliver(a)
       PROVE  PermitsAccounted'
  <2>1. Living' = Living
    BY <1>15 DEF Living, Alive, Takes, Deliver
  <2>2. Builders' = Builders
    BY <1>15 DEF Builders, Takes, Deliver
  <2>3. available' = available
    BY <1>15 DEF Deliver, Takes
  <2> QED BY <2>1, <2>2, <2>3, LivingAndBuilders, FS_AddElement, FS_RemoveElement DEF PermitsAccounted, Living, Builders
<1>16. ASSUME cancel_session
       PROVE  PermitsAccounted'
  <2>1. Living' = Living
    BY <1>16 DEF Living, Alive, Takes, cancel_session
  <2>2. Builders' = Builders
    BY <1>16 DEF Builders, Takes, cancel_session
  <2>3. available' = available
    BY <1>16 DEF cancel_session, Takes
  <2> QED BY <2>1, <2>2, <2>3, LivingAndBuilders, FS_AddElement, FS_RemoveElement DEF PermitsAccounted, Living, Builders
<1>17. CASE UNCHANGED vars
  BY <1>17 DEF PermitsAccounted, Alive, vars
<1> QED BY <1>1, <1>2, <1>3, <1>4, <1>5, <1>6, <1>7, <1>8, <1>9, <1>10, <1>11, <1>12, <1>13, <1>14, <1>15, <1>16, <1>17
    DEF Next, TaskStep, Step, Epilogue

MailboxOK ==
    /\ mailbox \in [Agents -> Seq(Children \cup {Other})]
    /\ \A b \in Agents : Len(mailbox[b]) <= command_capacity

LEMMA TakesType ==
    ASSUME TypeOK, NEW a \in Agents, NEW command, Takes(a, command)
    PROVE  MailboxOK'
<1>1. mailbox \in [Agents -> Seq(Children \cup {Other})] /\ \A b \in Agents : Len(mailbox[b]) <= command_capacity
  BY DEF TypeOK
<1>2. mailbox[a] # <<>> /\ mailbox' = [mailbox EXCEPT ![a] = Tail(mailbox[a])]
  BY DEF Takes
<1>3. Tail(mailbox[a]) \in Seq(Children \cup {Other}) /\ Len(Tail(mailbox[a])) <= command_capacity
  BY <1>1, <1>2, ConfigAssumption
<1> QED BY <1>1, <1>2, <1>3 DEF MailboxOK

LEMMA SendType ==
    ASSUME TypeOK, NEW a \in Agents, NEW e \in Children \cup {Other}, ~Full(a),
           mailbox' = [mailbox EXCEPT ![a] = Append(@, e)]
    PROVE  MailboxOK'
<1>1. mailbox \in [Agents -> Seq(Children \cup {Other})] /\ \A b \in Agents : Len(mailbox[b]) <= command_capacity
  BY DEF TypeOK
<1>2. Append(mailbox[a], e) \in Seq(Children \cup {Other}) /\ Len(Append(mailbox[a], e)) <= command_capacity
  BY <1>1, ConfigAssumption DEF Full
<1> QED BY <1>1, <1>2 DEF MailboxOK

LEMMA SetType ==
    ASSUME TypeOK, NEW a \in Agents, NEW q, q = <<>> \/ q = <<Other>>,
           mailbox' = [mailbox EXCEPT ![a] = q]
    PROVE  MailboxOK'
<1>1. mailbox \in [Agents -> Seq(Children \cup {Other})] /\ \A b \in Agents : Len(mailbox[b]) <= command_capacity
  BY DEF TypeOK
<1>2. q \in Seq(Children \cup {Other}) /\ Len(q) <= command_capacity
  <2>1. CASE q = <<>>
    BY <2>1, ConfigAssumption
  <2>2. CASE q = <<Other>>
    BY <2>2, ConfigAssumption
  <2> QED BY <2>1, <2>2
<1> QED BY <1>1, <1>2 DEF MailboxOK

(***************************************************************************)
(* Every step keeps the types.                                             *)
(***************************************************************************)
LEMMA TypeStep ==
    ASSUME TypeOK, PermitsAccounted, TreeInv, SpawnInv, [Next]_vars, PermitsAccounted'
    PROVE  TypeOK'
<1>loop. loop \in [Agents -> Loops]
  BY DEF TypeOK
<1>agent. agent \in [Agents -> [parent : Agents, depth : 0..MaxAgents, mode : Modes \cup {"None"},
                      budget : Budgets \cup {RootBudget}]]
  BY DEF TypeOK
<1>spec. spec \in [Agents -> [child : Agents, mode : Modes \cup {"None"},
                     budget : Budgets \cup {RootBudget}]]
  BY DEF TypeOK
<1>lineage. lineage \in [Agents -> SUBSET (Agents \cup {Session})]
  BY DEF TypeOK
<1>available. available \in 0..max_active_agents
  BY DEF TypeOK
<1>agents. agents \subseteq Children
  BY DEF TypeOK
<1>children_of. children_of \in [Agents -> SUBSET Children]
  BY DEF TypeOK
<1>agent_tokens. agent_tokens \subseteq Agents
  BY DEF TypeOK
<1>state_children. state_children \in [Agents -> SUBSET Children]
  BY DEF TypeOK
<1>cancelled. cancelled \subseteq Agents \cup {Session}
  BY DEF TypeOK
<1>reports. reports \in [Agents -> Nat]
  BY DEF TypeOK
<1>inputs. inputs \in 0..MaxInputs
  BY DEF TypeOK
<1>budgets. RootBudget \in Budgets \cup {RootBudget} /\ Modes \subseteq Modes \cup {"None"}
  OBVIOUS
<1>permits. available' \in Nat => available' \in 0..max_active_agents
  <2>1. Living' \subseteq Children /\ Builders' \subseteq Agents
    BY DEF Living, Builders
  <2>2. IsFiniteSet(Living') /\ IsFiniteSet(Builders')
    BY <2>1, Ids, FS_Subset
  <2>3. Cardinality(Living') \in Nat /\ Cardinality(Builders') \in Nat
    BY <2>2, FS_CardinalityType
  <2>4. available' + Cardinality(Living') + Cardinality(Builders') = max_active_agents
    BY DEF PermitsAccounted, Living, Builders
  <2> QED BY <2>3, <2>4, ConfigAssumption
<1> USE Ids
<1>1. ASSUME NEW a \in Agents, Carry_on(a)
       PROVE  TypeOK'
  <2>1. MailboxOK'
    BY <1>1, TakesType DEF Carry_on
  <2>2. UNCHANGED <<loop, agent, spec, lineage, available, agents, children_of, agent_tokens, state_children, cancelled, reports, inputs>>
    BY <1>1 DEF Carry_on, supervisor
  <2> QED BY <2>1, <2>2 DEF TypeOK, MailboxOK
<1>2. ASSUME NEW a \in Agents, FinishRun(a)
       PROVE  TypeOK'
  <2>1. loop' \in [Agents -> Loops]
    BY <1>2, <1>loop DEF FinishRun, Loops
  <2>2. MailboxOK'
    BY <1>2, TakesType DEF FinishRun
  <2>3. UNCHANGED <<agent, spec, lineage, available, agents, children_of, agent_tokens, state_children, cancelled, reports, inputs>>
    BY <1>2 DEF FinishRun, supervisor
  <2> QED BY <2>1, <2>2, <2>3 DEF TypeOK, MailboxOK
<1>3. ASSUME NEW a \in Agents, Cancel(a)
       PROVE  TypeOK'
  <2>1. state_children' \in [Agents -> SUBSET Children]
    BY <1>3, <1>state_children DEF Cancel, cancel_children
  <2>2. cancelled' \subseteq Agents \cup {Session}
    BY <1>3, <1>cancelled, <1>agents DEF Cancel, cancel_children
  <2>3. MailboxOK'
    BY <1>3, TakesType DEF Cancel
  <2>4. UNCHANGED <<loop, agent, spec, lineage, available, agents, children_of, agent_tokens, reports, inputs>>
    BY <1>3 DEF Cancel, supervisor
  <2> QED BY <2>1, <2>2, <2>3, <2>4 DEF TypeOK, MailboxOK
<1>4. ASSUME NEW a \in Agents, CancelledLoop(a)
       PROVE  TypeOK'
  <2>1. loop' \in [Agents -> Loops]
    BY <1>4, <1>loop DEF CancelledLoop, Loops
  <2>2. state_children' \in [Agents -> SUBSET Children]
    BY <1>4, <1>state_children DEF CancelledLoop, cancel_children
  <2>3. cancelled' \subseteq Agents \cup {Session}
    BY <1>4, <1>cancelled, <1>agents DEF CancelledLoop, cancel_children
  <2>4. UNCHANGED <<agent, spec, lineage, available, agents, children_of, agent_tokens, mailbox, reports, inputs>>
    BY <1>4 DEF CancelledLoop, supervisor
  <2> QED BY <2>1, <2>2, <2>3, <2>4 DEF TypeOK, MailboxOK
<1>5. ASSUME NEW a \in Agents, NEW m \in Modes, NEW g \in Budgets, Spawn(a, m, g)
       PROVE  TypeOK'
  <2>1. loop' \in [Agents -> Loops]
    BY <1>5, <1>loop DEF Spawn, Loops
  <2>2. spec' \in [Agents -> [child : Agents, mode : Modes \cup {"None"},
                               budget : Budgets \cup {RootBudget}]]
    BY <1>5, <1>spec, <1>budgets DEF Spawn, NoSpec, Root
  <2>3. MailboxOK'
    BY <1>5, TakesType DEF Spawn
  <2>4. UNCHANGED <<agent, lineage, available, agents, children_of, agent_tokens, state_children, cancelled, reports, inputs>>
    BY <1>5 DEF Spawn, supervisor
  <2> QED BY <2>1, <2>2, <2>3, <2>4 DEF TypeOK, MailboxOK
<1>6. ASSUME NEW a \in Agents, acquire_agent_permit(a)
       PROVE  TypeOK'
  <2>1. loop' \in [Agents -> Loops]
    BY <1>6, <1>loop DEF acquire_agent_permit, Loops
  <2>2. available' \in 0..max_active_agents
    BY <1>6, <1>available, <1>permits DEF acquire_agent_permit, slot_free, permit_dropped
  <2>3. UNCHANGED <<agent, spec, lineage, agents, children_of, agent_tokens, state_children, cancelled, mailbox, reports, inputs>>
    BY <1>6 DEF acquire_agent_permit, supervisor
  <2> QED BY <2>1, <2>2, <2>3 DEF TypeOK, MailboxOK
<1>7. ASSUME NEW a \in Agents, SpawnFails(a)
       PROVE  TypeOK'
  <2>1. loop' \in [Agents -> Loops]
    BY <1>7, <1>loop DEF SpawnFails, Loops
  <2>2. spec' \in [Agents -> [child : Agents, mode : Modes \cup {"None"},
                               budget : Budgets \cup {RootBudget}]]
    BY <1>7, <1>spec, <1>budgets DEF SpawnFails, NoSpec, Root
  <2>3. available' \in 0..max_active_agents
    BY <1>7, <1>available, <1>permits DEF SpawnFails, slot_free, permit_dropped
  <2>4. UNCHANGED <<agent, lineage, agents, children_of, agent_tokens, state_children, cancelled, mailbox, reports, inputs>>
    BY <1>7 DEF SpawnFails, supervisor
  <2> QED BY <2>1, <2>2, <2>3, <2>4 DEF TypeOK, MailboxOK
<1>8. ASSUME NEW a \in Agents, NEW k \in Children, spawn_child(a, k)
       PROVE  TypeOK'
  <2>1. loop' \in [Agents -> Loops]
    BY <1>8, <1>loop DEF spawn_child, Loops
  <2>2. agent' \in [Agents -> [parent : Agents, depth : 0..MaxAgents, mode : Modes \cup {"None"},
                                budget : Budgets \cup {RootBudget}]]
    <3>1. agent[a].depth + 1 \in 0..MaxAgents
      <4>1. agent[a].depth \in Nat /\ agent[a].depth <= a /\ a < k /\ a \in Int
        BY <1>8, <1>agent, SpawnChildTree DEF TreeInv
      <4>2. k \in Int /\ k <= MaxAgents
        BY BoundsAssumption DEF Children
      <4> QED BY <4>1, <4>2, BoundsAssumption
    <3>2. spec[a].budget \in Budgets \cup {RootBudget} /\ spec[a].mode \in Modes \cup {"None"}
      BY <1>spec
    <3> QED BY <1>8, <1>agent, <3>1, <3>2 DEF spawn_child
  <2>3. spec' \in [Agents -> [child : Agents, mode : Modes \cup {"None"},
                               budget : Budgets \cup {RootBudget}]]
    BY <1>8, <1>spec, <1>budgets DEF spawn_child, NoSpec, Root
  <2>4. lineage' \in [Agents -> SUBSET (Agents \cup {Session})]
    BY <1>8, <1>lineage DEF spawn_child, child_cancellation
  <2>5. agents' \subseteq Children
    BY <1>8, <1>agents DEF spawn_child, deregister, supervisor
  <2>6. children_of' \in [Agents -> SUBSET Children]
    BY <1>8, <1>children_of DEF spawn_child, deregister, supervisor
  <2>7. agent_tokens' \subseteq Agents
    BY <1>8, <1>agent_tokens DEF spawn_child, deregister, supervisor
  <2>8. state_children' \in [Agents -> SUBSET Children]
    BY <1>8, <1>state_children DEF spawn_child, cancel_children
  <2>9. MailboxOK'
    BY <1>8, SetType DEF spawn_child
  <2>10. UNCHANGED <<available, cancelled, reports, inputs>>
    BY <1>8 DEF spawn_child, supervisor
  <2> QED BY <2>1, <2>2, <2>3, <2>4, <2>5, <2>6, <2>7, <2>8, <2>9, <2>10 DEF TypeOK, MailboxOK
<1>9. ASSUME NEW a \in Agents, NEW k \in Children, ChildReported(a, k)
       PROVE  TypeOK'
  <2>1. state_children' \in [Agents -> SUBSET Children]
    BY <1>9, <1>state_children DEF ChildReported, cancel_children
  <2>2. MailboxOK'
    BY <1>9, TakesType DEF ChildReported
  <2>3. reports' \in [Agents -> Nat]
    BY <1>9, <1>reports, <1>spec DEF ChildReported, await_result
  <2>4. UNCHANGED <<loop, agent, spec, lineage, available, agents, children_of, agent_tokens, cancelled, inputs>>
    BY <1>9 DEF ChildReported, supervisor
  <2> QED BY <2>1, <2>2, <2>3, <2>4 DEF TypeOK, MailboxOK
<1>10. ASSUME NEW a \in Agents, await_child(a)
       PROVE  TypeOK'
  <2>1. loop' \in [Agents -> Loops]
    BY <1>10, <1>loop DEF await_child, Loops
  <2>2. agents' \subseteq Children
    BY <1>10, <1>agents DEF await_child, deregister, supervisor
  <2>3. children_of' \in [Agents -> SUBSET Children]
    BY <1>10, <1>children_of DEF await_child, deregister, supervisor
  <2>4. UNCHANGED <<agent, spec, lineage, available, agent_tokens, state_children, cancelled, mailbox, reports, inputs>>
    BY <1>10 DEF await_child, supervisor
  <2> QED BY <2>1, <2>2, <2>3, <2>4 DEF TypeOK, MailboxOK
<1>11. ASSUME NEW a \in Agents, Joined(a)
       PROVE  TypeOK'
  <2>1. loop' \in [Agents -> Loops]
    BY <1>11, <1>loop DEF Joined, Loops
  <2>2. spec' \in [Agents -> [child : Agents, mode : Modes \cup {"None"},
                               budget : Budgets \cup {RootBudget}]]
    BY <1>11, <1>spec, <1>budgets DEF Joined, NoSpec, Root
  <2>3. agent_tokens' \subseteq Agents
    BY <1>11, <1>agent_tokens DEF Joined, deregister, supervisor
  <2>4. state_children' \in [Agents -> SUBSET Children]
    BY <1>11, <1>state_children DEF Joined, cancel_children
  <2>5. reports' \in [Agents -> Nat]
    BY <1>11, <1>reports, <1>spec DEF Joined, await_result
  <2>6. UNCHANGED <<agent, lineage, available, agents, children_of, cancelled, mailbox, inputs>>
    BY <1>11 DEF Joined, supervisor
  <2> QED BY <2>1, <2>2, <2>3, <2>4, <2>5, <2>6 DEF TypeOK, MailboxOK
<1>12. ASSUME NEW k \in Children, Report(k)
       PROVE  TypeOK'
  <2>1. loop' \in [Agents -> Loops]
    BY <1>12, <1>loop DEF Report, Loops
  <2>2. MailboxOK'
    <3>1. CASE UNCHANGED mailbox
      BY <3>1 DEF TypeOK, MailboxOK
    <3>2. CASE UNCHANGED mailbox => FALSE
      <4> DEFINE a == agent[k].parent
      <4>1. a \in Agents
        BY <1>agent
      <4>2. ~Full(a) /\ mailbox' = [mailbox EXCEPT ![a] = Append(@, k)]
        BY <1>12, <3>2 DEF Report
      <4> HIDE DEF a
      <4> QED BY <4>1, <4>2, SendType
    <3> QED BY <3>1, <3>2
  <2>3. UNCHANGED <<agent, spec, lineage, available, agents, children_of, agent_tokens, state_children, cancelled, reports, inputs>>
    BY <1>12 DEF Report, supervisor
  <2> QED BY <2>1, <2>2, <2>3 DEF TypeOK, MailboxOK
<1>13. ASSUME NEW k \in Children, TaskEnds(k)
       PROVE  TypeOK'
  <2>1. loop' \in [Agents -> Loops]
    BY <1>13, <1>loop DEF TaskEnds, Loops
  <2>2. available' \in 0..max_active_agents
    BY <1>13, <1>available, <1>permits DEF TaskEnds, slot_free, permit_dropped
  <2>3. agents' \subseteq Children
    BY <1>13, <1>agents DEF TaskEnds, deregister, supervisor
  <2>4. children_of' \in [Agents -> SUBSET Children]
    BY <1>13, <1>children_of DEF TaskEnds, deregister, supervisor
  <2>5. agent_tokens' \subseteq Agents
    BY <1>13, <1>agent_tokens DEF TaskEnds, deregister, supervisor
  <2>6. MailboxOK'
    BY <1>13, SetType DEF TaskEnds
  <2>7. UNCHANGED <<agent, spec, lineage, state_children, cancelled, reports, inputs>>
    BY <1>13 DEF TaskEnds, supervisor
  <2> QED BY <2>1, <2>2, <2>3, <2>4, <2>5, <2>6, <2>7 DEF TypeOK, MailboxOK
<1>14. ASSUME NEW k \in Children, TaskDies(k)
       PROVE  TypeOK'
  <2>1. loop' \in [Agents -> Loops]
    BY <1>14, <1>loop DEF TaskDies, Loops
  <2>2. available' \in 0..max_active_agents
    BY <1>14, <1>available, <1>permits DEF TaskDies, slot_free, permit_dropped
  <2>3. MailboxOK'
    BY <1>14, SetType DEF TaskDies
  <2>4. UNCHANGED <<agent, spec, lineage, agents, children_of, agent_tokens, state_children, cancelled, reports, inputs>>
    BY <1>14 DEF TaskDies, supervisor
  <2> QED BY <2>1, <2>2, <2>3, <2>4 DEF TypeOK, MailboxOK
<1>15. ASSUME NEW a \in Agents, Deliver(a)
       PROVE  TypeOK'
  <2>1. MailboxOK'
    BY <1>15, SendType DEF Deliver
  <2>2. inputs' \in 0..MaxInputs
    BY <1>15, <1>inputs, BoundsAssumption DEF Deliver
  <2>3. UNCHANGED <<loop, agent, spec, lineage, available, agents, children_of, agent_tokens, state_children, cancelled, reports>>
    BY <1>15 DEF Deliver, supervisor
  <2> QED BY <2>1, <2>2, <2>3 DEF TypeOK, MailboxOK
<1>16. ASSUME cancel_session
       PROVE  TypeOK'
  <2>1. cancelled' \subseteq Agents \cup {Session}
    BY <1>16, <1>cancelled, <1>agents DEF cancel_session, cancel_children
  <2>2. UNCHANGED <<loop, agent, spec, lineage, available, agents, children_of, agent_tokens, state_children, mailbox, reports, inputs>>
    BY <1>16 DEF cancel_session, supervisor
  <2> QED BY <2>1, <2>2 DEF TypeOK, MailboxOK
<1>17. CASE UNCHANGED vars
  BY <1>17 DEF TypeOK, vars, supervisor
<1> QED BY <1>1, <1>2, <1>3, <1>4, <1>5, <1>6, <1>7, <1>8, <1>9, <1>10, <1>11, <1>12, <1>13, <1>14, <1>15, <1>16, <1>17
    DEF Next, TaskStep, Step, Epilogue

-----------------------------------------------------------------------------
(***************************************************************************)
(* Counting the ends that wait in a mailbox.                               *)
(***************************************************************************)
Count(q, k) == Cardinality({i \in DOMAIN q : q[i] = k})

LEMMA CountType ==
    ASSUME NEW T, NEW q \in Seq(T), NEW k
    PROVE  /\ IsFiniteSet({i \in DOMAIN q : q[i] = k}) /\ Count(q, k) \in Nat
           /\ Count(q, k) = 0 <=> \A i \in DOMAIN q : q[i] # k
<1> DEFINE S == {i \in DOMAIN q : q[i] = k}
<1>1. DOMAIN q = 1..Len(q) /\ Len(q) \in Nat
  OBVIOUS
<1>2. IsFiniteSet(1..Len(q))
  BY <1>1, FS_Interval
<1>3. S \in SUBSET (1..Len(q))
  BY <1>1
<1>4. IsFiniteSet(S)
  BY <1>2, <1>3, FS_Subset
<1>5. Cardinality(S) \in Nat /\ (Cardinality(S) = 0 <=> S = {})
  BY <1>4, FS_CardinalityType, FS_EmptySet
<1> QED BY <1>4, <1>5 DEF Count

LEMMA CountAppend ==
    ASSUME NEW T, NEW q \in Seq(T), NEW e \in T, NEW k
    PROVE  Count(Append(q, e), k) = Count(q, k) + IF e = k THEN 1 ELSE 0
<1> DEFINE S == {i \in DOMAIN q : q[i] = k}
           A == {i \in DOMAIN Append(q, e) : Append(q, e)[i] = k}
<1>1. A = IF e = k THEN S \cup {Len(q) + 1} ELSE S
  OBVIOUS
<1>2. IsFiniteSet(S) /\ Cardinality(S) \in Nat
  BY CountType DEF Count
<1>3. Len(q) + 1 \notin S
  OBVIOUS
<1>4. Cardinality(S \cup {Len(q) + 1}) = Cardinality(S) + 1
  BY <1>2, <1>3, FS_AddElement
<1>5. Count(q, k) = Cardinality(S) /\ Count(Append(q, e), k) = Cardinality(A)
  BY DEF Count
<1> HIDE DEF S, A
<1> QED BY <1>1, <1>2, <1>4, <1>5

LEMMA CountTail ==
    ASSUME NEW T, NEW q \in Seq(T), q # <<>>, NEW k
    PROVE  Count(q, k) = Count(Tail(q), k) + IF Head(q) = k THEN 1 ELSE 0
<1> DEFINE S == {i \in DOMAIN q : q[i] = k}
           R == {i \in DOMAIN q : i > 1 /\ q[i] = k}
           U == {i \in DOMAIN Tail(q) : Tail(q)[i] = k}
           f == [i \in U |-> i + 1]
<1>1. Tail(q) \in Seq(T) /\ Len(Tail(q)) = Len(q) - 1 /\ Len(q) \in Nat \ {0}
      /\ \A i \in 1..Len(Tail(q)) : Tail(q)[i] = q[i + 1]
  OBVIOUS
<1>2. IsFiniteSet(U) /\ Cardinality(U) \in Nat
  BY <1>1, CountType, ZenonT(60) DEF Count
<1>3. f \in Bijection(U, R)
  <2>1. f \in [U -> R]
    BY <1>1
  <2>2. \A i, j \in U : f[i] = f[j] => i = j
    BY <1>1
  <2>3. \A r \in R : \E i \in U : f[i] = r
    <3> TAKE r \in R
    <3>1. r - 1 \in U
      BY <1>1
    <3>2. f[r - 1] = r
      BY <3>1, <1>1
    <3> QED BY <3>1, <3>2
  <2> QED BY <2>1, <2>2, <2>3 DEF Bijection, Injection, Surjection, IsInjective
<1>4. IsFiniteSet(R) /\ Cardinality(R) = Cardinality(U)
  <2>1. ExistsBijection(U, R)
    BY <1>3 DEF ExistsBijection
  <2> HIDE DEF U, R
  <2> QED BY <2>1, <1>2, FS_Bijection
<1>5. S = IF Head(q) = k THEN R \cup {1} ELSE R
  BY <1>1
<1>6. 1 \notin R
  OBVIOUS
<1>7. Cardinality(R \cup {1}) = Cardinality(R) + 1
  BY <1>4, <1>6, FS_AddElement
<1>8. Count(q, k) = Cardinality(S) /\ Count(Tail(q), k) = Cardinality(U)
  BY DEF Count
<1> HIDE DEF R, S, U
<1> QED BY <1>2, <1>4, <1>5, <1>7, <1>8

LEMMA CountShort ==
    \A k \in Children : Count(<<>>, k) = 0 /\ Count(<<Other>>, k) = 0
<1> TAKE k \in Children
<1>1. {i \in DOMAIN <<>> : <<>>[i] = k} = {}
  OBVIOUS
<1>2. {i \in DOMAIN <<Other>> : <<Other>>[i] = k} = {}
  BY NamesAssumption
<1> QED BY <1>1, <1>2, FS_EmptySet DEF Count

LEMMA WaitingCounts ==
    ASSUME TypeOK
    PROVE  \A k \in Children : /\ Waiting(k) = Count(mailbox[agent[k].parent], k)
                               /\ Waiting(k) \in Nat /\ reports[k] \in Nat
                               /\ agent[k].parent \in Agents
<1> TAKE k \in Children
<1>1. agent[k].parent \in Agents /\ mailbox \in [Agents -> Seq(Children \cup {Other})] /\ reports[k] \in Nat
  BY Ids DEF TypeOK
<1>2. mailbox[agent[k].parent] \in Seq(Children \cup {Other})
  BY <1>1
<1>3. Waiting(k) = Count(mailbox[agent[k].parent], k)
  BY DEF Waiting, Count
<1> QED BY <1>1, <1>2, <1>3, CountType

(***************************************************************************)
(* Taking a command that is not a child's end, and delivering one, leave   *)
(* every count as it was.                                                  *)
(***************************************************************************)
LEMMA TakesCounts ==
    ASSUME TypeOK, NEW a \in Agents, NEW command, Takes(a, command)
    PROVE  /\ \A b \in Agents, k \in Children :
                Count(mailbox[b], k) = Count(mailbox'[b], k) + IF b = a /\ command = k THEN 1 ELSE 0
           /\ \A b \in Agents : \A i \in DOMAIN mailbox'[b] : \E j \in DOMAIN mailbox[b] : mailbox'[b][i] = mailbox[b][j]
           /\ \E j \in DOMAIN mailbox[a] : mailbox[a][j] = command
<1>1. mailbox \in [Agents -> Seq(Children \cup {Other})]
  BY DEF TypeOK
<1>2. mailbox[a] # <<>> /\ Head(mailbox[a]) = command /\ mailbox' = [mailbox EXCEPT ![a] = Tail(mailbox[a])]
  BY DEF Takes
<1>3. mailbox[a] \in Seq(Children \cup {Other}) /\ mailbox'[a] = Tail(mailbox[a]) /\ \A b \in Agents : b # a => mailbox'[b] = mailbox[b]
  BY <1>1, <1>2
<1>4. \A k \in Children : Count(mailbox[a], k) = Count(mailbox'[a], k) + IF command = k THEN 1 ELSE 0
  BY <1>2, <1>3, CountTail
<1>5. ASSUME NEW b \in Agents, NEW k \in Children
      PROVE  Count(mailbox[b], k) = Count(mailbox'[b], k) + IF b = a /\ command = k THEN 1 ELSE 0
  <2>1. CASE b = a
    BY <2>1, <1>4
  <2>2. CASE b # a
    <3>1. Count(mailbox[b], k) \in Nat
      BY <1>1, CountType
    <3> QED BY <2>2, <3>1, <1>3
  <2> QED BY <2>1, <2>2
<1>6. \A i \in DOMAIN Tail(mailbox[a]) : i + 1 \in DOMAIN mailbox[a] /\ Tail(mailbox[a])[i] = mailbox[a][i + 1]
  BY <1>2, <1>3
<1>7. 1 \in DOMAIN mailbox[a] /\ mailbox[a][1] = command
  BY <1>2, <1>3
<1>8. ASSUME NEW b \in Agents, NEW i \in DOMAIN mailbox'[b]
      PROVE  \E j \in DOMAIN mailbox[b] : mailbox'[b][i] = mailbox[b][j]
  <2>1. CASE b = a
    BY <2>1, <1>3, <1>6
  <2>2. CASE b # a
    BY <2>2, <1>3
  <2> QED BY <2>1, <2>2
<1> QED BY <1>5, <1>7, <1>8

LEMMA SendCounts ==
    ASSUME TypeOK, NEW a \in Agents, NEW e \in Children \cup {Other},
           mailbox' = [mailbox EXCEPT ![a] = Append(@, e)]
    PROVE  /\ \A b \in Agents, k \in Children :
                Count(mailbox'[b], k) = Count(mailbox[b], k) + IF b = a /\ e = k THEN 1 ELSE 0
           /\ \A b \in Agents : \A i \in DOMAIN mailbox'[b] :
                \/ b = a /\ mailbox'[b][i] = e
                \/ \E j \in DOMAIN mailbox[b] : mailbox'[b][i] = mailbox[b][j]
<1>1. mailbox \in [Agents -> Seq(Children \cup {Other})]
  BY DEF TypeOK
<1>3. mailbox[a] \in Seq(Children \cup {Other}) /\ mailbox'[a] = Append(mailbox[a], e) /\ \A b \in Agents : b # a => mailbox'[b] = mailbox[b]
  BY <1>1
<1>4. \A k \in Children : Count(mailbox'[a], k) = Count(mailbox[a], k) + IF e = k THEN 1 ELSE 0
  BY <1>3, CountAppend
<1>5. ASSUME NEW b \in Agents, NEW k \in Children
      PROVE  Count(mailbox'[b], k) = Count(mailbox[b], k) + IF b = a /\ e = k THEN 1 ELSE 0
  <2>1. CASE b = a
    BY <2>1, <1>4
  <2>2. CASE b # a
    <3>1. Count(mailbox[b], k) \in Nat
      BY <1>1, CountType
    <3> QED BY <2>2, <3>1, <1>3
  <2> QED BY <2>1, <2>2
<1>6. \A i \in DOMAIN Append(mailbox[a], e) : \/ Append(mailbox[a], e)[i] = e
                                              \/ i \in DOMAIN mailbox[a] /\ Append(mailbox[a], e)[i] = mailbox[a][i]
  BY <1>3
<1>8. ASSUME NEW b \in Agents, NEW i \in DOMAIN mailbox'[b]
      PROVE  \/ b = a /\ mailbox'[b][i] = e
             \/ \E j \in DOMAIN mailbox[b] : mailbox'[b][i] = mailbox[b][j]
  <2>1. CASE b = a
    BY <2>1, <1>3, <1>6
  <2>2. CASE b # a
    BY <2>2, <1>3
  <2> QED BY <2>1, <2>2
<1> QED BY <1>5, <1>8

LEMMA SetCounts ==
    ASSUME TypeOK, NEW a \in Agents, NEW q, q = <<>> \/ q = <<Other>>,
           mailbox' = [mailbox EXCEPT ![a] = q]
    PROVE  /\ \A b \in Agents, k \in Children :
                Count(mailbox'[b], k) = IF b = a THEN 0 ELSE Count(mailbox[b], k)
           /\ \A b \in Agents : \A i \in DOMAIN mailbox'[b] :
                \/ mailbox'[b][i] \notin Children
                \/ \E j \in DOMAIN mailbox[b] : mailbox'[b][i] = mailbox[b][j]
<1>1. mailbox \in [Agents -> Seq(Children \cup {Other})]
  BY DEF TypeOK
<1>2. mailbox'[a] = q /\ \A b \in Agents : b # a => mailbox'[b] = mailbox[b]
  BY <1>1
<1>3. \A k \in Children : Count(q, k) = 0
  BY CountShort
<1>4. \A i \in DOMAIN q : q[i] \notin Children
  <2>1. CASE q = <<>>
    BY <2>1
  <2>2. CASE q = <<Other>>
    BY <2>2, NamesAssumption
  <2> QED BY <2>1, <2>2
<1> QED BY <1>2, <1>3, <1>4

(***************************************************************************)
(* The counts after each action that adds to a mailbox or empties one.     *)
(***************************************************************************)
LEMMA DeliverCounts ==
    ASSUME TypeOK, NEW a \in Agents, Deliver(a)
    PROVE  \A b \in Agents, j \in Children : Count(mailbox'[b], j) = Count(mailbox[b], j)
<1>1. mailbox' = [mailbox EXCEPT ![a] = Append(@, Other)] /\ Other \in Children \cup {Other}
  BY DEF Deliver
<1>2. \A b \in Agents, j \in Children :
        Count(mailbox'[b], j) = Count(mailbox[b], j) + IF b = a /\ Other = j THEN 1 ELSE 0
  BY <1>1, SendCounts
<1>3. \A b \in Agents, j \in Children : Count(mailbox[b], j) \in Nat /\ Other # j
  BY CountType, NamesAssumption DEF TypeOK
<1> QED BY <1>2, <1>3

LEMMA EmptiedCounts ==
    ASSUME TypeOK, NEW k \in Children, TaskEnds(k) \/ TaskDies(k)
    PROVE  \A c \in Agents, j \in Children :
             Count(mailbox'[c], j) = IF c = k THEN 0 ELSE Count(mailbox[c], j)
<1>1. mailbox' = [mailbox EXCEPT ![k] = <<>>] /\ k \in Agents
  BY Ids DEF TaskEnds, TaskDies
<1> DEFINE q == <<>>
<1>2. q = <<>> \/ q = <<Other>>
  OBVIOUS
<1>3. mailbox' = [mailbox EXCEPT ![k] = q]
  BY <1>1
<1> HIDE DEF q
<1> QED BY <1>1, <1>2, <1>3, SetCounts

LEMMA FirstCommandCounts ==
    ASSUME TypeOK, NEW a \in Agents, NEW k \in Children, spawn_child(a, k)
    PROVE  \A c \in Agents, j \in Children :
             Count(mailbox'[c], j) = IF c = k THEN 0 ELSE Count(mailbox[c], j)
<1>1. mailbox' = [mailbox EXCEPT ![k] = <<Other>>] /\ k \in Agents
  BY Ids DEF spawn_child
<1> DEFINE q == <<Other>>
<1>2. q = <<>> \/ q = <<Other>>
  OBVIOUS
<1>3. mailbox' = [mailbox EXCEPT ![k] = q]
  BY <1>1
<1> HIDE DEF q
<1> QED BY <1>1, <1>2, <1>3, SetCounts

LEMMA ReportCounts ==
    ASSUME TypeOK, NEW k \in Children, Report(k)
    PROVE  \/ \A c \in Agents, j \in Children :
                Count(mailbox'[c], j) = Count(mailbox[c], j)
                                        + IF c = agent[k].parent /\ k = j THEN 1 ELSE 0
           \/ ~Alive(agent[k].parent) /\ mailbox' = mailbox
<1> DEFINE a == agent[k].parent
<1>1. a \in Agents
  BY WaitingCounts
<1>2. \/ mailbox' = [mailbox EXCEPT ![a] = Append(@, k)]
      \/ ~Alive(a) /\ mailbox' = mailbox
  BY DEF Report, Open
<1> HIDE DEF a
<1>3. CASE mailbox' = [mailbox EXCEPT ![a] = Append(@, k)]
  <2>1. \A c \in Agents, j \in Children :
          Count(mailbox'[c], j) = Count(mailbox[c], j) + IF c = a /\ k = j THEN 1 ELSE 0
    <3>1. k \in Children \cup {Other}
      OBVIOUS
    <3> QED BY <1>1, <1>3, <3>1, SendCounts
  <2> QED BY <2>1 DEF a
<1> QED BY <1>2, <1>3 DEF a

-----------------------------------------------------------------------------
(***************************************************************************)
(* A child's end enters its parent once.                                   *)
(***************************************************************************)
(***************************************************************************)
(* A child's end is sent to its parent only.                               *)
(***************************************************************************)
LEMMA MailStep ==
    ASSUME TypeOK, TreeInv, SpawnInv, MailInv, [Next]_vars
    PROVE  MailInv'
<1> loop \in [Agents -> Loops] BY DEF TypeOK
<1> agent \in [Agents -> [parent : Agents, depth : 0..MaxAgents, mode : Modes \cup {"None"},
                          budget : Budgets \cup {RootBudget}]]
  BY DEF TypeOK
<1> USE Ids
<1>1. ASSUME NEW a \in Agents, Carry_on(a)
       PROVE  MailInv'
  <2>1. agent' = agent /\ \A b \in Agents : Born(b) => Born(b)'
    BY <1>1 DEF Born, Takes, Carry_on
  <2>2. \A b \in Agents : \A i \in DOMAIN mailbox'[b] :
          mailbox'[b][i] \in Children => \E j \in DOMAIN mailbox[b] : mailbox'[b][i] = mailbox[b][j]
    BY <1>1, TakesCounts DEF Carry_on
  <2> QED BY <2>1, <2>2 DEF MailInv, Born
<1>2. ASSUME NEW a \in Agents, FinishRun(a)
       PROVE  MailInv'
  <2>1. agent' = agent /\ \A b \in Agents : Born(b) => Born(b)'
    BY <1>2 DEF Born, Takes, FinishRun
  <2>2. \A b \in Agents : \A i \in DOMAIN mailbox'[b] :
          mailbox'[b][i] \in Children => \E j \in DOMAIN mailbox[b] : mailbox'[b][i] = mailbox[b][j]
    BY <1>2, TakesCounts DEF FinishRun
  <2> QED BY <2>1, <2>2 DEF MailInv, Born
<1>3. ASSUME NEW a \in Agents, Cancel(a)
       PROVE  MailInv'
  <2>1. agent' = agent /\ \A b \in Agents : Born(b) => Born(b)'
    BY <1>3 DEF Born, Takes, Cancel
  <2>2. \A b \in Agents : \A i \in DOMAIN mailbox'[b] :
          mailbox'[b][i] \in Children => \E j \in DOMAIN mailbox[b] : mailbox'[b][i] = mailbox[b][j]
    BY <1>3, TakesCounts DEF Cancel
  <2> QED BY <2>1, <2>2 DEF MailInv, Born
<1>4. ASSUME NEW a \in Agents, CancelledLoop(a)
       PROVE  MailInv'
  <2>1. agent' = agent /\ \A b \in Agents : Born(b) => Born(b)'
    BY <1>4 DEF Born, Takes, CancelledLoop
  <2>2. \A b \in Agents : \A i \in DOMAIN mailbox'[b] :
          mailbox'[b][i] \in Children => \E j \in DOMAIN mailbox[b] : mailbox'[b][i] = mailbox[b][j]
    BY <1>4 DEF CancelledLoop
  <2> QED BY <2>1, <2>2 DEF MailInv, Born
<1>5. ASSUME NEW a \in Agents, NEW m \in Modes, NEW g \in Budgets, Spawn(a, m, g)
       PROVE  MailInv'
  <2>1. agent' = agent /\ \A b \in Agents : Born(b) => Born(b)'
    BY <1>5 DEF Born, Takes, Spawn
  <2>2. \A b \in Agents : \A i \in DOMAIN mailbox'[b] :
          mailbox'[b][i] \in Children => \E j \in DOMAIN mailbox[b] : mailbox'[b][i] = mailbox[b][j]
    BY <1>5, TakesCounts DEF Spawn
  <2> QED BY <2>1, <2>2 DEF MailInv, Born
<1>6. ASSUME NEW a \in Agents, acquire_agent_permit(a)
       PROVE  MailInv'
  <2>1. agent' = agent /\ \A b \in Agents : Born(b) => Born(b)'
    BY <1>6 DEF Born, Takes, acquire_agent_permit
  <2>2. \A b \in Agents : \A i \in DOMAIN mailbox'[b] :
          mailbox'[b][i] \in Children => \E j \in DOMAIN mailbox[b] : mailbox'[b][i] = mailbox[b][j]
    BY <1>6 DEF acquire_agent_permit
  <2> QED BY <2>1, <2>2 DEF MailInv, Born
<1>7. ASSUME NEW a \in Agents, SpawnFails(a)
       PROVE  MailInv'
  <2>1. agent' = agent /\ \A b \in Agents : Born(b) => Born(b)'
    BY <1>7 DEF Born, Takes, SpawnFails
  <2>2. \A b \in Agents : \A i \in DOMAIN mailbox'[b] :
          mailbox'[b][i] \in Children => \E j \in DOMAIN mailbox[b] : mailbox'[b][i] = mailbox[b][j]
    BY <1>7 DEF SpawnFails
  <2> QED BY <2>1, <2>2 DEF MailInv, Born
<1>8. ASSUME NEW a \in Agents, NEW k \in Children, spawn_child(a, k)
       PROVE  MailInv'
  <2>1. \A b \in Agents : \A i \in DOMAIN mailbox'[b] :
          mailbox'[b][i] \in Children => \E j \in DOMAIN mailbox[b] : mailbox'[b][i] = mailbox[b][j]
    BY <1>8, SetCounts DEF spawn_child
  <2>2. \A j \in Children : Born(j) => Born(j)' /\ agent'[j] = agent[j]
    BY <1>8, SpawnChildTree DEF Born
  <2> QED BY <2>1, <2>2 DEF MailInv, Born
<1>9. ASSUME NEW a \in Agents, NEW k \in Children, ChildReported(a, k)
       PROVE  MailInv'
  <2>1. agent' = agent /\ \A b \in Agents : Born(b) => Born(b)'
    BY <1>9 DEF Born, Takes, ChildReported
  <2>2. \A b \in Agents : \A i \in DOMAIN mailbox'[b] :
          mailbox'[b][i] \in Children => \E j \in DOMAIN mailbox[b] : mailbox'[b][i] = mailbox[b][j]
    BY <1>9, TakesCounts DEF ChildReported
  <2> QED BY <2>1, <2>2 DEF MailInv, Born
<1>10. ASSUME NEW a \in Agents, await_child(a)
       PROVE  MailInv'
  <2>1. agent' = agent /\ \A b \in Agents : Born(b) => Born(b)'
    BY <1>10 DEF Born, Takes, await_child
  <2>2. \A b \in Agents : \A i \in DOMAIN mailbox'[b] :
          mailbox'[b][i] \in Children => \E j \in DOMAIN mailbox[b] : mailbox'[b][i] = mailbox[b][j]
    BY <1>10 DEF await_child
  <2> QED BY <2>1, <2>2 DEF MailInv, Born
<1>11. ASSUME NEW a \in Agents, Joined(a)
       PROVE  MailInv'
  <2>1. agent' = agent /\ \A b \in Agents : Born(b) => Born(b)'
    BY <1>11 DEF Born, Takes, Joined
  <2>2. \A b \in Agents : \A i \in DOMAIN mailbox'[b] :
          mailbox'[b][i] \in Children => \E j \in DOMAIN mailbox[b] : mailbox'[b][i] = mailbox[b][j]
    BY <1>11 DEF Joined
  <2> QED BY <2>1, <2>2 DEF MailInv, Born
<1>12. ASSUME NEW k \in Children, Report(k)
       PROVE  MailInv'
  <2> DEFINE a == agent[k].parent
  <2>1. agent' = agent /\ (\A b \in Agents : Born(b)' <=> Born(b)) /\ Born(k) /\ a \in Agents
    BY <1>12 DEF Born, Report
  <2>2. CASE UNCHANGED mailbox
    BY <2>1, <2>2 DEF MailInv, Born
  <2>3. CASE mailbox' = [mailbox EXCEPT ![a] = Append(@, k)]
    <3>1. \A b \in Agents : \A i \in DOMAIN mailbox'[b] :
            \/ b = a /\ mailbox'[b][i] = k
            \/ \E j \in DOMAIN mailbox[b] : mailbox'[b][i] = mailbox[b][j]
      BY <2>1, <2>3, SendCounts
    <3> QED BY <2>1, <3>1 DEF MailInv, Born
  <2> QED BY <1>12, <2>2, <2>3 DEF Report
<1>13. ASSUME NEW k \in Children, TaskEnds(k)
       PROVE  MailInv'
  <2>1. agent' = agent /\ \A b \in Agents : Born(b) => Born(b)'
    BY <1>13 DEF Born, Takes, TaskEnds
  <2>2. \A b \in Agents : \A i \in DOMAIN mailbox'[b] :
          mailbox'[b][i] \in Children => \E j \in DOMAIN mailbox[b] : mailbox'[b][i] = mailbox[b][j]
    BY <1>13, SetCounts DEF TaskEnds
  <2> QED BY <2>1, <2>2 DEF MailInv, Born
<1>14. ASSUME NEW k \in Children, TaskDies(k)
       PROVE  MailInv'
  <2>1. agent' = agent /\ \A b \in Agents : Born(b) => Born(b)'
    BY <1>14 DEF Born, Takes, TaskDies
  <2>2. \A b \in Agents : \A i \in DOMAIN mailbox'[b] :
          mailbox'[b][i] \in Children => \E j \in DOMAIN mailbox[b] : mailbox'[b][i] = mailbox[b][j]
    BY <1>14, SetCounts DEF TaskDies
  <2> QED BY <2>1, <2>2 DEF MailInv, Born
<1>15. ASSUME NEW a \in Agents, Deliver(a)
       PROVE  MailInv'
  <2>1. agent' = agent /\ \A b \in Agents : Born(b) => Born(b)'
    BY <1>15 DEF Born, Takes, Deliver
  <2>2. \A b \in Agents : \A i \in DOMAIN mailbox'[b] :
          mailbox'[b][i] \in Children => \E j \in DOMAIN mailbox[b] : mailbox'[b][i] = mailbox[b][j]
    BY <1>15, SendCounts, NamesAssumption DEF Deliver
  <2> QED BY <2>1, <2>2 DEF MailInv, Born
<1>16. ASSUME cancel_session
       PROVE  MailInv'
  <2>1. agent' = agent /\ \A b \in Agents : Born(b) => Born(b)'
    BY <1>16 DEF Born, Takes, cancel_session
  <2>2. \A b \in Agents : \A i \in DOMAIN mailbox'[b] :
          mailbox'[b][i] \in Children => \E j \in DOMAIN mailbox[b] : mailbox'[b][i] = mailbox[b][j]
    BY <1>16 DEF cancel_session
  <2> QED BY <2>1, <2>2 DEF MailInv, Born
<1>17. CASE UNCHANGED vars
  BY <1>17 DEF MailInv, Born, vars
<1> QED BY <1>1, <1>2, <1>3, <1>4, <1>5, <1>6, <1>7, <1>8, <1>9, <1>10, <1>11, <1>12, <1>13, <1>14, <1>15, <1>16, <1>17
    DEF Next, TaskStep, Step, Epilogue

LEMMA AccountedKept ==
    ASSUME NEW j \in Children, NEW b, b = agent[j].parent, agent'[j] = agent[j],
           reports'[j] = reports[j], Count(mailbox'[b], j) = Count(mailbox[b], j),
           loop'[j] \in {"cleaning", "ended"} <=> loop[j] \in {"cleaning", "ended"},
           loop'[j] = "dead" <=> loop[j] = "dead",
           Alive(b)' => Alive(b), WaitsFor(b, j)' <=> WaitsFor(b, j),
           Accounted(j)
    PROVE  Accounted(j)'
<1>1. Waiting(j)' = Waiting(j)
  BY DEF Waiting, Count
<1> QED BY <1>1 DEF Accounted, Alive, WaitsFor

LEMMA QuietStep ==
    ASSUME TypeOK, ReportInv, UNCHANGED <<agent, reports>>,
           \A b \in Agents, j \in Children : Count(mailbox'[b], j) = Count(mailbox[b], j),
           \A j \in Children : /\ loop'[j] \in {"cleaning", "ended"} <=> loop[j] \in {"cleaning", "ended"}
                               /\ loop'[j] = "dead" <=> loop[j] = "dead",
           \A b \in Agents : Alive(b)' => Alive(b),
           \A b \in Agents, j \in Children : WaitsFor(b, j)' <=> WaitsFor(b, j)
    PROVE  ReportInv'
<1>1. \A j \in Children : agent[j].parent \in Agents
  BY WaitingCounts
<1> SUFFICES ASSUME NEW j \in Children PROVE Accounted(j)'
  BY DEF ReportInv
<1>2. Accounted(j)
  BY DEF ReportInv
<1> QED BY <1>1, <1>2, AccountedKept

(***************************************************************************)
(* A child's end is applied or waits, once.                                *)
(***************************************************************************)
LEMMA ReportStep ==
    ASSUME TypeOK, TreeInv, SpawnInv, RegistryInv, MailInv, ReportInv, [Next]_vars
    PROVE  ReportInv'
<1> loop \in [Agents -> Loops] BY DEF TypeOK
<1> agent \in [Agents -> [parent : Agents, depth : 0..MaxAgents, mode : Modes \cup {"None"},
                          budget : Budgets \cup {RootBudget}]]
  BY DEF TypeOK
<1> spec \in [Agents -> [child : Agents, mode : Modes \cup {"None"},
                         budget : Budgets \cup {RootBudget}]]
  BY DEF TypeOK
<1> USE Ids
<1>1. ASSUME NEW a \in Agents, Carry_on(a)
       PROVE  ReportInv'
  <2>1. UNCHANGED <<agent, reports>>
    BY <1>1 DEF Carry_on
  <2>2. \A b \in Agents, j \in Children : Count(mailbox'[b], j) = Count(mailbox[b], j)
    <3>1. Takes(a, Other)
      BY <1>1 DEF Carry_on
    <3>2. \A b \in Agents, j \in Children : Count(mailbox'[b], j) \in Nat /\ Other # j
      BY <3>1, TakesType, CountType, NamesAssumption DEF MailboxOK
    <3> QED BY <3>1, <3>2, TakesCounts
  <2>3. \A j \in Children : /\ loop'[j] \in {"cleaning", "ended"} <=> loop[j] \in {"cleaning", "ended"}
                            /\ loop'[j] = "dead" <=> loop[j] = "dead"
    BY <1>1 DEF Carry_on, Takes
  <2>4. \A b \in Agents : Alive(b)' => Alive(b)
    BY <1>1 DEF Carry_on, Takes, Alive
  <2>5. \A b \in Agents, j \in Children : WaitsFor(b, j)' <=> WaitsFor(b, j)
    BY <1>1 DEF Carry_on, Takes, WaitsFor
  <2> QED BY <2>1, <2>2, <2>3, <2>4, <2>5, QuietStep
<1>2. ASSUME NEW a \in Agents, FinishRun(a)
       PROVE  ReportInv'
  <2>1. UNCHANGED <<agent, reports>>
    BY <1>2 DEF FinishRun
  <2>2. \A b \in Agents, j \in Children : Count(mailbox'[b], j) = Count(mailbox[b], j)
    <3>1. Takes(a, Other)
      BY <1>2 DEF FinishRun
    <3>2. \A b \in Agents, j \in Children : Count(mailbox'[b], j) \in Nat /\ Other # j
      BY <3>1, TakesType, CountType, NamesAssumption DEF MailboxOK
    <3> QED BY <3>1, <3>2, TakesCounts
  <2>3. \A j \in Children : /\ loop'[j] \in {"cleaning", "ended"} <=> loop[j] \in {"cleaning", "ended"}
                            /\ loop'[j] = "dead" <=> loop[j] = "dead"
    BY <1>2 DEF FinishRun, Takes
  <2>4. \A b \in Agents : Alive(b)' => Alive(b)
    BY <1>2 DEF FinishRun, Takes, Alive
  <2>5. \A b \in Agents, j \in Children : WaitsFor(b, j)' <=> WaitsFor(b, j)
    BY <1>2 DEF FinishRun, Takes, WaitsFor
  <2> QED BY <2>1, <2>2, <2>3, <2>4, <2>5, QuietStep
<1>3. ASSUME NEW a \in Agents, Cancel(a)
       PROVE  ReportInv'
  <2>1. UNCHANGED <<agent, reports>>
    BY <1>3 DEF Cancel
  <2>2. \A b \in Agents, j \in Children : Count(mailbox'[b], j) = Count(mailbox[b], j)
    <3>1. Takes(a, Other)
      BY <1>3 DEF Cancel
    <3>2. \A b \in Agents, j \in Children : Count(mailbox'[b], j) \in Nat /\ Other # j
      BY <3>1, TakesType, CountType, NamesAssumption DEF MailboxOK
    <3> QED BY <3>1, <3>2, TakesCounts
  <2>3. \A j \in Children : /\ loop'[j] \in {"cleaning", "ended"} <=> loop[j] \in {"cleaning", "ended"}
                            /\ loop'[j] = "dead" <=> loop[j] = "dead"
    BY <1>3 DEF Cancel, Takes
  <2>4. \A b \in Agents : Alive(b)' => Alive(b)
    BY <1>3 DEF Cancel, Takes, Alive
  <2>5. \A b \in Agents, j \in Children : WaitsFor(b, j)' <=> WaitsFor(b, j)
    BY <1>3 DEF Cancel, Takes, WaitsFor
  <2> QED BY <2>1, <2>2, <2>3, <2>4, <2>5, QuietStep
<1>4. ASSUME NEW a \in Agents, CancelledLoop(a)
       PROVE  ReportInv'
  <2>1. UNCHANGED <<agent, reports>>
    BY <1>4 DEF CancelledLoop
  <2>2. \A b \in Agents, j \in Children : Count(mailbox'[b], j) = Count(mailbox[b], j)
    BY <1>4 DEF CancelledLoop
  <2>3. \A j \in Children : /\ loop'[j] \in {"cleaning", "ended"} <=> loop[j] \in {"cleaning", "ended"}
                            /\ loop'[j] = "dead" <=> loop[j] = "dead"
    BY <1>4 DEF CancelledLoop, Takes
  <2>4. \A b \in Agents : Alive(b)' => Alive(b)
    BY <1>4 DEF CancelledLoop, Takes, Alive
  <2>5. \A b \in Agents, j \in Children : WaitsFor(b, j)' <=> WaitsFor(b, j)
    BY <1>4 DEF CancelledLoop, Takes, WaitsFor
  <2> QED BY <2>1, <2>2, <2>3, <2>4, <2>5, QuietStep
<1>5. ASSUME NEW a \in Agents, NEW m \in Modes, NEW g \in Budgets, Spawn(a, m, g)
       PROVE  ReportInv'
  <2>1. UNCHANGED <<agent, reports>>
    BY <1>5 DEF Spawn
  <2>2. \A b \in Agents, j \in Children : Count(mailbox'[b], j) = Count(mailbox[b], j)
    <3>1. Takes(a, Other)
      BY <1>5 DEF Spawn
    <3>2. \A b \in Agents, j \in Children : Count(mailbox'[b], j) \in Nat /\ Other # j
      BY <3>1, TakesType, CountType, NamesAssumption DEF MailboxOK
    <3> QED BY <3>1, <3>2, TakesCounts
  <2>3. \A j \in Children : /\ loop'[j] \in {"cleaning", "ended"} <=> loop[j] \in {"cleaning", "ended"}
                            /\ loop'[j] = "dead" <=> loop[j] = "dead"
    BY <1>5 DEF Spawn, Takes
  <2>4. \A b \in Agents : Alive(b)' => Alive(b)
    BY <1>5 DEF Spawn, Takes, Alive
  <2>5. \A b \in Agents, j \in Children : WaitsFor(b, j)' <=> WaitsFor(b, j)
    BY <1>5 DEF Spawn, Takes, WaitsFor
  <2> QED BY <2>1, <2>2, <2>3, <2>4, <2>5, QuietStep
<1>6. ASSUME NEW a \in Agents, acquire_agent_permit(a)
       PROVE  ReportInv'
  <2>1. UNCHANGED <<agent, reports>>
    BY <1>6 DEF acquire_agent_permit
  <2>2. \A b \in Agents, j \in Children : Count(mailbox'[b], j) = Count(mailbox[b], j)
    BY <1>6 DEF acquire_agent_permit
  <2>3. \A j \in Children : /\ loop'[j] \in {"cleaning", "ended"} <=> loop[j] \in {"cleaning", "ended"}
                            /\ loop'[j] = "dead" <=> loop[j] = "dead"
    BY <1>6 DEF acquire_agent_permit, Takes
  <2>4. \A b \in Agents : Alive(b)' => Alive(b)
    BY <1>6 DEF acquire_agent_permit, Takes, Alive
  <2>5. \A b \in Agents, j \in Children : WaitsFor(b, j)' <=> WaitsFor(b, j)
    BY <1>6 DEF acquire_agent_permit, Takes, WaitsFor
  <2> QED BY <2>1, <2>2, <2>3, <2>4, <2>5, QuietStep
<1>7. ASSUME NEW a \in Agents, SpawnFails(a)
       PROVE  ReportInv'
  <2>1. UNCHANGED <<agent, reports>>
    BY <1>7 DEF SpawnFails
  <2>2. \A b \in Agents, j \in Children : Count(mailbox'[b], j) = Count(mailbox[b], j)
    BY <1>7 DEF SpawnFails
  <2>3. \A j \in Children : /\ loop'[j] \in {"cleaning", "ended"} <=> loop[j] \in {"cleaning", "ended"}
                            /\ loop'[j] = "dead" <=> loop[j] = "dead"
    BY <1>7 DEF SpawnFails, Takes
  <2>4. \A b \in Agents : Alive(b)' => Alive(b)
    BY <1>7 DEF SpawnFails, Takes, Alive
  <2>5. \A b \in Agents, j \in Children : WaitsFor(b, j)' <=> WaitsFor(b, j)
    BY <1>7 DEF SpawnFails, Takes, WaitsFor
  <2> QED BY <2>1, <2>2, <2>3, <2>4, <2>5, QuietStep
<1>8. ASSUME NEW a \in Agents, NEW k \in Children, spawn_child(a, k)
       PROVE  ReportInv'
  <2> SUFFICES ASSUME NEW j \in Children PROVE Accounted(j)'
    BY DEF ReportInv
  <2> DEFINE b == agent[j].parent
  <2>1. b \in Agents /\ Accounted(j) /\ Waiting(j) = Count(mailbox[b], j) /\ Waiting(j) \in Nat /\ reports[j] \in Nat
    BY WaitingCounts DEF ReportInv
  <2>2. UNCHANGED reports /\ \A c \in Agents : Count(mailbox'[c], j) = IF c = k THEN 0 ELSE Count(mailbox[c], j)
    <3>1. UNCHANGED reports
      BY <1>8 DEF spawn_child
    <3> QED BY <1>8, <3>1, FirstCommandCounts
  <2>3. CASE j = k
    <3>1. loop[j] = "unborn" /\ loop'[j] = "running" /\ agent'[j].parent = a /\ a # k
      BY <1>8, <2>3, SpawnChildTree DEF spawn_child, NextId
    <3>2. \A i \in DOMAIN mailbox[a] : mailbox[a][i] # j
      BY <3>1 DEF MailInv, Born
    <3>3. Count(mailbox[a], j) = 0
      BY <3>2, CountType DEF TypeOK
    <3>4. Waiting(j)' = 0
      BY <2>2, <3>1, <3>3 DEF Waiting, Count
    <3>5. reports[j] = 0
      BY <2>1, <3>1 DEF Accounted
    <3> QED BY <2>2, <3>1, <3>4, <3>5 DEF Accounted
  <2>4. CASE j # k /\ ~Born(j)
    <3>1. agent'[j] = agent[j] /\ loop'[j] = "unborn" /\ loop[j] = "unborn"
      BY <1>8, <2>4, SpawnChildTree DEF Born
    <3>2. reports[j] = 0 /\ Count(mailbox[b], j) = 0
      BY <2>1, <3>1 DEF Accounted
    <3>3. Waiting(j)' = 0
      BY <2>1, <2>2, <3>1, <3>2 DEF Waiting, Count
    <3> QED BY <2>2, <3>1, <3>2, <3>3 DEF Accounted
  <2>5. CASE j # k /\ Born(j)
    <3>1. b < j /\ Born(b) /\ b # k
      BY <1>8, <2>1, <2>5, SpawnChildTree DEF TreeInv
    <3>2. agent'[j] = agent[j] /\ loop[a] = "building"
      BY <1>8, <2>5, SpawnChildTree DEF spawn_child
    <3>3. Count(mailbox'[b], j) = Count(mailbox[b], j)
      BY <2>1, <2>2, <3>1
    <3>4. /\ loop'[j] \in {"cleaning", "ended"} <=> loop[j] \in {"cleaning", "ended"}
          /\ loop'[j] = "dead" <=> loop[j] = "dead"
      BY <1>8, <2>5, <3>2, SpawnChildTree
    <3>5. Alive(b)' => Alive(b)
      BY <1>8, <2>1, <3>1, <3>2, SpawnChildTree DEF Alive
    <3>6. WaitsFor(b, j)' <=> WaitsFor(b, j)
      <4>1. CASE b = a
        <5>1. spec[a].mode = "AwaitResult" => spec'[a].child = k
          BY <1>8 DEF spawn_child, TypeOK
        <5> QED BY <1>8, <2>5, <3>2, <4>1, <5>1, SpawnChildTree DEF WaitsFor
      <4>2. CASE b # a
        <5>1. spec'[b] = spec[b]
          BY <1>8, <2>1, <4>2 DEF spawn_child, TypeOK
        <5>2. loop'[b] = loop[b]
          BY <1>8, <2>1, <3>1, <4>2, SpawnChildTree
        <5> QED BY <3>2, <5>1, <5>2 DEF WaitsFor
      <4> QED BY <4>1, <4>2
    <3> QED BY <2>1, <2>2, <3>2, <3>3, <3>4, <3>5, <3>6, AccountedKept
  <2> QED BY <2>3, <2>4, <2>5
<1>9. ASSUME NEW a \in Agents, NEW k \in Children, ChildReported(a, k)
       PROVE  ReportInv'
  <2> SUFFICES ASSUME NEW j \in Children PROVE Accounted(j)'
    BY DEF ReportInv
  <2> DEFINE b == agent[j].parent
  <2>1. b \in Agents /\ Accounted(j) /\ Waiting(j) = Count(mailbox[b], j) /\ Waiting(j) \in Nat /\ reports[j] \in Nat
    BY WaitingCounts DEF ReportInv
  <2>2. agent' = agent /\ loop' = loop /\ spec' = spec
    BY <1>9 DEF ChildReported
  <2>3. agent[k].parent = a /\ Takes(a, k)
    BY <1>9, TakesCounts DEF ChildReported, MailInv
  <2>4. \A c \in Agents : Count(mailbox[c], j) = Count(mailbox'[c], j) + IF c = a /\ k = j THEN 1 ELSE 0
    BY <2>3, TakesCounts
  <2>5. Count(mailbox'[b], j) \in Nat
    BY <2>1, <2>3, TakesType, CountType DEF MailboxOK
  <2>6. Waiting(j)' = Count(mailbox'[b], j)
    BY <2>2 DEF Waiting, Count
  <2>7. CASE j = k
    <3>1. Waiting(j) = Waiting(j)' + 1
      BY <2>1, <2>3, <2>4, <2>6, <2>7
    <3>2. reports'[j] = reports[j] + 1
      BY <1>9, <2>7 DEF ChildReported, TypeOK
    <3>3. loop[j] \in {"cleaning", "ended"}
      BY <2>1, <2>5, <2>6, <3>1 DEF Accounted
    <3> QED BY <2>1, <2>2, <2>5, <2>6, <3>1, <3>2, <3>3 DEF Accounted, Alive
  <2>8. CASE j # k
    <3>1. reports'[j] = reports[j]
      BY <1>9, <2>8 DEF ChildReported, TypeOK
    <3>2. Count(mailbox'[b], j) = Count(mailbox[b], j)
      BY <2>1, <2>4, <2>5, <2>8
    <3> QED BY <2>1, <2>2, <3>1, <3>2, AccountedKept DEF Alive, WaitsFor
  <2> QED BY <2>7, <2>8
<1>10. ASSUME NEW a \in Agents, await_child(a)
       PROVE  ReportInv'
  <2>1. UNCHANGED <<agent, reports>>
    BY <1>10 DEF await_child
  <2>2. \A b \in Agents, j \in Children : Count(mailbox'[b], j) = Count(mailbox[b], j)
    BY <1>10 DEF await_child
  <2>3. \A j \in Children : /\ loop'[j] \in {"cleaning", "ended"} <=> loop[j] \in {"cleaning", "ended"}
                            /\ loop'[j] = "dead" <=> loop[j] = "dead"
    BY <1>10 DEF await_child, Takes
  <2>4. \A b \in Agents : Alive(b)' => Alive(b)
    BY <1>10 DEF await_child, Takes, Alive
  <2>5. \A b \in Agents, j \in Children : WaitsFor(b, j)' <=> WaitsFor(b, j)
    BY <1>10 DEF await_child, Takes, WaitsFor
  <2> QED BY <2>1, <2>2, <2>3, <2>4, <2>5, QuietStep
<1>11. ASSUME NEW a \in Agents, Joined(a)
       PROVE  ReportInv'
  <2> SUFFICES ASSUME NEW j \in Children PROVE Accounted(j)'
    BY DEF ReportInv
  <2> DEFINE b == agent[j].parent
  <2>1. b \in Agents /\ Accounted(j) /\ Waiting(j) = Count(mailbox[b], j) /\ Waiting(j) \in Nat /\ reports[j] \in Nat
    BY WaitingCounts DEF ReportInv
  <2> DEFINE k == spec[a].child
  <2>2. loop[a] = "awaiting" /\ loop[k] \in {"ended", "dead"} /\ agent' = agent /\ mailbox' = mailbox
    BY <1>11 DEF Joined
  <2>3. k \in Children /\ agent[k].parent = a /\ agent[k].mode = "AwaitResult"
    BY <2>2 DEF SpawnInv
  <2>4. a # k
    BY <2>2
  <2>5. /\ loop'[a] = "running" /\ \A c \in Agents : c # a => loop'[c] = loop[c] /\ spec'[c] = spec[c]
        /\ reports' = [reports EXCEPT ![k] = IF loop[k] = "dead" THEN @ + 1 ELSE @]
    BY <1>11 DEF Joined, await_result, TypeOK
  <2>6. Count(mailbox'[b], j) = Count(mailbox[b], j) /\ Waiting(j)' = Waiting(j)
    BY <2>2 DEF Waiting
  <2>7. /\ loop'[j] \in {"cleaning", "ended"} <=> loop[j] \in {"cleaning", "ended"}
        /\ loop'[j] = "dead" <=> loop[j] = "dead"
    BY <2>2, <2>5
  <2>8. \A c \in Agents : Alive(c)' <=> Alive(c)
    BY <2>2, <2>5 DEF Alive
  <2>9. CASE j = k /\ loop[k] = "dead"
    <3>1. WaitsFor(a, k) /\ ~WaitsFor(a, k)'
      BY <2>2, <2>5 DEF WaitsFor
    <3>2. reports'[k] = reports[k] + 1
      BY <2>3, <2>5, <2>9 DEF TypeOK
    <3>3. reports[k] = 0 /\ Waiting(k) = 0
      BY <2>1, <2>3, <2>9, <3>1 DEF Accounted
    <3>4. loop'[k] = "dead"
      BY <2>3, <2>4, <2>5, <2>9
    <3>5. loop'[j] = "dead" /\ reports'[j] = 1 /\ Waiting(j)' = 0 /\ agent'[j] = agent[j]
      BY <2>2, <2>3, <2>6, <2>9, <3>2, <3>3, <3>4
    <3>6. agent[j].mode = "AwaitResult" /\ agent[j].parent = a /\ ~(loop'[a] \in {"joining", "awaiting"})
      BY <2>3, <2>5, <2>9
    <3> QED BY <3>5, <3>6 DEF Accounted, WaitsFor
  <2>10. CASE j = k /\ loop[k] = "ended"
    <3>1. reports'[j] = reports[j]
      BY <2>3, <2>5, <2>10 DEF TypeOK
    <3>2. loop'[j] = "ended"
      BY <2>3, <2>4, <2>5, <2>10
    <3> QED BY <2>1, <2>2, <2>6, <2>8, <2>10, <3>1, <3>2 DEF Accounted, Alive
  <2>11. CASE j # k
    <3>1. reports'[j] = reports[j]
      BY <2>3, <2>5, <2>11 DEF TypeOK
    <3>2. WaitsFor(b, j)' <=> WaitsFor(b, j)
      <4>1. CASE b = a
        BY <2>2, <2>5, <2>11, <4>1 DEF WaitsFor
      <4>2. CASE b # a
        BY <2>1, <2>2, <2>5, <4>2 DEF WaitsFor
      <4> QED BY <4>1, <4>2
    <3> QED BY <2>1, <2>2, <2>6, <2>7, <2>8, <3>1, <3>2, AccountedKept
  <2> QED BY <2>2, <2>9, <2>10, <2>11
<1>12. ASSUME NEW k \in Children, Report(k)
       PROVE  ReportInv'
  <2> SUFFICES ASSUME NEW j \in Children PROVE Accounted(j)'
    BY DEF ReportInv
  <2> DEFINE b == agent[j].parent
  <2>1. b \in Agents /\ Accounted(j) /\ Waiting(j) = Count(mailbox[b], j) /\ Waiting(j) \in Nat /\ reports[j] \in Nat
    BY WaitingCounts DEF ReportInv
  <2>2. /\ UNCHANGED <<agent, reports, spec>> /\ loop[k] = "reporting" /\ loop'[k] = "cleaning"
        /\ \A c \in Agents : c # k => loop'[c] = loop[c]
    BY <1>12 DEF Report
  <2> DEFINE a == agent[k].parent
  <2>3. a \in Agents /\ a # k /\ Accounted(k) /\ reports[k] = 0 /\ Count(mailbox[a], k) = 0
    <3>1. a \in Agents /\ a < k /\ Accounted(k)
      BY <2>2 DEF TreeInv, Born, ReportInv
    <3>2. reports[k] = 0 /\ Waiting(k) = 0
      BY <2>2, <3>1 DEF Accounted
    <3> QED BY <3>1, <3>2 DEF Waiting, Count
  <2>4. \/ \A c \in Agents : Count(mailbox'[c], j) = Count(mailbox[c], j) + IF c = a /\ k = j THEN 1 ELSE 0
        \/ ~Alive(a) /\ mailbox' = mailbox
    BY <1>12, ReportCounts
  <2>5. Count(mailbox[b], j) \in Nat
    BY <2>1
  <2>6. Waiting(j)' = Count(mailbox'[b], j)
    BY <2>2 DEF Waiting, Count
  <2> HIDE DEF a
  <2>7. CASE j = k
    <3>1. a = b
      BY <2>7 DEF a
    <3>2. loop'[j] = "cleaning" /\ reports'[j] = 0 /\ agent'[j] = agent[j]
      BY <2>2, <2>3, <2>7
    <3>3. Alive(b)' <=> Alive(b)
      BY <2>1, <2>2, <2>3, <3>1 DEF Alive
    <3>4. Waiting(j)' = 1 \/ (Waiting(j)' = 0 /\ ~Alive(b))
      BY <2>1, <2>3, <2>4, <2>6, <2>7, <3>1
    <3> QED BY <3>2, <3>3, <3>4 DEF Accounted, Alive
  <2>8. CASE j # k
    <3>1. Count(mailbox'[b], j) = Count(mailbox[b], j)
      BY <2>1, <2>4, <2>5, <2>8
    <3>2. (Alive(b)' <=> Alive(b)) /\ (WaitsFor(b, j)' <=> WaitsFor(b, j))
      BY <2>1, <2>2 DEF Alive, WaitsFor
    <3> QED BY <2>1, <2>2, <2>8, <3>1, <3>2, AccountedKept
  <2> QED BY <2>7, <2>8
<1>13. ASSUME NEW k \in Children, TaskEnds(k)
       PROVE  ReportInv'
  <2> SUFFICES ASSUME NEW j \in Children PROVE Accounted(j)'
    BY DEF ReportInv
  <2> DEFINE b == agent[j].parent
  <2>1. b \in Agents /\ Accounted(j) /\ Waiting(j) = Count(mailbox[b], j) /\ Waiting(j) \in Nat /\ reports[j] \in Nat
    BY WaitingCounts DEF ReportInv
  <2>2. /\ UNCHANGED <<agent, reports, spec>> /\ loop[k] = "cleaning" /\ loop'[k] = "ended"
        /\ \A c \in Agents : c # k => loop'[c] = loop[c]
    BY <1>13 DEF TaskEnds
  <2>3. \A c \in Agents : Count(mailbox'[c], j) = IF c = k THEN 0 ELSE Count(mailbox[c], j)
    BY <1>13, EmptiedCounts
  <2>4. (\A c \in Agents : Alive(c)' => Alive(c)) /\ ~Alive(k)'
    BY <2>2 DEF Alive
  <2>5. WaitsFor(b, j)' <=> WaitsFor(b, j)
    BY <2>1, <2>2 DEF WaitsFor
  <2>6. /\ loop'[j] \in {"cleaning", "ended"} <=> loop[j] \in {"cleaning", "ended"}
        /\ loop'[j] = "dead" <=> loop[j] = "dead"
    BY <2>2
  <2>7. CASE b # k
    <3>1. Count(mailbox'[b], j) = Count(mailbox[b], j)
      BY <2>1, <2>3, <2>7
    <3> QED BY <2>1, <2>2, <2>4, <2>5, <2>6, <3>1, AccountedKept
  <2>8. CASE b = k
    <3>1. Waiting(j)' = 0
      BY <2>1, <2>2, <2>3, <2>8 DEF Waiting, Count
    <3> QED BY <2>1, <2>2, <2>4, <2>5, <2>6, <2>8, <3>1 DEF Accounted, Alive, WaitsFor
  <2> QED BY <2>7, <2>8
<1>14. ASSUME NEW k \in Children, TaskDies(k)
       PROVE  ReportInv'
  <2> SUFFICES ASSUME NEW j \in Children PROVE Accounted(j)'
    BY DEF ReportInv
  <2> DEFINE b == agent[j].parent
  <2>1. b \in Agents /\ Accounted(j) /\ Waiting(j) = Count(mailbox[b], j) /\ Waiting(j) \in Nat /\ reports[j] \in Nat
    BY WaitingCounts DEF ReportInv
  <2>2. /\ UNCHANGED <<agent, reports, spec>> /\ loop[k] = "running" /\ loop'[k] = "dead"
        /\ \A c \in Agents : c # k => loop'[c] = loop[c]
    BY <1>14 DEF TaskDies
  <2>3. \A c \in Agents : Count(mailbox'[c], j) = IF c = k THEN 0 ELSE Count(mailbox[c], j)
    BY <1>14, EmptiedCounts
  <2>4. (\A c \in Agents : Alive(c)' => Alive(c)) /\ ~Alive(k)'
    BY <2>2 DEF Alive
  <2>5. WaitsFor(b, j)' <=> WaitsFor(b, j)
    BY <2>1, <2>2 DEF WaitsFor
  <2>6. CASE j = k
    <3>1. b < k /\ Registered(k) /\ Born(k)
      BY <2>2, <2>6 DEF TreeInv, RegistryInv, Born
    <3>2. b # k
      BY <2>1, <3>1
    <3>3. agent[k].mode = "AwaitResult" => WaitsFor(b, k)
      BY <2>2, <2>6, <3>1 DEF Registered, WaitsFor
    <3>4. reports[k] = 0 /\ Waiting(k)' = 0
      BY <2>1, <2>2, <2>3, <2>6, <3>2 DEF Accounted, Waiting, Count
    <3> QED BY <2>2, <2>5, <2>6, <3>3, <3>4 DEF Accounted, WaitsFor
  <2>7. CASE j # k /\ b # k
    <3>1. Count(mailbox'[b], j) = Count(mailbox[b], j)
      BY <2>1, <2>3, <2>7
    <3> QED BY <2>1, <2>2, <2>4, <2>5, <2>7, <3>1, AccountedKept
  <2>8. CASE j # k /\ b = k
    <3>1. Waiting(j)' = 0
      BY <2>1, <2>2, <2>3, <2>8 DEF Waiting, Count
    <3> QED BY <2>1, <2>2, <2>4, <2>5, <2>8, <3>1 DEF Accounted, Alive, WaitsFor
  <2> QED BY <2>6, <2>7, <2>8
<1>15. ASSUME NEW a \in Agents, Deliver(a)
       PROVE  ReportInv'
  <2>1. UNCHANGED <<agent, reports>>
    BY <1>15 DEF Deliver
  <2>2. \A b \in Agents, j \in Children : Count(mailbox'[b], j) = Count(mailbox[b], j)
    BY <1>15, DeliverCounts
  <2>3. \A j \in Children : /\ loop'[j] \in {"cleaning", "ended"} <=> loop[j] \in {"cleaning", "ended"}
                            /\ loop'[j] = "dead" <=> loop[j] = "dead"
    BY <1>15 DEF Deliver, Takes
  <2>4. \A b \in Agents : Alive(b)' => Alive(b)
    BY <1>15 DEF Deliver, Takes, Alive
  <2>5. \A b \in Agents, j \in Children : WaitsFor(b, j)' <=> WaitsFor(b, j)
    BY <1>15 DEF Deliver, Takes, WaitsFor
  <2> QED BY <2>1, <2>2, <2>3, <2>4, <2>5, QuietStep
<1>16. ASSUME cancel_session
       PROVE  ReportInv'
  <2>1. UNCHANGED <<agent, reports>>
    BY <1>16 DEF cancel_session
  <2>2. \A b \in Agents, j \in Children : Count(mailbox'[b], j) = Count(mailbox[b], j)
    BY <1>16 DEF cancel_session
  <2>3. \A j \in Children : /\ loop'[j] \in {"cleaning", "ended"} <=> loop[j] \in {"cleaning", "ended"}
                            /\ loop'[j] = "dead" <=> loop[j] = "dead"
    BY <1>16 DEF cancel_session, Takes
  <2>4. \A b \in Agents : Alive(b)' => Alive(b)
    BY <1>16 DEF cancel_session, Takes, Alive
  <2>5. \A b \in Agents, j \in Children : WaitsFor(b, j)' <=> WaitsFor(b, j)
    BY <1>16 DEF cancel_session, Takes, WaitsFor
  <2> QED BY <2>1, <2>2, <2>3, <2>4, <2>5, QuietStep
<1>17. CASE UNCHANGED vars
  <2>1. UNCHANGED <<loop, agent, spec, mailbox, reports>>
    BY <1>17 DEF vars
  <2>2. \A b \in Agents, j \in Children : Count(mailbox'[b], j) = Count(mailbox[b], j)
    BY <2>1
  <2>3. (\A b \in Agents : Alive(b)' => Alive(b)) /\ \A b \in Agents, j \in Children : WaitsFor(b, j)' <=> WaitsFor(b, j)
    BY <2>1 DEF Alive, WaitsFor
  <2>4. \A j \in Children : loop'[j] = loop[j]
    BY <2>1
  <2> QED BY <2>1, <2>2, <2>3, <2>4, QuietStep
<1> QED BY <1>1, <1>2, <1>3, <1>4, <1>5, <1>6, <1>7, <1>8, <1>9, <1>10, <1>11, <1>12, <1>13, <1>14, <1>15, <1>16, <1>17
    DEF Next, TaskStep, Step, Epilogue

-----------------------------------------------------------------------------
(***************************************************************************)
(* The invariant holds at first.                                           *)
(***************************************************************************)
LEMMA InitIInv == Init => IInv
<1> SUFFICES ASSUME Init PROVE IInv
  OBVIOUS
<1> USE Ids
<1>1. /\ loop = [a \in Agents |-> IF a = Root THEN "running" ELSE "unborn"]
      /\ agent = [a \in Agents |-> Unborn] /\ spec = [a \in Agents |-> NoSpec]
      /\ mailbox = [a \in Agents |-> <<>>] /\ reports = [a \in Agents |-> 0]
  BY DEF Init
<1>2. TypeOK
  <2>1. loop \in [Agents -> Loops]
    BY <1>1 DEF Loops
  <2>2. 0 \in 0..MaxAgents /\ 0 \in Nat /\ MaxInputs \in 0..MaxInputs
    BY BoundsAssumption
  <2>3. agent \in [Agents -> [parent : Agents, depth : 0..MaxAgents, mode : Modes \cup {"None"},
                              budget : Budgets \cup {RootBudget}]]
    BY <1>1, <2>2 DEF Unborn
  <2>4. spec \in [Agents -> [child : Agents, mode : Modes \cup {"None"},
                             budget : Budgets \cup {RootBudget}]]
    BY <1>1 DEF NoSpec
  <2>5. lineage \in [Agents -> SUBSET (Agents \cup {Session})] /\ cancelled \subseteq Agents \cup {Session}
    BY DEF Init
  <2>6. available \in 0..max_active_agents /\ inputs \in 0..MaxInputs
    BY <2>2, ConfigAssumption DEF Init
  <2>7. /\ agents \subseteq Children /\ children_of \in [Agents -> SUBSET Children]
        /\ agent_tokens \subseteq Agents /\ state_children \in [Agents -> SUBSET Children]
    BY DEF Init
  <2>8. /\ mailbox \in [Agents -> Seq(Children \cup {Other})]
        /\ \A a \in Agents : Len(mailbox[a]) <= command_capacity
    BY <1>1, ConfigAssumption
  <2>9. reports \in [Agents -> Nat]
    BY <1>1, <2>2
  <2> QED BY <2>1, <2>3, <2>4, <2>5, <2>6, <2>7, <2>8, <2>9 DEF TypeOK
<1>3. PermitsAccounted
  <2>1. {k \in Children : Alive(k)} = {} /\ {a \in Agents : loop[a] = "building"} = {}
    BY <1>1 DEF Alive
  <2>2. Cardinality({}) = 0 /\ available = max_active_agents /\ max_active_agents \in Nat
    BY FS_EmptySet, ConfigAssumption DEF Init
  <2> QED BY <2>1, <2>2 DEF PermitsAccounted
<1>4. TreeInv
  <2>1. \A a \in Agents : Born(a) <=> a = Root
    BY <1>1 DEF Born
  <2>2. \A a \in Agents : a >= 0 /\ agent[a].depth = 0
    BY <1>1, BoundsAssumption DEF Agents, Unborn
  <2>3. \A j \in Agents : ~(j < Root)
    BY <2>2 DEF Root
  <2> QED BY <2>1, <2>2, <2>3 DEF TreeInv
<1>5. SpawnInv /\ MailInv
  BY <1>1 DEF SpawnInv, MailInv
<1>6. TokenInv
  BY <1>1 DEF TokenInv, Alive, Born, Init
<1>7. RegistryInv
  BY <1>1 DEF RegistryInv, Born
<1>8. ReportInv
  <2> SUFFICES ASSUME NEW k \in Children PROVE Accounted(k)
    BY DEF ReportInv
  <2>1. loop[k] = "unborn" /\ reports[k] = 0 /\ agent[k].parent \in Agents
    BY <1>1 DEF Unborn
  <2>2. mailbox[agent[k].parent] = <<>>
    BY <1>1, <2>1
  <2>3. Waiting(k) = 0
    BY <1>2, <2>2, WaitingCounts, CountShort
  <2> QED BY <2>1, <2>3 DEF Accounted
<1> QED BY <1>2, <1>3, <1>4, <1>5, <1>6, <1>7, <1>8 DEF IInv

(***************************************************************************)
(* Every step of a task, of the outside and of the session keeps it.       *)
(***************************************************************************)
LEMMA StepIInv == IInv /\ [Next]_vars => IInv'
<1> SUFFICES ASSUME IInv, [Next]_vars PROVE IInv'
  OBVIOUS
<1>1. TypeOK /\ PermitsAccounted /\ TreeInv /\ SpawnInv /\ TokenInv /\ RegistryInv /\ MailInv /\ ReportInv
  BY DEF IInv
<1>2. PermitsAccounted' BY <1>1, PermitsStep
<1>3. TypeOK' BY <1>1, <1>2, TypeStep
<1>4. TreeInv' BY <1>1, TreeStep
<1>5. SpawnInv' BY <1>1, SpawnStep
<1>6. TokenInv' BY <1>1, TokenStep
<1>7. RegistryInv' BY <1>1, RegistryStep
<1>8. MailInv' BY <1>1, MailStep
<1>9. ReportInv' BY <1>1, ReportStep
<1> QED BY <1>2, <1>3, <1>4, <1>5, <1>6, <1>7, <1>8, <1>9 DEF IInv

LEMMA AlwaysIInv == Spec => []IInv
BY InitIInv, StepIInv, PTL DEF Spec

-----------------------------------------------------------------------------
(***************************************************************************)
(* What the supervisor promises of every tree of agents.                   *)
(***************************************************************************)

\* Every variable keeps its type, a mailbox never exceeds its capacity and the
\* semaphore never more permits than it was made with, whatever the tasks do.
THEOREM SupervisionTypeCorrect == Spec => []TypeOK
<1>1. IInv => TypeOK
  BY DEF IInv
<1> QED BY <1>1, AlwaysIInv, PTL

\* Cancelling an agent cancels all that lies below it, children spawned after
\* the cancellation included (child_cancellation, cancel_child).
THEOREM CancellationReachesDown == Spec => []CancelReachesSubtree
<1>1. IInv => CancelReachesSubtree
  <2> SUFFICES ASSUME IInv, NEW k \in Children, loop[k] # "unborn", is_cancelled(agent[k].parent)
               PROVE  is_cancelled(k)
    BY DEF CancelReachesSubtree
  <2>1. lineage[agent[k].parent] \subseteq lineage[k]
    BY DEF IInv, TokenInv, Born
  <2> QED BY <2>1 DEF is_cancelled
<1> QED BY <1>1, AlwaysIInv, PTL

\* The registry lists a detached child while its task runs and forgets every
\* child whose end has been handled (deregister, await_child).
THEOREM RegistryStaysCurrent == Spec => []RegistryIsCurrent
<1>1. IInv => RegistryIsCurrent
  <2> SUFFICES ASSUME IInv PROVE RegistryIsCurrent
    OBVIOUS
  <2>1. ASSUME NEW k \in Children
        PROVE  /\ Alive(k) /\ agent[k].mode = "Concurrent" => Listed(k)
               /\ \/ loop[k] = "ended" /\ ~WaitsFor(agent[k].parent, k)
                  \/ /\ loop[k] = "dead" /\ agent[k].mode = "AwaitResult"
                     /\ ~WaitsFor(agent[k].parent, k)
                  => Unlisted(k)
    <3>1. CASE ~Born(k)
      BY <3>1 DEF Born, Alive
    <3>2. CASE Born(k)
      <4>1. Registered(k) /\ agent[k].mode \in Modes
        BY <3>2 DEF IInv, RegistryInv, TreeInv
      <4> QED BY <4>1 DEF Registered, WaitsFor, Modes
    <3> QED BY <3>1, <3>2
  <2> DEFINE listed(k) == <<k \in agents, k \in children_of[agent[k].parent], k \in agent_tokens>>
  <2>2. ASSUME NEW k \in Children, Listed(k) PROVE listed(k) = <<TRUE, TRUE, TRUE>>
    <3>1. /\ (k \in agents) = TRUE /\ (k \in children_of[agent[k].parent]) = TRUE
          /\ (k \in agent_tokens) = TRUE
      BY <2>2 DEF Listed
    <3> QED BY <3>1, Zenon
  <2>3. ASSUME NEW k \in Children, Unlisted(k) PROVE listed(k) = <<FALSE, FALSE, FALSE>>
    <3>1. /\ (k \in agents) = FALSE /\ (k \in children_of[agent[k].parent]) = FALSE
          /\ (k \in agent_tokens) = FALSE
      BY <2>3 DEF Unlisted
    <3> QED BY <3>1, Zenon
  <2> QED BY <2>1, <2>2, <2>3, Zenon DEF RegistryIsCurrent
<1> QED BY <1>1, AlwaysIInv, PTL

\* A child's end enters its parent's state machine at most once, and exactly
\* once while the parent lives, in both spawn modes and when an awaited
\* child's task dies (run_child, await_child).
THEOREM EndsAreAppliedOnce == Spec => []EndsEnterOnce
<1>1. IInv => EndsEnterOnce
  <2> SUFFICES ASSUME IInv, NEW k \in Children
               PROVE  /\ reports[k] + Waiting(k) <= 1
                      /\ /\ Alive(agent[k].parent)
                         /\ \/ loop[k] \in {"cleaning", "ended"}
                            \/ loop[k] = "dead" /\ agent[k].mode = "AwaitResult"
                                                /\ ~WaitsFor(agent[k].parent, k)
                         => reports[k] + Waiting(k) = 1
    BY DEF EndsEnterOnce
  <2>1. Accounted(k) /\ TypeOK
    BY DEF IInv, ReportInv
  <2>2. reports[k] \in Nat /\ Waiting(k) \in Nat
    BY <2>1, WaitingCounts
  <2>3. CASE loop[k] \in {"cleaning", "ended"}
    BY <2>1, <2>2, <2>3 DEF Accounted
  <2>4. CASE loop[k] = "dead"
    BY <2>1, <2>2, <2>4 DEF Accounted
  <2>5. CASE loop[k] \notin {"cleaning", "ended", "dead"}
    BY <2>1, <2>2, <2>5 DEF Accounted
  <2> QED BY <2>3, <2>4, <2>5
<1> QED BY <1>1, AlwaysIInv, PTL

\* No permit is lost or made up, however spawns fail, tasks end and die
\* (acquire_agent_permit and the drops of the permit).
THEOREM PermitsAreAccounted == Spec => []PermitsAccounted
<1>1. IInv => PermitsAccounted
  BY DEF IInv
<1> QED BY <1>1, AlwaysIInv, PTL
=============================================================================
