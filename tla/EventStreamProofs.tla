------------------------- MODULE EventStreamProofs -------------------------
(***************************************************************************)
(* Theorems about SessionLog and about EventStream, which extends it: for  *)
(* every number of agents, every policy and checkpoint interval, capacity  *)
(* of the channels and number of subscriptions, and histories of any       *)
(* length.                                                                 *)
(***************************************************************************)
EXTENDS EventStream, NaturalsInduction, WellFoundedInduction, TLAPS

(***************************************************************************)
(* The log: an inductive invariant of SessionLog.                          *)
(***************************************************************************)
\* Nothing the process holds in memory outlives it.
DownInv ==
    ~running => /\ outbox = Nothing /\ stage = AllWaiting /\ next = 0
                /\ saving = {} /\ requested = {}

\* An event between its number and its publication is the first of its
\* agent's, and only one is between its number and the store.
StageInv ==
    /\ \A a \in Agents : stage[a] # "waiting" => outbox[a] # <<>>
    /\ \A a, b \in Agents : stage[a] = "numbered" /\ stage[b] = "numbered" => a = b
    /\ next = 0 => \A a \in Agents : stage[a] = "waiting"

\* The projection is the agents; what a command emits carries the step it
\* made; the steps of an agent never go back along the log.
StepInv ==
    /\ running => projection = agent
    /\ \A a \in Agents : \A i \in DOMAIN outbox[a] :
         outbox[a][i].agent = a /\ outbox[a][i].step = agent[a].step
    /\ \A i, j \in DOMAIN events :
         i < j /\ events[i].agent = events[j].agent => events[i].step <= events[j].step

\* The numbers that the log, the snapshots and a checkpoint under way hold.
Settled ==
    {events[i].sequence : i \in DOMAIN events}
        \cup {s.sequence : s \in saving \cup {snapshot}} \cup requested

\* The number the store would answer.
IsTop(n) ==
    /\ \A i \in DOMAIN events : events[i].sequence <= n
    /\ snapshot.sequence <= n
    /\ n = snapshot.sequence \/ \E i \in DOMAIN events : events[i].sequence = n

\* Before the first number of a life, checkpoints can only hold the store's
\* own; after it, the sequencer is ahead of every number in use, and a number
\* on its way to the store is ahead of all but the sequencer.
NumberInv ==
    /\ next = 0 => \A n \in {s.sequence : s \in saving} \cup requested : IsTop(n)
    /\ next > 0 => /\ \A n \in Settled : n < next
                   /\ \A a \in Agents : stage[a] # "waiting" => outbox[a][1].sequence < next
    /\ \A a \in Agents : stage[a] = "numbered" =>
        /\ \A n \in Settled : n < outbox[a][1].sequence
        /\ \A b \in Agents : stage[b] = "committed" =>
             outbox[b][1].sequence < outbox[a][1].sequence

LogInv ==
    /\ LogTypeOK /\ DownInv /\ StageInv /\ StepInv /\ NumberInv
    /\ StoredInOrder /\ CommittedIsRemembered

-----------------------------------------------------------------------------
(***************************************************************************)
(* Induction over the positions of a sequence.                             *)
(***************************************************************************)
LEMMA Least ==
    ASSUME NEW S \in SUBSET Nat, S # {}
    PROVE  \E m \in S : \A k \in S : m <= k
<1> DEFINE R == OpToRel(<, Nat)
<1>1. IsWellFoundedOn(R, Nat)
  BY NatLessThanWellFounded
<1>2. \A x, y \in Nat : <<y, x>> \in R <=> y < x
  BY DEF OpToRel
<1> HIDE DEF R
<1>3. PICK x \in S : \A y \in S : ~(<<y, x>> \in R)
  BY <1>1, WFMin, Zenon
<1>4. \A y \in S : ~(y < x)
  BY <1>2, <1>3
<1>5. \A y \in S : x <= y
  BY <1>4
<1> QED BY <1>5

LEMMA UpTo ==
    ASSUME NEW n \in Nat, NEW S, 0 \in S, \A i \in 0..n : i < n /\ i \in S => i + 1 \in S
    PROVE  0..n \subseteq S
<1> DEFINE Bad == {i \in 0..n : i \notin S}
<1> SUFFICES ASSUME Bad # {} PROVE FALSE
  OBVIOUS
<1>1. Bad \in SUBSET Nat
  OBVIOUS
<1>2. PICK m \in Bad : \A k \in Bad : m <= k
  BY <1>1, Least
<1>3. m \in 0..n /\ m \notin S /\ m # 0
  OBVIOUS
<1>4. m - 1 \in 0..n /\ m - 1 < n /\ ~(m <= m - 1) /\ (m - 1) + 1 = m
  BY <1>3
<1>5. m - 1 \in S
  BY <1>2, <1>4
<1> QED BY <1>3, <1>4, <1>5

-----------------------------------------------------------------------------
(***************************************************************************)
(* What events_since selects.                                              *)
(***************************************************************************)
Kept(q, e, sequence) == IF e.sequence > sequence THEN Append(q, e) ELSE q

KeptBy(kept, sequence) ==
    kept = [i \in 0..Len(events) |-> IF i = 0 THEN <<>>
                                     ELSE Kept(kept[i - 1], events[i], sequence)]

\* The recursion of events_since has a solution.
LEMMA KeptExists ==
    ASSUME events \in Seq(Envelopes), NEW sequence \in Nat
    PROVE  \E kept : KeptBy(kept, sequence)
<1> DEFINE Upto(m, f) == f = [i \in 0..m |-> IF i = 0 THEN <<>>
                                             ELSE Kept(f[i - 1], events[i], sequence)]
           n == Len(events)
           S == {m \in 0..n : \E f : Upto(m, f)}
<1>1. n \in Nat
  OBVIOUS
<1>2. 0 \in S
  <2>1. Upto(0, [i \in 0..0 |-> <<>>])
    OBVIOUS
  <2>2. \E f : Upto(0, f)
    BY <2>1, Zenon
  <2>3. 0 \in 0..n
    BY <1>1
  <2> QED BY <2>2, <2>3
<1>3. ASSUME NEW m \in 0..n, m < n, m \in S
      PROVE  m + 1 \in S
  <2>1. PICK f : Upto(m, f)
    BY <1>3
  <2> DEFINE g == [i \in 0..(m + 1) |-> IF i = m + 1 THEN Kept(f[m], events[m + 1], sequence)
                                        ELSE f[i]]
  <2>2. \A i \in 0..m : f[i] = IF i = 0 THEN <<>> ELSE Kept(f[i - 1], events[i], sequence)
    BY <2>1
  <2> HIDE DEF Upto
  <2>3. \A i \in 0..(m + 1) : g[i] = IF i = 0 THEN <<>> ELSE Kept(g[i - 1], events[i], sequence)
    <3> TAKE i \in 0..(m + 1)
    <3>1. CASE i = m + 1
      <4>1. i # 0 /\ i - 1 = m /\ m \in 0..(m + 1) /\ m # m + 1
        BY <3>1, <1>1
      <4>2. g[i] = Kept(f[m], events[m + 1], sequence) /\ g[i - 1] = f[m]
        BY <3>1, <4>1
      <4> QED BY <3>1, <4>1, <4>2
    <3>2. CASE i # m + 1
      <4>1. i \in 0..m /\ (i # 0 => i - 1 \in 0..m)
        BY <3>2, <1>1
      <4>2. g[i] = f[i] /\ (i # 0 => g[i - 1] = f[i - 1])
        BY <3>2, <4>1, <1>1
      <4> QED BY <2>2, <4>1, <4>2
    <3> QED BY <3>1, <3>2
  <2>4. Upto(m + 1, g)
    <3>1. g = [i \in 0..(m + 1) |-> g[i]]
      OBVIOUS
    <3> HIDE DEF g
    <3> QED BY <2>3, <3>1 DEF Upto
  <2>5. m + 1 \in 0..n
    BY <1>1, <1>3
  <2> HIDE DEF g
  <2> QED BY <2>4, <2>5
<1>4. n \in S
  <2> HIDE DEF S
  <2>1. 0..n \subseteq S
    BY <1>1, <1>2, <1>3, UpTo
  <2> QED BY <2>1, <1>1
<1> QED BY <1>4 DEF KeptBy

LEMMA SinceKept ==
    ASSUME events \in Seq(Envelopes), NEW sequence \in Nat
    PROVE  \E kept : KeptBy(kept, sequence) /\ events_since(sequence) = kept[Len(events)]
<1> DEFINE kept[i \in 0..Len(events)] ==
             IF i = 0 THEN <<>>
             ELSE IF events[i].sequence > sequence THEN Append(kept[i - 1], events[i])
                  ELSE kept[i - 1]
<1>1. \E f : f = [i \in 0..Len(events) |->
                    IF i = 0 THEN <<>>
                    ELSE IF events[i].sequence > sequence THEN Append(f[i - 1], events[i])
                         ELSE f[i - 1]]
  BY KeptExists, Zenon DEF KeptBy, Kept
<1>2. kept = [i \in 0..Len(events) |->
                IF i = 0 THEN <<>>
                ELSE IF events[i].sequence > sequence THEN Append(kept[i - 1], events[i])
                     ELSE kept[i - 1]]
  BY <1>1, Zenon
<1>3. events_since(sequence) = kept[Len(events)]
  BY Zenon DEF events_since
<1> HIDE DEF kept
<1>4. KeptBy(kept, sequence)
  BY <1>2, Zenon DEF KeptBy, Kept
<1> QED BY <1>3, <1>4

\* The trailing events, in their order, and all of them.
SelectedFrom(q, m, sequence) ==
    /\ q \in Seq(Envelopes)
    /\ \A i \in DOMAIN q : q[i].sequence > sequence /\ \E p \in 1..m : q[i] = events[p]
    /\ \A i, j \in DOMAIN q : i < j => \E p, r \in 1..m : p < r /\ q[i] = events[p] /\ q[j] = events[r]
    /\ \A p \in 1..m : events[p].sequence > sequence => \E i \in DOMAIN q : q[i] = events[p]

LEMMA KeptStep ==
    ASSUME events \in Seq(Envelopes), NEW sequence \in Nat, NEW m \in Nat, m < Len(events),
           NEW q, SelectedFrom(q, m, sequence)
    PROVE  SelectedFrom(Kept(q, events[m + 1], sequence), m + 1, sequence)
<1> DEFINE e == events[m + 1]
           r == Append(q, e)
<1>1. e \in Envelopes /\ q \in Seq(Envelopes) /\ 1..m \subseteq 1..(m + 1) /\ m + 1 \in 1..(m + 1)
      /\ \A p \in 1..(m + 1) : p = m + 1 \/ p \in 1..m
  BY DEF SelectedFrom
<1>2. CASE ~(e.sequence > sequence)
  <2>1. Kept(q, e, sequence) = q
    BY <1>2 DEF Kept
  <2>2. SelectedFrom(q, m + 1, sequence)
    <3>1. \A p \in 1..(m + 1) : events[p].sequence > sequence => \E i \in DOMAIN q : q[i] = events[p]
      BY <1>1, <1>2 DEF SelectedFrom
    <3>2. \A i \in DOMAIN q : q[i].sequence > sequence /\ \E p \in 1..(m + 1) : q[i] = events[p]
      BY <1>1 DEF SelectedFrom
    <3>3. \A i, j \in DOMAIN q : i < j => \E p, t \in 1..(m + 1) : p < t /\ q[i] = events[p] /\ q[j] = events[t]
      BY <1>1 DEF SelectedFrom
    <3> QED BY <1>1, <3>1, <3>2, <3>3 DEF SelectedFrom
  <2> QED BY <2>1, <2>2
<1>3. CASE e.sequence > sequence
  <2>1. Kept(q, e, sequence) = r
    BY <1>3 DEF Kept
  <2>2. /\ r \in Seq(Envelopes) /\ DOMAIN r = 1..(Len(q) + 1) /\ r[Len(q) + 1] = e
        /\ Len(q) \in Nat /\ DOMAIN q = 1..Len(q) /\ \A i \in DOMAIN q : r[i] = q[i]
    BY <1>1
  <2> HIDE DEF r
  <2>3. \A i \in DOMAIN r : i = Len(q) + 1 \/ i \in DOMAIN q
    BY <2>2
  <2>4. \A i \in DOMAIN q : q[i].sequence > sequence /\ \E p \in 1..m : q[i] = events[p]
    BY DEF SelectedFrom
  <2>5. \A i \in DOMAIN r : r[i].sequence > sequence /\ \E p \in 1..(m + 1) : r[i] = events[p]
    BY <1>1, <1>3, <2>2, <2>3, <2>4
  <2>6. ASSUME NEW i \in DOMAIN r, NEW j \in DOMAIN r, i < j
        PROVE  \E p, t \in 1..(m + 1) : p < t /\ r[i] = events[p] /\ r[j] = events[t]
    <3>1. i \in DOMAIN q /\ r[i] = q[i]
      BY <2>2, <2>6
    <3>2. CASE j \in DOMAIN q
      <4>1. PICK p \in 1..m, t \in 1..m : p < t /\ q[i] = events[p] /\ q[j] = events[t]
        BY <2>6, <3>1, <3>2 DEF SelectedFrom
      <4>2. r[j] = q[j] /\ p \in 1..(m + 1) /\ t \in 1..(m + 1)
        BY <2>2, <3>2, <1>1
      <4> QED BY <3>1, <4>1, <4>2
    <3>3. CASE j = Len(q) + 1
      <4>1. PICK p \in 1..m : q[i] = events[p]
        BY <2>4, <3>1
      <4>2. p < m + 1 /\ p \in 1..(m + 1)
        OBVIOUS
      <4> QED BY <1>1, <2>2, <3>1, <3>3, <4>1, <4>2
    <3> QED BY <2>3, <3>2, <3>3
  <2>7. \A p \in 1..(m + 1) : events[p].sequence > sequence => \E i \in DOMAIN r : r[i] = events[p]
    <3> SUFFICES ASSUME NEW p \in 1..(m + 1), events[p].sequence > sequence
                 PROVE  \E i \in DOMAIN r : r[i] = events[p]
      OBVIOUS
    <3>1. CASE p = m + 1
      BY <2>2, <3>1
    <3>2. CASE p \in 1..m
      <4>1. PICK i \in DOMAIN q : q[i] = events[p]
        BY <3>2 DEF SelectedFrom
      <4> QED BY <2>2, <4>1
    <3> QED BY <1>1, <3>1, <3>2
  <2>8. SelectedFrom(r, m + 1, sequence)
    BY <2>2, <2>5, <2>6, <2>7 DEF SelectedFrom
  <2> QED BY <2>1, <2>8
<1> QED BY <1>2, <1>3

\* events_since returns the stored events above a number, each once and in
\* the order of the log.
LEMMA SinceSelects ==
    ASSUME events \in Seq(Envelopes), NEW sequence \in Nat
    PROVE  SelectedFrom(events_since(sequence), Len(events), sequence)
<1>1. PICK kept : KeptBy(kept, sequence) /\ events_since(sequence) = kept[Len(events)]
  BY SinceKept
<1> DEFINE n == Len(events)
           S == {m \in 0..n : SelectedFrom(kept[m], m, sequence)}
<1>2. n \in Nat
  OBVIOUS
<1>3. \A i \in 0..n : kept[i] = IF i = 0 THEN <<>> ELSE Kept(kept[i - 1], events[i], sequence)
  BY <1>1 DEF KeptBy
<1>4. 0 \in S
  <2>1. kept[0] = <<>> /\ 0 \in 0..n
    BY <1>2, <1>3
  <2>2. SelectedFrom(<<>>, 0, sequence)
    BY DEF SelectedFrom
  <2> QED BY <2>1, <2>2
<1>5. ASSUME NEW m \in 0..n, m < n, m \in S
      PROVE  m + 1 \in S
  <2>1. m + 1 \in 0..n /\ m + 1 # 0 /\ (m + 1) - 1 = m /\ m \in Nat
    BY <1>2, <1>5
  <2>2. kept[m + 1] = Kept(kept[m], events[m + 1], sequence)
    BY <1>3, <2>1
  <2>3. SelectedFrom(kept[m], m, sequence)
    BY <1>5
  <2> QED BY <1>5, <2>1, <2>2, <2>3, KeptStep
<1>6. n \in S
  <2> HIDE DEF S
  <2>1. 0..n \subseteq S
    BY <1>2, <1>4, <1>5, UpTo
  <2> QED BY <2>1, <1>2
<1> QED BY <1>1, <1>6

-----------------------------------------------------------------------------
(***************************************************************************)
(* What a restore makes of the trailing events.                            *)
(***************************************************************************)
Start == [ok |-> TRUE, sequence |-> snapshot.sequence, agents |-> snapshot.agents]

ReplayedBy(replay, trailing) ==
    replay = [i \in 0..Len(trailing) |-> IF i = 0 THEN Start
                                         ELSE apply_event(replay[i - 1], trailing[i])]

\* The recursion of load_snapshot has a solution.
LEMMA ReplayExists ==
    ASSUME NEW trailing \in Seq(Envelopes)
    PROVE  \E replay : ReplayedBy(replay, trailing)
<1> DEFINE Upto(m, f) == f = [i \in 0..m |-> IF i = 0 THEN Start
                                             ELSE apply_event(f[i - 1], trailing[i])]
           n == Len(trailing)
           S == {m \in 0..n : \E f : Upto(m, f)}
<1>1. n \in Nat
  OBVIOUS
<1>2. 0 \in S
  <2>1. Upto(0, [i \in 0..0 |-> Start])
    OBVIOUS
  <2>2. \E f : Upto(0, f)
    BY <2>1, Zenon
  <2>3. 0 \in 0..n
    BY <1>1
  <2> QED BY <2>2, <2>3
<1>3. ASSUME NEW m \in 0..n, m < n, m \in S
      PROVE  m + 1 \in S
  <2>1. PICK f : Upto(m, f)
    BY <1>3
  <2> DEFINE g == [i \in 0..(m + 1) |-> IF i = m + 1 THEN apply_event(f[m], trailing[m + 1])
                                        ELSE f[i]]
  <2>2. \A i \in 0..m : f[i] = IF i = 0 THEN Start ELSE apply_event(f[i - 1], trailing[i])
    BY <2>1
  <2> HIDE DEF Upto
  <2>3. \A i \in 0..(m + 1) : g[i] = IF i = 0 THEN Start ELSE apply_event(g[i - 1], trailing[i])
    <3> TAKE i \in 0..(m + 1)
    <3>1. CASE i = m + 1
      <4>1. i # 0 /\ i - 1 = m /\ m \in 0..(m + 1) /\ m # m + 1
        BY <3>1, <1>1
      <4>2. g[i] = apply_event(f[m], trailing[m + 1]) /\ g[i - 1] = f[m]
        BY <3>1, <4>1
      <4> QED BY <3>1, <4>1, <4>2
    <3>2. CASE i # m + 1
      <4>1. i \in 0..m /\ (i # 0 => i - 1 \in 0..m)
        BY <3>2, <1>1
      <4>2. g[i] = f[i] /\ (i # 0 => g[i - 1] = f[i - 1])
        BY <3>2, <4>1, <1>1
      <4> QED BY <2>2, <4>1, <4>2
    <3> QED BY <3>1, <3>2
  <2>4. Upto(m + 1, g)
    <3>1. g = [i \in 0..(m + 1) |-> g[i]]
      OBVIOUS
    <3> HIDE DEF g
    <3> QED BY <2>3, <3>1 DEF Upto
  <2>5. m + 1 \in 0..n
    BY <1>1, <1>3
  <2> HIDE DEF g
  <2> QED BY <2>4, <2>5
<1>4. n \in S
  <2> HIDE DEF S
  <2>1. 0..n \subseteq S
    BY <1>1, <1>2, <1>3, UpTo
  <2> QED BY <2>1, <1>1
<1> QED BY <1>4 DEF ReplayedBy

LEMMA LoadReplays ==
    ASSUME events \in Seq(Envelopes), snapshot \in Snapshots
    PROVE  LET trailing == events_since(snapshot.sequence)
           IN  \E replay : ReplayedBy(replay, trailing) /\ load_snapshot = replay[Len(trailing)]
<1> DEFINE trailing == events_since(snapshot.sequence)
<1>1. trailing \in Seq(Envelopes)
  <2>1. snapshot.sequence \in Nat
    BY DEF Snapshots
  <2> QED BY <2>1, SinceSelects DEF SelectedFrom
<1> DEFINE replay[i \in 0..Len(trailing)] ==
             IF i = 0
             THEN [ok |-> TRUE, sequence |-> snapshot.sequence, agents |-> snapshot.agents]
             ELSE apply_event(replay[i - 1], trailing[i])
<1>2. load_snapshot = replay[Len(trailing)]
  BY Zenon DEF load_snapshot
<1>3. \E f : f = [i \in 0..Len(trailing) |->
                    IF i = 0
                    THEN [ok |-> TRUE, sequence |-> snapshot.sequence, agents |-> snapshot.agents]
                    ELSE apply_event(f[i - 1], trailing[i])]
  BY <1>1, ReplayExists, Zenon DEF ReplayedBy, Start
<1>4. replay = [i \in 0..Len(trailing) |->
                  IF i = 0
                  THEN [ok |-> TRUE, sequence |-> snapshot.sequence, agents |-> snapshot.agents]
                  ELSE apply_event(replay[i - 1], trailing[i])]
  BY <1>3, Zenon
<1> HIDE DEF replay
<1>5. ReplayedBy(replay, trailing)
  BY <1>4, Zenon DEF ReplayedBy, Start
<1> QED BY <1>2, <1>5, Zenon

LEMMA Fields ==
    /\ \A e \in Envelopes : /\ e.agent \in Agents /\ e.kind \in Kinds /\ e.to \in Statuses
                            /\ e.step \in Nat /\ e.sequence \in Nat
    /\ \A s \in Snapshots : s.sequence \in Nat /\ s.agents \in [Agents -> AgentStates]
    /\ \A s \in AgentStates : s.step \in Nat
BY DEF Envelopes, Snapshots, AgentStates

\* One event of the replay changes its own agent, and moves it to its step.
LEMMA AppliedEvent ==
    ASSUME NEW r, r.agents \in [Agents -> AgentStates], NEW e \in Envelopes
    PROVE  LET after == apply_event(r, e).agents
           IN  /\ after \in [Agents -> AgentStates] /\ after[e.agent].step = e.step
               /\ \A a \in Agents : a # e.agent => after[a] = r.agents[a]
<1> DEFINE at == r.agents[e.agent]
           changed == [status |-> IF e.kind = "StateChanged" THEN e.to ELSE at.status,
                       active_run |-> CASE e.kind = "RunStarted" -> TRUE
                                        [] is_terminal(e)        -> FALSE
                                        [] OTHER                 -> at.active_run,
                       step |-> e.step]
           after == apply_event(r, e).agents
<1>1. after = [r.agents EXCEPT ![e.agent] = changed]
  BY Zenon DEF apply_event
<1>2. e.agent \in Agents /\ at \in AgentStates /\ e.to \in Statuses /\ e.step \in Nat
  BY DEF Envelopes
<1>3. (CASE e.kind = "RunStarted" -> TRUE [] is_terminal(e) -> FALSE [] OTHER -> at.active_run) \in BOOLEAN
  BY <1>2 DEF AgentStates
<1>4. changed \in AgentStates /\ changed.step = e.step
  BY <1>2, <1>3 DEF AgentStates
<1> HIDE DEF changed, after
<1>5. /\ after \in [Agents -> AgentStates] /\ after[e.agent].step = e.step
      /\ \A a \in Agents : a # e.agent => after[a] = r.agents[a]
  BY <1>1, <1>2, <1>4
<1> QED BY <1>5 DEF after

\* A restored agent has gone as far as every event of its own in the store,
\* those the snapshot hides included.
LEMMA RestoredKeepUp ==
    ASSUME LogTypeOK, StepInv, StoredInOrder, CommittedIsRemembered
    PROVE  /\ load_snapshot.agents \in [Agents -> AgentStates]
           /\ \A p \in DOMAIN events :
                load_snapshot.agents[events[p].agent].step >= events[p].step
<1> DEFINE T == events_since(snapshot.sequence)
           N == Len(events)
<1>1. /\ events \in Seq(Envelopes) /\ snapshot \in Snapshots /\ snapshot.sequence \in Nat
      /\ snapshot.agents \in [Agents -> AgentStates] /\ DOMAIN events = 1..N /\ N \in Nat
      /\ \A p \in DOMAIN events : /\ events[p] \in Envelopes /\ events[p].agent \in Agents
                                  /\ events[p].step \in Nat /\ events[p].sequence \in Nat
  <2>1. events \in Seq(Envelopes) /\ snapshot \in Snapshots
    BY DEF LogTypeOK
  <2>2. DOMAIN events = 1..N /\ N \in Nat /\ \A p \in DOMAIN events : events[p] \in Envelopes
    BY <2>1
  <2> QED BY <2>1, <2>2, Fields
<1>2. SelectedFrom(T, N, snapshot.sequence)
  BY <1>1, SinceSelects
<1>3. PICK replay : ReplayedBy(replay, T) /\ load_snapshot = replay[Len(T)]
  BY <1>1, LoadReplays
<1> HIDE DEF T
<1>4. T \in Seq(Envelopes) /\ Len(T) \in Nat /\ DOMAIN T = 1..Len(T)
      /\ \A j \in DOMAIN T : T[j] \in Envelopes /\ T[j].agent \in Agents /\ T[j].step \in Nat
  <2>1. T \in Seq(Envelopes)
    BY <1>2 DEF SelectedFrom
  <2>2. Len(T) \in Nat /\ DOMAIN T = 1..Len(T) /\ \A j \in DOMAIN T : T[j] \in Envelopes
    BY <2>1
  <2> QED BY <2>1, <2>2, Fields
<1>5. \A i, j \in DOMAIN T : i < j /\ T[i].agent = T[j].agent => T[i].step <= T[j].step
  <2> SUFFICES ASSUME NEW i \in DOMAIN T, NEW j \in DOMAIN T, i < j, T[i].agent = T[j].agent
               PROVE  T[i].step <= T[j].step
    OBVIOUS
  <2>1. PICK p \in 1..N, r \in 1..N : p < r /\ T[i] = events[p] /\ T[j] = events[r]
    BY <1>2 DEF SelectedFrom
  <2> QED BY <1>1, <2>1, SMTT(30) DEF StepInv
<1> DEFINE Follows(m) ==
             /\ replay[m].agents \in [Agents -> AgentStates]
             /\ \A a \in Agents :
                  /\ \A j \in 1..m : T[j].agent = a => replay[m].agents[a].step >= T[j].step
                  /\ (\A j \in 1..m : T[j].agent # a) => replay[m].agents[a] = snapshot.agents[a]
           S == {m \in 0..Len(T) : Follows(m)}
<1>6. \A i \in 0..Len(T) : replay[i] = IF i = 0 THEN Start ELSE apply_event(replay[i - 1], T[i])
  BY <1>3 DEF ReplayedBy
<1>7. 0 \in S
  <2>1. replay[0] = Start /\ Start.agents = snapshot.agents /\ 0 \in 0..Len(T)
    <3>1. 0 \in 0..Len(T)
      BY <1>4
    <3> QED BY <1>6, <3>1 DEF Start
  <2>2. Follows(0)
    BY <1>1, <2>1
  <2> QED BY <2>1, <2>2
<1>8. ASSUME NEW m \in 0..Len(T), m < Len(T), m \in S
      PROVE  m + 1 \in S
  <2>1. m + 1 \in 0..Len(T) /\ m + 1 # 0 /\ (m + 1) - 1 = m /\ m + 1 \in DOMAIN T
        /\ \A j \in 1..(m + 1) : j = m + 1 \/ (j \in 1..m /\ j \in DOMAIN T /\ j < m + 1)
    BY <1>4, <1>8
  <2> DEFINE e == T[m + 1]
             before == replay[m].agents
             after == replay[m + 1].agents
  <2>2. replay[m + 1] = apply_event(replay[m], e) /\ e \in Envelopes /\ e.agent \in Agents /\ e.step \in Nat
    BY <1>4, <1>6, <2>1
  <2>3. Follows(m)
    BY <1>8
  <2>4. /\ after \in [Agents -> AgentStates] /\ after[e.agent].step = e.step
        /\ \A a \in Agents : a # e.agent => after[a] = before[a]
    BY <2>2, <2>3, AppliedEvent
  <2> HIDE DEF after, before
  <2>5. ASSUME NEW a \in Agents, NEW j \in 1..(m + 1), T[j].agent = a
        PROVE  after[a].step >= T[j].step
    <3>1. CASE a = e.agent
      <4>1. T[j].step <= e.step
        BY <1>4, <1>5, <2>1, <2>2, <2>5, <3>1, SMTT(30)
      <4>2. T[j].step \in Nat
        BY <1>4, <2>1
      <4> QED BY <2>2, <2>4, <3>1, <4>1, <4>2
    <3>2. CASE a # e.agent
      <4>1. j \in 1..m
        BY <2>1, <2>5, <3>2
      <4> QED BY <2>3, <2>4, <2>5, <3>2, <4>1 DEF before
    <3> QED BY <3>1, <3>2
  <2>6. ASSUME NEW a \in Agents, \A j \in 1..(m + 1) : T[j].agent # a
        PROVE  after[a] = snapshot.agents[a]
    <3>1. a # e.agent /\ \A j \in 1..m : j \in 1..(m + 1)
      BY <2>1, <2>6
    <3> QED BY <2>3, <2>4, <2>6, <3>1 DEF before
  <2> QED BY <2>1, <2>4, <2>5, <2>6 DEF after
<1>9. Follows(Len(T))
  <2> HIDE DEF S, Follows
  <2>1. 0..Len(T) \subseteq S
    BY <1>4, <1>7, <1>8, UpTo
  <2> QED BY <2>1, <1>4 DEF S
<1>10. ASSUME NEW p \in DOMAIN events
       PROVE  load_snapshot.agents[events[p].agent].step >= events[p].step
  <2> DEFINE e == events[p]
             a == e.agent
             final == load_snapshot.agents
  <2>1. a \in Agents /\ e.step \in Nat /\ e.sequence \in Nat /\ final[a].step \in Nat
    BY <1>1, <1>3, <1>9 DEF AgentStates
  <2>2. CASE e.sequence > snapshot.sequence
    <3>1. PICK i \in DOMAIN T : T[i] = e
      BY <1>1, <1>2, <2>2 DEF SelectedFrom
    <3> QED BY <1>3, <1>4, <1>9, <2>1, <3>1
  <2>3. CASE e.sequence <= snapshot.sequence /\ \A j \in DOMAIN T : T[j].agent # a
    <3>1. final[a] = snapshot.agents[a]
      BY <1>3, <1>4, <1>9, <2>1, <2>3
    <3>2. e \in Stored
      BY DEF Stored, ToSet
    <3>3. snapshot.agents[a].step >= e.step
      BY <2>3, <3>2 DEF CommittedIsRemembered
    <3> QED BY <3>1, <3>3
  <2>4. CASE e.sequence <= snapshot.sequence /\ \E j \in DOMAIN T : T[j].agent = a
    <3>1. PICK j \in DOMAIN T : T[j].agent = a
      BY <2>4
    <3>2. PICK r \in 1..N : T[j] = events[r]
      BY <1>2, <3>1 DEF SelectedFrom
    <3>3. T[j].sequence > snapshot.sequence
      BY <1>2, <3>1 DEF SelectedFrom
    <3>4. p < r
      <4>1. events[p].sequence < events[r].sequence /\ r \in DOMAIN events
        BY <1>1, <2>1, <2>4, <3>2, <3>3
      <4>2. ~(r < p) /\ r # p
        BY <1>1, <2>1, <4>1 DEF StoredInOrder
      <4> QED BY <1>1, <4>2
    <3>5. e.step <= T[j].step
      BY <1>1, <3>1, <3>2, <3>4 DEF StepInv
    <3>6. final[a].step >= T[j].step /\ T[j].step \in Nat
      BY <1>3, <1>4, <1>9, <2>1, <3>1
    <3> QED BY <2>1, <3>5, <3>6
  <2> QED BY <1>1, <2>1, <2>2, <2>3, <2>4
<1> QED BY <1>3, <1>9, <1>10

-----------------------------------------------------------------------------
(***************************************************************************)
(* The sequencer.                                                          *)
(***************************************************************************)
LEMMA Pieces ==
    ASSUME LogTypeOK
    PROVE  /\ \A i \in DOMAIN events : /\ events[i] \in Envelopes /\ events[i].agent \in Agents
                                       /\ events[i].step \in Nat /\ events[i].sequence \in Nat
           /\ Len(events) \in Nat /\ DOMAIN events = 1..Len(events)
           /\ \A s \in saving \cup {snapshot} :
                s.sequence \in Nat /\ s.agents \in [Agents -> AgentStates]
           /\ Settled \subseteq Nat
           /\ \A a \in Agents : /\ agent[a] \in AgentStates /\ agent[a].step \in Nat
                                /\ outbox[a] \in Seq(Envelopes)
<1>1. events \in Seq(Envelopes) /\ saving \cup {snapshot} \subseteq Snapshots /\ requested \subseteq Nat
  BY DEF LogTypeOK
<1>2. \A i \in DOMAIN events : /\ events[i] \in Envelopes /\ events[i].agent \in Agents
                               /\ events[i].step \in Nat /\ events[i].sequence \in Nat
  BY <1>1, Fields
<1>3. \A s \in saving \cup {snapshot} : s.sequence \in Nat /\ s.agents \in [Agents -> AgentStates]
  BY <1>1, Fields
<1>4. \A a \in Agents : /\ agent[a] \in AgentStates /\ agent[a].step \in Nat
                        /\ outbox[a] \in Seq(Envelopes)
  BY Fields DEF LogTypeOK
<1>5. Settled \subseteq Nat
  <2> SUFFICES ASSUME NEW n \in Settled PROVE n \in Nat
    OBVIOUS
  <2> QED BY <1>1, <1>2, <1>3 DEF Settled
<1>6. Len(events) \in Nat /\ DOMAIN events = 1..Len(events)
  BY <1>1
<1> QED BY <1>2, <1>3, <1>4, <1>5, <1>6

\* current_sequence is what the store would answer.
LEMMA TopFound ==
    ASSUME LogTypeOK, StoredInOrder
    PROVE  IsTop(current_sequence) /\ current_sequence \in Nat /\ current_sequence \in Settled
<1> DEFINE Numbers == {snapshot.sequence} \cup {events[i].sequence : i \in DOMAIN events}
<1>1. /\ Len(events) \in Nat /\ DOMAIN events = 1..Len(events) /\ snapshot.sequence \in Nat
      /\ \A i \in DOMAIN events : events[i].sequence \in Nat
  BY Pieces
<1>2. \E n \in Numbers : \A m \in Numbers : m <= n
  <2>1. CASE Len(events) = 0
    BY <1>1, <2>1
  <2>2. CASE Len(events) # 0
    <3> DEFINE last == events[Len(events)].sequence
    <3>1. Len(events) \in DOMAIN events /\ last \in Nat /\ last \in Numbers
      BY <1>1, <2>2
    <3>2. \A i \in DOMAIN events : events[i].sequence <= last
      <4> TAKE i \in DOMAIN events
      <4>1. i < Len(events) \/ i = Len(events)
        BY <1>1
      <4> QED BY <1>1, <3>1, <4>1 DEF StoredInOrder
    <3> HIDE DEF last
    <3>3. CASE snapshot.sequence <= last
      BY <3>1, <3>2, <3>3
    <3>4. CASE ~(snapshot.sequence <= last)
      <4>1. \A m \in Numbers : m <= snapshot.sequence
        BY <1>1, <3>1, <3>2, <3>4
      <4> QED BY <4>1
    <3> QED BY <3>3, <3>4
  <2> QED BY <2>1, <2>2
<1>3. current_sequence \in Numbers /\ \A m \in Numbers : m <= current_sequence
  BY <1>2 DEF current_sequence, Highest
<1>4. IsTop(current_sequence)
  BY <1>3 DEF IsTop
<1> QED BY <1>1, <1>3, <1>4 DEF Settled

\* Two numbers the store would answer are the same.
LEMMA TopUnique ==
    ASSUME LogTypeOK, NEW m \in Nat, NEW n \in Nat, IsTop(m), IsTop(n)
    PROVE  m = n
BY Pieces DEF IsTop

\* The number the next event takes is above every number in use.
LEMMA NextIsAbove ==
    ASSUME LogInv
    PROVE  /\ next_sequence \in Nat /\ \A n \in Settled : n < next_sequence
           /\ \A a \in Agents : stage[a] # "waiting" => outbox[a][1].sequence < next_sequence
<1> USE DEF LogInv
<1>1. Settled \subseteq Nat /\ next \in Nat
  BY Pieces DEF LogTypeOK
<1>2. CASE next = 0
  <2>1. next_sequence = current_sequence + 1 /\ IsTop(current_sequence) /\ current_sequence \in Nat
    BY <1>2, TopFound DEF next_sequence
  <2>2. \A n \in {s.sequence : s \in saving} \cup requested : n = current_sequence
    BY <1>1, <1>2, <2>1, TopUnique DEF NumberInv, Settled
  <2>3. \A n \in Settled : n <= current_sequence
    BY <2>1, <2>2 DEF IsTop, Settled
  <2>4. \A a \in Agents : stage[a] = "waiting"
    BY <1>2 DEF StageInv
  <2>5. \A n \in Settled : n \in Nat /\ n <= current_sequence
    BY <1>1, <2>3
  <2>6. \A n \in Settled : n < next_sequence
    BY <2>1, <2>5 DEF IsTop
  <2> QED BY <2>1, <2>4, <2>6
<1>3. CASE next # 0
  BY <1>1, <1>3 DEF next_sequence, NumberInv
<1> QED BY <1>2, <1>3

-----------------------------------------------------------------------------
(***************************************************************************)
(* The agents' commands: nothing durable changes, and the emitted events   *)
(* carry the step the command made.                                        *)
(***************************************************************************)
LEMMA CommandKeeps ==
    ASSUME LogInv, NEW a \in Agents, Resting(a),
           NEW status \in Statuses, NEW active_run \in BOOLEAN, NEW effects \in Seq(Envelopes),
           \A i \in DOMAIN effects : effects[i].agent = a /\ effects[i].step = agent[a].step + 1,
           apply_and_publish(a, status, active_run, effects)
    PROVE  LogInv'
<1> DEFINE changed == [status |-> status, active_run |-> active_run, step |-> agent[a].step + 1]
<1>1. /\ LogTypeOK /\ DownInv /\ StageInv /\ StepInv /\ NumberInv
      /\ StoredInOrder /\ CommittedIsRemembered
  BY DEF LogInv
<1>2. running /\ outbox[a] = <<>> /\ stage[a] = "waiting"
  BY <1>1 DEF Resting, StageInv
<1>3. /\ agent' = [agent EXCEPT ![a] = changed] /\ projection' = [projection EXCEPT ![a] = changed]
      /\ outbox' = [outbox EXCEPT ![a] = effects]
      /\ UNCHANGED <<running, epoch, alive, stage, next, appends, events, snapshot, saving,
                     requested, checkpoints>>
  BY DEF apply_and_publish
<1>4. agent \in [Agents -> AgentStates] /\ projection \in [Agents -> AgentStates]
      /\ outbox \in [Agents -> Seq(Envelopes)] /\ agent[a].step \in Nat
  BY <1>1, Pieces DEF LogTypeOK
<1>5. changed \in AgentStates /\ changed.step = agent[a].step + 1
  BY <1>4 DEF AgentStates
<1> HIDE DEF changed
<1>6. /\ agent'[a] = changed /\ \A b \in Agents : b # a => agent'[b] = agent[b]
      /\ outbox'[a] = effects /\ \A b \in Agents : b # a => outbox'[b] = outbox[b]
      /\ agent' \in [Agents -> AgentStates] /\ projection' \in [Agents -> AgentStates]
      /\ outbox' \in [Agents -> Seq(Envelopes)]
  BY <1>3, <1>4, <1>5
<1>7. LogTypeOK'
  BY <1>1, <1>3, <1>6 DEF LogTypeOK
<1>8. DownInv'
  BY <1>2, <1>3 DEF DownInv
<1>9. StageInv'
  BY <1>1, <1>2, <1>3, <1>6 DEF StageInv
<1>10. StepInv'
  <2>1. projection' = agent'
    BY <1>1, <1>2, <1>3 DEF StepInv
  <2>2. ASSUME NEW b \in Agents, NEW i \in DOMAIN outbox'[b]
        PROVE  outbox'[b][i].agent = b /\ outbox'[b][i].step = agent'[b].step
    <3>1. CASE b = a
      BY <1>5, <1>6, <2>2, <3>1
    <3>2. CASE b # a
      <4>1. outbox'[b] = outbox[b] /\ agent'[b] = agent[b]
        BY <1>6, <3>2
      <4>2. \A j \in DOMAIN outbox[b] : outbox[b][j].agent = b /\ outbox[b][j].step = agent[b].step
        BY <1>1 DEF StepInv
      <4> QED BY <2>2, <4>1, <4>2
    <3> QED BY <3>1, <3>2
  <2>3. \A i, j \in DOMAIN events' :
          i < j /\ events'[i].agent = events'[j].agent => events'[i].step <= events'[j].step
    BY <1>1, <1>3 DEF StepInv
  <2> QED BY <2>1, <2>2, <2>3 DEF StepInv
<1>11. NumberInv'
  <2>1. Settled' = Settled /\ \A n \in Nat : IsTop(n)' <=> IsTop(n)
    BY <1>3 DEF Settled, IsTop
  <2>2. \A b \in Agents : stage[b] # "waiting" => outbox'[b] = outbox[b] /\ stage'[b] = stage[b]
    BY <1>2, <1>3, <1>6
  <2>3. next' = 0 => \A n \in {s.sequence : s \in saving'} \cup requested' : IsTop(n)'
    BY <1>1, <1>3 DEF NumberInv, IsTop
  <2>4. next' > 0 => /\ \A n \in Settled' : n < next'
                     /\ \A b \in Agents : stage'[b] # "waiting" => outbox'[b][1].sequence < next'
    BY <1>1, <1>3, <2>1, <2>2 DEF NumberInv
  <2>5. ASSUME NEW b \in Agents, stage'[b] = "numbered"
        PROVE  /\ \A n \in Settled' : n < outbox'[b][1].sequence
               /\ \A c \in Agents : stage'[c] = "committed" =>
                    outbox'[c][1].sequence < outbox'[b][1].sequence
    BY <1>1, <1>3, <2>1, <2>2, <2>5 DEF NumberInv
  <2> QED BY <2>3, <2>4, <2>5 DEF NumberInv
<1>12. StoredInOrder'
  BY <1>1, <1>3 DEF StoredInOrder
<1>13. CommittedIsRemembered'
  <2>1. Stored' = Stored /\ saving' = saving /\ snapshot' = snapshot /\ running' = running
    BY <1>3 DEF Stored
  <2>2. \A e \in Stored : e.agent \in Agents /\ e.step \in Nat /\ agent[e.agent].step \in Nat
    BY <1>1, Pieces DEF Stored, ToSet
  <2>3. \A b \in Agents : agent'[b].step = agent[b].step \/ agent'[b].step = agent[b].step + 1
    BY <1>5, <1>6
  <2>4. \A e \in Stored : agent[e.agent].step >= e.step => agent'[e.agent].step >= e.step
    BY <2>2, <2>3
  <2> QED BY <1>1, <2>1, <2>4 DEF CommittedIsRemembered
<1> QED BY <1>7, <1>8, <1>9, <1>10, <1>11, <1>12, <1>13 DEF LogInv

\* The events of a command.
LEMMA Emitted ==
    ASSUME LogTypeOK, NEW a \in Agents, NEW k \in Kinds, NEW s \in Statuses, NEW t \in Statuses
    PROVE  /\ Event(a, k, s, t) \in Envelopes
           /\ Event(a, k, s, t).agent = a /\ Event(a, k, s, t).step = agent[a].step + 1
<1>1. agent[a].step + 1 \in Nat /\ epoch \in Nat
  BY Pieces DEF LogTypeOK
<1> QED BY <1>1 DEF Event, Envelopes

LEMMA TwoEvents ==
    ASSUME LogInv, NEW a \in Agents, Resting(a), NEW status \in Statuses, NEW active_run \in BOOLEAN,
           NEW k1 \in Kinds, NEW k2 \in Kinds, NEW s1 \in Statuses, NEW s2 \in Statuses,
           NEW s3 \in Statuses, NEW s4 \in Statuses,
           apply_and_publish(a, status, active_run, <<Event(a, k1, s1, s2), Event(a, k2, s3, s4)>>)
    PROVE  LogInv'
<1> DEFINE e1 == Event(a, k1, s1, s2)
           e2 == Event(a, k2, s3, s4)
           effects == <<e1, e2>>
<1>1. LogTypeOK
  BY DEF LogInv
<1>2. /\ e1 \in Envelopes /\ e1.agent = a /\ e1.step = agent[a].step + 1
      /\ e2 \in Envelopes /\ e2.agent = a /\ e2.step = agent[a].step + 1
  BY <1>1, Emitted
<1>3. apply_and_publish(a, status, active_run, effects)
  OBVIOUS
<1> HIDE DEF e1, e2
<1>4. effects \in Seq(Envelopes) /\ \A i \in DOMAIN effects : effects[i] = e1 \/ effects[i] = e2
  BY <1>2
<1> HIDE DEF effects
<1>5. \A i \in DOMAIN effects : effects[i].agent = a /\ effects[i].step = agent[a].step + 1
  BY <1>2, <1>4
<1> QED BY <1>3, <1>4, <1>5, CommandKeeps

LEMMA OneEvent ==
    ASSUME LogInv, NEW a \in Agents, Resting(a), NEW status \in Statuses, NEW active_run \in BOOLEAN,
           NEW k1 \in Kinds, NEW s1 \in Statuses, NEW s2 \in Statuses,
           apply_and_publish(a, status, active_run, <<Event(a, k1, s1, s2)>>)
    PROVE  LogInv'
<1> DEFINE e1 == Event(a, k1, s1, s2)
           effects == <<e1>>
<1>1. LogTypeOK
  BY DEF LogInv
<1>2. e1 \in Envelopes /\ e1.agent = a /\ e1.step = agent[a].step + 1
  BY <1>1, Emitted
<1>3. apply_and_publish(a, status, active_run, effects)
  OBVIOUS
<1> HIDE DEF e1
<1>4. effects \in Seq(Envelopes) /\ \A i \in DOMAIN effects : effects[i] = e1
  BY <1>2
<1> HIDE DEF effects
<1>5. \A i \in DOMAIN effects : effects[i].agent = a /\ effects[i].step = agent[a].step + 1
  BY <1>2, <1>4
<1> QED BY <1>3, <1>4, <1>5, CommandKeeps

LEMMA CommandsKeep ==
    ASSUME LogInv, NEW a \in Agents, Command(a)
    PROVE  LogInv'
<1>1. agent[a].status \in Statuses
  BY Pieces DEF LogInv, AgentStates
<1>2. /\ "StateChanged" \in Kinds /\ "RunStarted" \in Kinds /\ "TextDelta" \in Kinds
      /\ "Completed" \in Kinds /\ "Failed" \in Kinds
      /\ "Idle" \in Statuses /\ "PreparingContext" \in Statuses /\ "Failed" \in Statuses
      /\ "Cancelled" \in Statuses /\ TRUE \in BOOLEAN /\ FALSE \in BOOLEAN
  BY DEF Kinds, Statuses
<1>3. CASE start_run(a)
  BY <1>1, <1>2, <1>3, TwoEvents, Zenon DEF start_run
<1>4. CASE StartRefused(a)
  BY <1>1, <1>2, <1>4, TwoEvents, Zenon DEF StartRefused
<1>5. CASE StartStopped(a)
  BY <1>1, <1>2, <1>5, TwoEvents, Zenon DEF StartStopped
<1>6. CASE StreamText(a)
  BY <1>1, <1>2, <1>6, OneEvent, Zenon DEF StreamText
<1>7. ASSUME NEW status \in Statuses, NEW kind \in Kinds, EndRun(a, status, kind)
      PROVE  LogInv'
  BY <1>1, <1>2, <1>7, TwoEvents, Zenon DEF EndRun
<1>8. CASE finish_success(a) \/ fail(a) \/ cancel(a)
  BY <1>2, <1>7, <1>8 DEF finish_success, fail, cancel
<1> QED BY <1>3, <1>4, <1>5, <1>6, <1>8 DEF Command

-----------------------------------------------------------------------------
(***************************************************************************)
(* The committer.                                                          *)
(***************************************************************************)
LEMMA NumberKeeps ==
    ASSUME LogInv, NEW a \in Agents, Number(a)
    PROVE  LogInv'
<1> DEFINE m == next_sequence
           e == outbox[a][1]
           numbered == [e EXCEPT !.sequence = m]
<1>1. /\ LogTypeOK /\ DownInv /\ StageInv /\ StepInv /\ NumberInv
      /\ StoredInOrder /\ CommittedIsRemembered
  BY DEF LogInv
<1>2. /\ running /\ outbox[a] # <<>> /\ stage[a] = "waiting" /\ next' = m + 1
      /\ \A b \in Agents : stage[b] # "numbered"
      /\ outbox' = [outbox EXCEPT ![a] = [outbox[a] EXCEPT ![1] = numbered]]
      /\ stage' = [stage EXCEPT ![a] = IF is_durable(e) THEN "numbered" ELSE "committed"]
      /\ UNCHANGED <<running, epoch, agent, alive, projection, appends, events, snapshot, saving,
                     requested, checkpoints>>
  BY DEF Number, commit_lock_free
<1>3. /\ m \in Nat /\ \A n \in Settled : n < m
      /\ \A b \in Agents : stage[b] # "waiting" => outbox[b][1].sequence < m
  BY NextIsAbove
<1>4. outbox \in [Agents -> Seq(Envelopes)] /\ outbox[a] \in Seq(Envelopes) /\ stage \in [Agents -> Stages]
  BY <1>1 DEF LogTypeOK
<1>5. e \in Envelopes /\ 1 \in DOMAIN outbox[a]
  BY <1>2, <1>4
<1>6. numbered \in Envelopes /\ numbered.sequence = m /\ numbered.agent = e.agent /\ numbered.step = e.step
  BY <1>3, <1>5 DEF Envelopes
<1> HIDE DEF m, numbered
<1>7. /\ outbox'[a] \in Seq(Envelopes) /\ DOMAIN outbox'[a] = DOMAIN outbox[a]
      /\ outbox'[a][1] = numbered /\ \A i \in DOMAIN outbox[a] : i # 1 => outbox'[a][i] = outbox[a][i]
  <2>1. outbox'[a] = [outbox[a] EXCEPT ![1] = numbered]
    BY <1>2, <1>4
  <2> QED BY <1>4, <1>5, <1>6, <2>1
<1>8. \A b \in Agents : b # a => outbox'[b] = outbox[b] /\ stage'[b] = stage[b]
  BY <1>2, <1>4
<1>9. outbox' \in [Agents -> Seq(Envelopes)] /\ outbox'[a] # <<>>
  BY <1>2, <1>4, <1>5, <1>7
<1>10. stage' \in [Agents -> Stages] /\ stage'[a] \in {"numbered", "committed"}
  BY <1>2, <1>4 DEF Stages
<1>11. LogTypeOK'
  BY <1>1, <1>2, <1>3, <1>9, <1>10 DEF LogTypeOK
<1>12. DownInv'
  BY <1>2 DEF DownInv
<1>13. StageInv'
  <2>1. \A b \in Agents : stage'[b] # "waiting" => outbox'[b] # <<>>
    BY <1>1, <1>8, <1>9 DEF StageInv
  <2>2. \A b, c \in Agents : stage'[b] = "numbered" /\ stage'[c] = "numbered" => b = c
    BY <1>2, <1>8
  <2>3. next' # 0
    BY <1>2, <1>3
  <2> QED BY <2>1, <2>2, <2>3 DEF StageInv
<1>14. StepInv'
  <2>1. ASSUME NEW b \in Agents, NEW i \in DOMAIN outbox'[b]
        PROVE  outbox'[b][i].agent = b /\ outbox'[b][i].step = agent'[b].step
    <3>1. CASE b # a
      BY <1>1, <1>2, <1>8, <2>1, <3>1 DEF StepInv
    <3>2. CASE b = a /\ i # 1
      BY <1>1, <1>2, <1>7, <2>1, <3>2 DEF StepInv
    <3>3. CASE b = a /\ i = 1
      BY <1>1, <1>2, <1>5, <1>6, <1>7, <3>3 DEF StepInv
    <3> QED BY <3>1, <3>2, <3>3
  <2> QED BY <1>1, <1>2, <2>1 DEF StepInv
<1>15. NumberInv'
  <2>1. Settled' = Settled /\ Settled \subseteq Nat
    BY <1>1, <1>2, Pieces DEF Settled
  <2>2. next' > 0 /\ next' = m + 1 /\ outbox'[a][1].sequence = m
    BY <1>2, <1>3, <1>6, <1>7
  <2>3. ASSUME NEW b \in Agents, b # a, stage'[b] # "waiting"
        PROVE  outbox'[b][1].sequence < m /\ outbox'[b][1].sequence \in Nat
    <3>1. outbox'[b] = outbox[b] /\ stage[b] # "waiting" /\ outbox[b] # <<>> /\ outbox[b] \in Seq(Envelopes)
      BY <1>1, <1>4, <1>8, <2>3 DEF StageInv
    <3>2. outbox[b][1] \in Envelopes
      BY <3>1
    <3> QED BY <1>3, <3>1, <3>2, Fields
  <2>4. \A b \in Agents : stage'[b] # "waiting" => outbox'[b][1].sequence < next'
    BY <1>3, <2>2, <2>3
  <2>5. \A n \in Settled' : n < next'
    <3>1. \A n \in Settled : n \in Nat /\ n < m
      BY <1>3, <2>1
    <3> QED BY <1>3, <2>1, <2>2, <3>1
  <2>6. ASSUME NEW b \in Agents, stage'[b] = "numbered"
        PROVE  /\ \A n \in Settled' : n < outbox'[b][1].sequence
               /\ \A c \in Agents : stage'[c] = "committed" =>
                    outbox'[c][1].sequence < outbox'[b][1].sequence
    <3>1. b = a
      BY <1>2, <1>8, <2>6
    <3>2. \A c \in Agents : stage'[c] = "committed" => c # a
      BY <2>6, <3>1
    <3> QED BY <1>3, <2>1, <2>2, <2>3, <3>1, <3>2
  <2>7. next' # 0
    BY <2>2
  <2> QED BY <2>4, <2>5, <2>6, <2>7 DEF NumberInv
<1>16. StoredInOrder'
  BY <1>1, <1>2 DEF StoredInOrder
<1>17. CommittedIsRemembered'
  BY <1>1, <1>2 DEF CommittedIsRemembered, Stored
<1> QED BY <1>11, <1>12, <1>13, <1>14, <1>15, <1>16, <1>17 DEF LogInv

\* A snapshot of the projection has gone as far as every stored event.
LEMMA SnapshotRemembers ==
    ASSUME LogInv, running, NEW n
    PROVE  \A e \in Stored : build_snapshot(n).agents[e.agent].step >= e.step
BY DEF LogInv, StepInv, CommittedIsRemembered, build_snapshot

LEMMA SnapshotType ==
    ASSUME LogTypeOK, NEW n \in Nat
    PROVE  build_snapshot(n) \in Snapshots /\ build_snapshot(n).sequence = n
BY DEF LogTypeOK, build_snapshot, Snapshots

LEMMA AppendKeeps ==
    ASSUME LogInv, NEW a \in Agents, AppendSucceeds(a)
    PROVE  LogInv'
<1> DEFINE e == outbox[a][1]
           m == e.sequence
           N == Len(events)
           new == build_snapshot(m)
<1>1. /\ LogTypeOK /\ DownInv /\ StageInv /\ StepInv /\ NumberInv
      /\ StoredInOrder /\ CommittedIsRemembered
  BY DEF LogInv
<1>2. /\ stage[a] = "numbered" /\ events' = Append(events, e)
      /\ saving' = saving \/ saving' = saving \cup {new}
      /\ appends' = 0 \/ (appends' = appends + 1 /\ ~(snapshot_every > 0 /\ appends + 1 >= snapshot_every))
      /\ stage' = [stage EXCEPT ![a] = "committed"]
      /\ UNCHANGED <<running, epoch, agent, alive, outbox, projection, next, snapshot, requested,
                     checkpoints>>
  BY DEF AppendSucceeds, note_durable_append
<1>3. running /\ outbox[a] # <<>> /\ next > 0
  <2>1. running
    BY <1>1, <1>2 DEF DownInv, AllWaiting
  <2>2. next # 0 /\ next \in Nat /\ outbox[a] # <<>>
    BY <1>1, <1>2 DEF StageInv, LogTypeOK
  <2> QED BY <2>1, <2>2
<1>4. e \in Envelopes /\ m \in Nat /\ e.agent = a /\ e.step = agent[a].step /\ e.step \in Nat
  <2>1. outbox[a] \in Seq(Envelopes) /\ 1 \in DOMAIN outbox[a]
    BY <1>1, <1>3, Pieces
  <2>2. e \in Envelopes
    BY <2>1
  <2> QED BY <1>1, <2>1, <2>2, Fields DEF StepInv
<1>5. m < next /\ \A n \in Settled : n < m
  BY <1>1, <1>2, <1>3 DEF NumberInv
<1>6. new \in Snapshots /\ new.sequence = m
  BY <1>1, <1>4, SnapshotType
<1> HIDE DEF m, new, e
<1>7. /\ events \in Seq(Envelopes) /\ N \in Nat /\ DOMAIN events = 1..N
      /\ events' \in Seq(Envelopes) /\ DOMAIN events' = 1..(N + 1) /\ events'[N + 1] = e
      /\ \A i \in DOMAIN events : events'[i] = events[i]
  <2>1. events \in Seq(Envelopes) /\ N \in Nat /\ DOMAIN events = 1..N
    BY <1>1, Pieces DEF LogTypeOK
  <2> QED BY <1>2, <1>4, <2>1
<1>8. \A i \in DOMAIN events' : i = N + 1 \/ (i \in DOMAIN events /\ i < N + 1)
  BY <1>7
<1>9. stage \in [Agents -> Stages]
  BY <1>1 DEF LogTypeOK
<1>10. /\ stage'[a] = "committed" /\ \A b \in Agents : b # a => stage'[b] = stage[b]
       /\ \A b \in Agents : stage'[b] # "numbered" /\ (stage'[b] # "waiting" => stage[b] # "waiting")
  BY <1>1, <1>2, <1>9 DEF StageInv
<1>11. LogTypeOK'
  <2>1. stage' \in [Agents -> Stages]
    BY <1>2, <1>9 DEF Stages
  <2>2. appends' \in Nat /\ (snapshot_every > 0 => appends' < snapshot_every)
    BY <1>1, <1>2, LogAssumption DEF LogTypeOK
  <2>3. saving' \subseteq Snapshots
    BY <1>1, <1>2, <1>6 DEF LogTypeOK
  <2> QED BY <1>1, <1>2, <1>7, <2>1, <2>2, <2>3 DEF LogTypeOK
<1>12. DownInv'
  BY <1>2, <1>3 DEF DownInv
<1>13. StageInv'
  BY <1>1, <1>2, <1>3, <1>10 DEF StageInv
<1>14. StepInv'
  <2>1. \A i \in DOMAIN events : events[i].agent = a => events[i].step <= e.step
    BY <1>1, <1>3, <1>4, Pieces DEF CommittedIsRemembered, Stored, ToSet
  <2>2. ASSUME NEW i \in DOMAIN events', NEW j \in DOMAIN events', i < j,
               events'[i].agent = events'[j].agent
        PROVE  events'[i].step <= events'[j].step
    <3>1. i \in DOMAIN events /\ events'[i] = events[i]
      BY <1>7, <1>8, <2>2
    <3>2. CASE j = N + 1
      BY <1>4, <1>7, <2>1, <2>2, <3>1, <3>2
    <3>3. CASE j \in DOMAIN events
      BY <1>1, <1>7, <2>2, <3>1, <3>3 DEF StepInv
    <3> QED BY <1>8, <3>2, <3>3
  <2> QED BY <1>1, <1>2, <2>2 DEF StepInv
<1>15. NumberInv'
  <2>1. \A n \in Settled' : n \in Settled \/ n = m
    BY <1>2, <1>6, <1>7, <1>8 DEF Settled, m
  <2>2. next' > 0 /\ next' # 0
    BY <1>2, <1>3
  <2>3. \A n \in Settled' : n < next'
    BY <1>1, <1>2, <1>3, <1>5, <2>1 DEF NumberInv
  <2>4. \A b \in Agents : stage'[b] # "waiting" => outbox'[b][1].sequence < next'
    BY <1>1, <1>2, <1>3, <1>10 DEF NumberInv
  <2> QED BY <1>10, <2>2, <2>3, <2>4 DEF NumberInv
<1>16. StoredInOrder'
  <2>1. \A i \in DOMAIN events : events[i].sequence < m
    BY <1>5 DEF Settled
  <2> QED BY <1>1, <1>7, <1>8, <2>1 DEF StoredInOrder, m
<1>17. CommittedIsRemembered'
  <2>1. Stored' = Stored \cup {e}
    <3>1. \A x \in Stored' : x \in Stored \/ x = e
      BY <1>7, <1>8 DEF Stored, ToSet
    <3>2. e \in Stored'
      BY <1>7 DEF Stored, ToSet
    <3>3. \A x \in Stored : x \in Stored'
      <4> SUFFICES ASSUME NEW i \in DOMAIN events PROVE events[i] \in Stored'
        BY DEF Stored, ToSet
      <4>1. i \in DOMAIN events' /\ events'[i] = events[i]
        BY <1>7
      <4> QED BY <4>1 DEF Stored, ToSet
    <3> QED BY <3>1, <3>2, <3>3
  <2>2. \A x \in Stored' : agent'[x.agent].step >= x.step
    BY <1>1, <1>2, <1>3, <1>4, <2>1 DEF CommittedIsRemembered
  <2>3. projection = agent
    BY <1>1, <1>3 DEF StepInv
  <2>4. \A x \in Stored' : new.agents[x.agent].step >= x.step
    BY <1>2, <2>2, <2>3 DEF new, build_snapshot
  <2>5. \A s \in saving \cup {snapshot} : s.sequence < m /\ s.sequence \in Nat
    BY <1>1, <1>5, Pieces DEF Settled
  <2>6. \A s \in saving \cup {snapshot} : \A x \in Stored' :
          x.sequence <= s.sequence => s.agents[x.agent].step >= x.step
    BY <1>1, <1>4, <2>1, <2>5 DEF CommittedIsRemembered, m
  <2>7. \A s \in saving' \cup {snapshot'} : s \in saving \cup {snapshot} \/ s = new
    BY <1>2
  <2> QED BY <2>2, <2>4, <2>6, <2>7 DEF CommittedIsRemembered
<1> QED BY <1>11, <1>12, <1>13, <1>14, <1>15, <1>16, <1>17 DEF LogInv

LEMMA AppendFailsKeeps ==
    ASSUME LogInv, NEW a \in Agents, AppendFails(a)
    PROVE  LogInv'
<1>1. /\ LogTypeOK /\ DownInv /\ StageInv /\ StepInv /\ NumberInv
      /\ StoredInOrder /\ CommittedIsRemembered
  BY DEF LogInv
<1>2. /\ stage[a] = "numbered"
      /\ UNCHANGED <<running, epoch, next, appends, events, snapshot, saving, requested, checkpoints>>
  BY DEF AppendFails
<1>3. running /\ next > 0
  <2>1. running
    BY <1>1, <1>2 DEF DownInv, AllWaiting
  <2>2. next # 0 /\ next \in Nat
    BY <1>1, <1>2 DEF StageInv, LogTypeOK
  <2> QED BY <2>1, <2>2
<1>4. /\ agent \in [Agents -> AgentStates] /\ projection \in [Agents -> AgentStates]
      /\ outbox \in [Agents -> Seq(Envelopes)] /\ stage \in [Agents -> Stages] /\ agent[a].step \in Nat
  BY <1>1, Pieces DEF LogTypeOK
<1>5. /\ agent' \in [Agents -> AgentStates] /\ projection' \in [Agents -> AgentStates] /\ alive' \subseteq Agents
      /\ outbox' \in [Agents -> Seq(Envelopes)] /\ stage' \in [Agents -> Stages]
      /\ \A b \in Agents : agent'[b].step = agent[b].step
      /\ \A b \in Agents : b # a => stage'[b] = stage[b]
      /\ \A b \in Agents : outbox'[b] = outbox[b] \/ (outbox'[b] = <<>> /\ stage'[b] = "waiting")
      /\ stage'[a] \in {"waiting", "committed"} /\ projection' = agent'
  <2> DEFINE dead == [status |-> "Failed", active_run |-> FALSE, step |-> agent[a].step]
  <2>1. dead \in AgentStates /\ dead.step = agent[a].step
    BY <1>4 DEF AgentStates, Statuses
  <2>2. projection = agent /\ alive \subseteq Agents
    BY <1>1, <1>3 DEF StepInv, LogTypeOK
  <2>3. CASE policy = "Strict"
    <3>1. /\ agent' = [agent EXCEPT ![a] = dead] /\ projection' = [projection EXCEPT ![a] = dead]
          /\ outbox' = [outbox EXCEPT ![a] = <<>>] /\ stage' = [stage EXCEPT ![a] = "waiting"]
          /\ alive' = alive \ {a}
      BY <2>3 DEF AppendFails, fail_fatally
    <3> HIDE DEF dead
    <3>2. /\ agent' \in [Agents -> AgentStates] /\ projection' = agent' /\ alive' \subseteq Agents
          /\ \A b \in Agents : agent'[b].step = agent[b].step
      BY <1>4, <2>1, <2>2, <3>1
    <3>3. /\ outbox' \in [Agents -> Seq(Envelopes)] /\ stage' \in [Agents -> Stages]
          /\ stage'[a] = "waiting" /\ outbox'[a] = <<>>
          /\ \A b \in Agents : b # a => outbox'[b] = outbox[b] /\ stage'[b] = stage[b]
      BY <1>4, <3>1 DEF Stages
    <3> QED BY <3>2, <3>3
  <2>4. CASE policy # "Strict"
    <3>1. stage' = [stage EXCEPT ![a] = "committed"] /\ UNCHANGED <<agent, alive, outbox, projection>>
      BY <2>4 DEF AppendFails
    <3> QED BY <1>4, <2>2, <3>1 DEF Stages
  <2> QED BY <2>3, <2>4
<1>6. \A b \in Agents : /\ stage'[b] # "numbered"
                        /\ stage'[b] # "waiting" => stage[b] # "waiting" /\ outbox'[b] = outbox[b]
  BY <1>1, <1>2, <1>5 DEF StageInv
<1>7. LogTypeOK'
  BY <1>1, <1>2, <1>5 DEF LogTypeOK
<1>8. DownInv'
  BY <1>2, <1>3 DEF DownInv
<1>9. StageInv'
  BY <1>1, <1>2, <1>3, <1>6 DEF StageInv
<1>10. StepInv'
  BY <1>1, <1>2, <1>5 DEF StepInv
<1>11. NumberInv'
  <2>1. Settled' = Settled
    BY <1>2 DEF Settled
  <2>2. next' > 0 /\ next' # 0
    BY <1>2, <1>3
  <2>3. /\ \A n \in Settled' : n < next'
        /\ \A b \in Agents : stage'[b] # "waiting" => outbox'[b][1].sequence < next'
    BY <1>1, <1>2, <1>3, <1>6, <2>1 DEF NumberInv
  <2> QED BY <1>6, <2>2, <2>3 DEF NumberInv
<1>12. StoredInOrder'
  BY <1>1, <1>2 DEF StoredInOrder
<1>13. CommittedIsRemembered'
  <2>1. \A e \in Stored : e.agent \in Agents
    BY <1>1, Pieces DEF Stored, ToSet
  <2> QED BY <1>1, <1>2, <1>5, <2>1 DEF CommittedIsRemembered, Stored
<1> QED BY <1>7, <1>8, <1>9, <1>10, <1>11, <1>12, <1>13 DEF LogInv

LEMMA PublishKeeps ==
    ASSUME LogInv, NEW a \in Agents, Publish(a)
    PROVE  LogInv'
<1> DEFINE m == outbox[a][1].sequence
           new == build_snapshot(m)
<1>1. /\ LogTypeOK /\ DownInv /\ StageInv /\ StepInv /\ NumberInv
      /\ StoredInOrder /\ CommittedIsRemembered
  BY DEF LogInv
<1>2. /\ stage[a] = "committed"
      /\ saving' = saving \/ saving' = saving \cup {new}
      /\ outbox' = [outbox EXCEPT ![a] = Tail(outbox[a])] /\ stage' = [stage EXCEPT ![a] = "waiting"]
      /\ alive' \subseteq alive
      /\ UNCHANGED <<running, epoch, agent, projection, next, appends, events, snapshot, requested,
                     checkpoints>>
  BY DEF Publish
<1>3. running /\ next > 0 /\ outbox[a] # <<>>
  <2>1. running
    BY <1>1, <1>2 DEF DownInv, AllWaiting
  <2>2. next # 0 /\ next \in Nat /\ outbox[a] # <<>>
    BY <1>1, <1>2 DEF StageInv, LogTypeOK
  <2> QED BY <2>1, <2>2
<1>4. /\ outbox \in [Agents -> Seq(Envelopes)] /\ stage \in [Agents -> Stages]
      /\ outbox[a] \in Seq(Envelopes)
  BY <1>1 DEF LogTypeOK
<1>5. m \in Nat /\ m < next
  <2>1. outbox[a][1] \in Envelopes
    BY <1>3, <1>4
  <2> QED BY <1>1, <1>2, <1>3, <2>1, Fields DEF NumberInv
<1>6. new \in Snapshots /\ new.sequence = m
  BY <1>1, <1>5, SnapshotType
<1>7. \A b \in Agents : stage[b] = "numbered" => m < outbox[b][1].sequence
  BY <1>1, <1>2 DEF NumberInv
<1> HIDE DEF m, new
<1>8. /\ outbox'[a] = Tail(outbox[a]) /\ stage'[a] = "waiting"
      /\ \A b \in Agents : b # a => outbox'[b] = outbox[b] /\ stage'[b] = stage[b]
  BY <1>2, <1>4
<1>9. /\ Tail(outbox[a]) \in Seq(Envelopes)
      /\ \A i \in DOMAIN Tail(outbox[a]) : i + 1 \in DOMAIN outbox[a] /\ Tail(outbox[a])[i] = outbox[a][i + 1]
  BY <1>3, <1>4
<1>10. LogTypeOK'
  <2>1. saving' \subseteq Snapshots /\ alive' \subseteq Agents
    BY <1>1, <1>2, <1>6 DEF LogTypeOK
  <2>2. outbox' \in [Agents -> Seq(Envelopes)]
    BY <1>2, <1>4, <1>9
  <2>3. stage' \in [Agents -> Stages]
    BY <1>2, <1>4 DEF Stages
  <2> QED BY <1>1, <1>2, <2>1, <2>2, <2>3 DEF LogTypeOK
<1>11. DownInv'
  BY <1>2, <1>3 DEF DownInv
<1>12. StageInv'
  BY <1>1, <1>2, <1>3, <1>8 DEF StageInv
<1>13. StepInv'
  <2>1. ASSUME NEW b \in Agents, NEW i \in DOMAIN outbox'[b]
        PROVE  outbox'[b][i].agent = b /\ outbox'[b][i].step = agent'[b].step
    <3>1. CASE b # a
      BY <1>1, <1>2, <1>8, <2>1, <3>1 DEF StepInv
    <3>2. CASE b = a
      BY <1>1, <1>2, <1>8, <1>9, <2>1, <3>2 DEF StepInv
    <3> QED BY <3>1, <3>2
  <2> QED BY <1>1, <1>2, <2>1 DEF StepInv
<1>14. NumberInv'
  <2>1. \A n \in Settled' : n \in Settled \/ n = m
    BY <1>2, <1>6 DEF Settled
  <2>2. next' > 0 /\ next' # 0
    BY <1>2, <1>3
  <2>3. \A n \in Settled' : n < next'
    BY <1>1, <1>2, <1>3, <1>5, <2>1 DEF NumberInv
  <2>4. \A b \in Agents : stage'[b] # "waiting" => stage[b] = stage'[b] /\ outbox'[b] = outbox[b]
    BY <1>8
  <2>5. \A b \in Agents : stage'[b] # "waiting" => outbox'[b][1].sequence < next'
    BY <1>1, <1>2, <1>3, <2>4 DEF NumberInv
  <2>6. ASSUME NEW b \in Agents, stage'[b] = "numbered"
        PROVE  /\ \A n \in Settled' : n < outbox'[b][1].sequence
               /\ \A c \in Agents : stage'[c] = "committed" =>
                    outbox'[c][1].sequence < outbox'[b][1].sequence
    BY <1>1, <1>7, <2>1, <2>4, <2>6 DEF NumberInv
  <2> QED BY <2>2, <2>3, <2>5, <2>6 DEF NumberInv
<1>15. StoredInOrder'
  BY <1>1, <1>2 DEF StoredInOrder
<1>16. CommittedIsRemembered'
  <2>1. \A e \in Stored : new.agents[e.agent].step >= e.step
    BY <1>3, SnapshotRemembers DEF new
  <2>2. Stored' = Stored /\ \A s \in saving' \cup {snapshot'} : s \in saving \cup {snapshot} \/ s = new
    BY <1>2 DEF Stored
  <2> QED BY <1>1, <1>2, <2>1, <2>2 DEF CommittedIsRemembered
<1> QED BY <1>10, <1>11, <1>12, <1>13, <1>14, <1>15, <1>16 DEF LogInv

-----------------------------------------------------------------------------
(***************************************************************************)
(* Checkpoints.  What they touch is saving, snapshot and requested.        *)
(***************************************************************************)
CheckpointVars == <<running, epoch, agent, alive, outbox, stage, projection, next, appends, events>>

\* A checkpoint's step keeps the invariant when it puts no new number in use,
\* but the store's own, and no new snapshot, but one of the projection.
LEMMA CheckpointKeeps ==
    ASSUME LogInv, UNCHANGED CheckpointVars, checkpoints' \in 0..MaxCheckpoints,
           snapshot' \in Snapshots, saving' \subseteq Snapshots, requested' \subseteq Nat,
           Settled' \subseteq Settled, ~running => saving' = {} /\ requested' = {},
           next = 0 => \A n \in {s.sequence : s \in saving'} \cup requested' : IsTop(n)',
           \A s \in saving' \cup {snapshot'} :
              s \in saving \cup {snapshot} \/ (running /\ \E n : s = build_snapshot(n))
    PROVE  LogInv'
<1>1. /\ LogTypeOK /\ DownInv /\ StageInv /\ StepInv /\ NumberInv
      /\ StoredInOrder /\ CommittedIsRemembered
  BY DEF LogInv
<1>2. UNCHANGED <<running, epoch, agent, alive, outbox, stage, projection, next, appends, events>>
  BY DEF CheckpointVars
<1>3. LogTypeOK'
  BY <1>1, <1>2 DEF LogTypeOK
<1>4. DownInv'
  BY <1>1, <1>2 DEF DownInv
<1>5. StageInv' /\ StepInv' /\ StoredInOrder'
  BY <1>1, <1>2 DEF StageInv, StepInv, StoredInOrder
<1>6. NumberInv'
  <2>1. next' > 0 => /\ \A n \in Settled' : n < next'
                     /\ \A a \in Agents : stage'[a] # "waiting" => outbox'[a][1].sequence < next'
    BY <1>1, <1>2 DEF NumberInv
  <2>2. \A a \in Agents : stage'[a] = "numbered" =>
          /\ \A n \in Settled' : n < outbox'[a][1].sequence
          /\ \A b \in Agents : stage'[b] = "committed" =>
               outbox'[b][1].sequence < outbox'[a][1].sequence
    BY <1>1, <1>2 DEF NumberInv
  <2>3. next' = 0 => \A n \in {s.sequence : s \in saving'} \cup requested' : IsTop(n)'
    BY <1>2
  <2> QED BY <2>1, <2>2, <2>3 DEF NumberInv
<1>7. CommittedIsRemembered'
  <2>1. Stored' = Stored /\ running' = running /\ agent' = agent
    BY <1>2 DEF Stored
  <2>2. \A s \in saving' \cup {snapshot'} : \A e \in Stored :
          e.sequence <= s.sequence => s.agents[e.agent].step >= e.step
    BY <1>1, SnapshotRemembers DEF CommittedIsRemembered
  <2> QED BY <1>1, <2>1, <2>2 DEF CommittedIsRemembered
<1> QED BY <1>3, <1>4, <1>5, <1>6, <1>7 DEF LogInv

LEMMA SaveSucceedsKeeps ==
    ASSUME LogInv, NEW s \in saving, SaveSucceeds(s)
    PROVE  LogInv'
<1>1. LogTypeOK /\ NumberInv /\ DownInv
  BY DEF LogInv
<1>2. snapshot' = s /\ saving' = saving \ {s} /\ UNCHANGED <<CheckpointVars, requested, checkpoints>>
  BY DEF SaveSucceeds, CheckpointVars
<1>3. s \in Snapshots /\ s.sequence \in Nat /\ saving \subseteq Snapshots /\ requested \subseteq Nat
      /\ checkpoints \in 0..MaxCheckpoints /\ events' = events
  BY <1>1, <1>2, Pieces DEF LogTypeOK, CheckpointVars
<1>4. Settled' \subseteq Settled
  BY <1>2, <1>3 DEF Settled
<1>5. running
  BY <1>1 DEF DownInv
<1>6. ASSUME next = 0, NEW n \in {t.sequence : t \in saving'} \cup requested'
      PROVE  IsTop(n)'
  <2>1. n \in {t.sequence : t \in saving} \cup requested /\ n \in Nat
    BY <1>1, <1>2, <1>3, Pieces
  <2>2. IsTop(n) /\ IsTop(s.sequence)
    BY <1>1, <1>6, <2>1 DEF NumberInv
  <2>3. n = s.sequence
    BY <1>1, <1>3, <2>1, <2>2, TopUnique
  <2> QED BY <1>2, <1>3, <2>2, <2>3 DEF IsTop
<1> QED BY <1>2, <1>3, <1>4, <1>5, <1>6, CheckpointKeeps

LEMMA SaveFailsKeeps ==
    ASSUME LogInv, NEW s \in saving, SaveFails(s)
    PROVE  LogInv'
<1>1. LogTypeOK /\ NumberInv /\ DownInv
  BY DEF LogInv
<1>2. saving' = saving \ {s} /\ UNCHANGED <<CheckpointVars, snapshot, requested, checkpoints>>
  BY DEF SaveFails, CheckpointVars
<1>3. saving \subseteq Snapshots /\ requested \subseteq Nat /\ snapshot \in Snapshots
      /\ checkpoints \in 0..MaxCheckpoints /\ events' = events
  BY <1>1, <1>2 DEF LogTypeOK, CheckpointVars
<1>4. Settled' \subseteq Settled
  BY <1>2, <1>3 DEF Settled
<1>5. running
  BY <1>1 DEF DownInv
<1>6. ASSUME next = 0, NEW n \in {t.sequence : t \in saving'} \cup requested'
      PROVE  IsTop(n)'
  <2>1. IsTop(n)
    BY <1>1, <1>2, <1>6 DEF NumberInv
  <2> QED BY <1>2, <1>3, <2>1 DEF IsTop
<1> QED BY <1>2, <1>3, <1>4, <1>5, <1>6, CheckpointKeeps

LEMMA CheckpointReadsKeeps ==
    ASSUME LogInv, CheckpointReads
    PROVE  LogInv'
<1>1. LogTypeOK /\ NumberInv /\ StoredInOrder
  BY DEF LogInv
<1>2. /\ requested' = {current_sequence} /\ running
      /\ checkpoints < MaxCheckpoints /\ checkpoints' = checkpoints + 1
      /\ UNCHANGED <<CheckpointVars, snapshot, saving>>
  BY DEF CheckpointReads, CheckpointVars
<1>3. IsTop(current_sequence) /\ current_sequence \in Nat /\ current_sequence \in Settled
  BY <1>1, TopFound
<1>4. saving \subseteq Snapshots /\ snapshot \in Snapshots /\ checkpoints' \in 0..MaxCheckpoints /\ events' = events
  BY <1>1, <1>2, LogAssumption DEF LogTypeOK, CheckpointVars
<1>5. Settled' \subseteq Settled
  BY <1>2, <1>3, <1>4 DEF Settled
<1>6. ASSUME next = 0, NEW n \in {t.sequence : t \in saving'} \cup requested'
      PROVE  IsTop(n)'
  <2>1. IsTop(n)
    BY <1>1, <1>2, <1>3, <1>6 DEF NumberInv
  <2> QED BY <1>2, <1>4, <2>1 DEF IsTop
<1>7. requested' \subseteq Nat
  BY <1>2, <1>3
<1> QED BY <1>2, <1>4, <1>5, <1>6, <1>7, CheckpointKeeps

LEMMA CheckpointBuildsKeeps ==
    ASSUME LogInv, CheckpointBuilds
    PROVE  LogInv'
<1> DEFINE new == {build_snapshot(n) : n \in requested}
<1>1. LogTypeOK /\ NumberInv
  BY DEF LogInv
<1>2. /\ saving' = saving \cup new /\ requested' = {} /\ running
      /\ UNCHANGED <<CheckpointVars, snapshot, checkpoints>>
  BY DEF CheckpointBuilds, CheckpointVars
<1>3. saving \subseteq Snapshots /\ requested \subseteq Nat /\ snapshot \in Snapshots
      /\ checkpoints \in 0..MaxCheckpoints /\ events' = events
  BY <1>1, <1>2 DEF LogTypeOK, CheckpointVars
<1>4. \A s \in new : s \in Snapshots /\ s.sequence \in requested /\ \E n : s = build_snapshot(n)
  BY <1>1, <1>3, SnapshotType
<1> HIDE DEF new
<1>5. Settled' \subseteq Settled
  BY <1>2, <1>3, <1>4 DEF Settled
<1>6. ASSUME next = 0, NEW n \in {t.sequence : t \in saving'} \cup requested'
      PROVE  IsTop(n)'
  <2>1. IsTop(n)
    BY <1>1, <1>2, <1>4, <1>6 DEF NumberInv
  <2> QED BY <1>2, <1>3, <2>1 DEF IsTop
<1>7. saving' \subseteq Snapshots /\ requested' \subseteq Nat
  BY <1>2, <1>3, <1>4
<1> QED BY <1>2, <1>3, <1>4, <1>5, <1>6, <1>7, CheckpointKeeps

-----------------------------------------------------------------------------
(***************************************************************************)
(* Crash and restore.                                                      *)
(***************************************************************************)
LEMMA CrashKeeps ==
    ASSUME LogInv, Crash
    PROVE  LogInv'
<1>1. LogTypeOK /\ StepInv /\ StoredInOrder /\ CommittedIsRemembered
  BY DEF LogInv
<1>2. /\ running' = FALSE /\ agent' = NewAgents /\ projection' = NewAgents /\ alive' = {}
      /\ outbox' = Nothing /\ stage' = AllWaiting /\ next' = 0 /\ appends' = 0
      /\ saving' = {} /\ requested' = {} /\ UNCHANGED <<epoch, events, snapshot, checkpoints>>
  BY DEF Crash
<1>3. NewAgents \in [Agents -> AgentStates] /\ Nothing \in [Agents -> Seq(Envelopes)]
      /\ AllWaiting \in [Agents -> Stages]
  BY DEF NewAgents, NewAgent, AgentStates, Statuses, Nothing, AllWaiting, Stages
<1>4. \A a \in Agents : Nothing[a] = <<>> /\ AllWaiting[a] = "waiting"
  BY DEF Nothing, AllWaiting
<1>5. LogTypeOK'
  BY <1>1, <1>2, <1>3, LogAssumption DEF LogTypeOK
<1>6. DownInv' /\ StageInv'
  BY <1>2, <1>4 DEF DownInv, StageInv
<1>7. StepInv'
  <2>1. \A a \in Agents : \A i \in DOMAIN outbox'[a] :
          outbox'[a][i].agent = a /\ outbox'[a][i].step = agent'[a].step
    BY <1>2, <1>4
  <2> QED BY <1>1, <1>2, <2>1 DEF StepInv
<1>8. NumberInv'
  BY <1>2, <1>4 DEF NumberInv
<1>9. StoredInOrder' /\ CommittedIsRemembered'
  BY <1>1, <1>2 DEF StoredInOrder, CommittedIsRemembered, Stored
<1> QED BY <1>5, <1>6, <1>7, <1>8, <1>9 DEF LogInv

LEMMA RestoreKeeps ==
    ASSUME LogInv, restore
    PROVE  LogInv'
<1>1. /\ LogTypeOK /\ DownInv /\ StageInv /\ StepInv /\ NumberInv
      /\ StoredInOrder /\ CommittedIsRemembered
  BY DEF LogInv
<1>2. /\ ~running /\ running' = TRUE /\ epoch' = epoch + 1 /\ alive' = Agents
      /\ agent' = load_snapshot.agents /\ projection' = load_snapshot.agents
      /\ UNCHANGED <<outbox, stage, next, appends, events, snapshot, saving, requested, checkpoints>>
  BY DEF restore
<1>3. /\ load_snapshot.agents \in [Agents -> AgentStates]
      /\ \A p \in DOMAIN events : load_snapshot.agents[events[p].agent].step >= events[p].step
  BY <1>1, RestoredKeepUp
<1>4. outbox = Nothing /\ \A a \in Agents : Nothing[a] = <<>>
  BY <1>1, <1>2 DEF DownInv, Nothing
<1>5. LogTypeOK'
  BY <1>1, <1>2, <1>3 DEF LogTypeOK
<1>6. DownInv' /\ StageInv' /\ StoredInOrder'
  BY <1>1, <1>2 DEF DownInv, StageInv, StoredInOrder
<1>7. StepInv'
  <2>1. \A a \in Agents : \A i \in DOMAIN outbox'[a] :
          outbox'[a][i].agent = a /\ outbox'[a][i].step = agent'[a].step
    BY <1>2, <1>4
  <2> QED BY <1>1, <1>2, <2>1 DEF StepInv
<1>8. NumberInv'
  BY <1>1, <1>2 DEF NumberInv, Settled, IsTop
<1>9. CommittedIsRemembered'
  <2>1. Stored' = Stored /\ saving' = saving /\ snapshot' = snapshot
    BY <1>2 DEF Stored
  <2>2. \A e \in Stored : agent'[e.agent].step >= e.step
    BY <1>2, <1>3 DEF Stored, ToSet
  <2> QED BY <1>1, <2>1, <2>2 DEF CommittedIsRemembered
<1> QED BY <1>5, <1>6, <1>7, <1>8, <1>9 DEF LogInv

-----------------------------------------------------------------------------
(***************************************************************************)
(* The invariant.                                                          *)
(***************************************************************************)
LEMMA InitLogInv == LogInit => LogInv
<1> SUFFICES ASSUME LogInit PROVE LogInv
  OBVIOUS
<1>1. NewAgents \in [Agents -> AgentStates] /\ Nothing \in [Agents -> Seq(Envelopes)]
      /\ AllWaiting \in [Agents -> Stages]
  BY DEF NewAgents, NewAgent, AgentStates, Statuses, Nothing, AllWaiting, Stages
<1>2. \A a \in Agents : Nothing[a] = <<>> /\ AllWaiting[a] = "waiting"
  BY DEF Nothing, AllWaiting
<1>3. LogTypeOK
  BY <1>1, LogAssumption DEF LogInit, LogTypeOK, Snapshots
<1>4. DownInv /\ StageInv /\ NumberInv
  BY <1>2 DEF LogInit, DownInv, StageInv, NumberInv
<1>5. StepInv
  BY <1>2 DEF LogInit, StepInv
<1>6. StoredInOrder /\ CommittedIsRemembered
  BY DEF LogInit, StoredInOrder, CommittedIsRemembered, Stored, ToSet
<1> QED BY <1>3, <1>4, <1>5, <1>6 DEF LogInv

LEMMA StepLogInv == LogInv /\ [LogNext]_logVars => LogInv'
<1> SUFFICES ASSUME LogInv, [LogNext]_logVars PROVE LogInv'
  OBVIOUS
<1>1. CASE UNCHANGED logVars
  BY <1>1 DEF logVars, LogInv, LogTypeOK, DownInv, StageInv, StepInv, NumberInv, Settled, IsTop,
              StoredInOrder, CommittedIsRemembered, Stored
<1>2. CASE Unseen
  BY <1>2, CommandsKeep, NumberKeeps, AppendKeeps, AppendFailsKeeps, SaveSucceedsKeeps,
     SaveFailsKeeps, CheckpointReadsKeeps, CheckpointBuildsKeeps, RestoreKeeps DEF Unseen
<1>3. CASE \E a \in Agents : Publish(a)
  BY <1>3, PublishKeeps
<1>4. CASE Crash
  BY <1>4, CrashKeeps
<1> QED BY <1>1, <1>2, <1>3, <1>4 DEF LogNext

LEMMA AlwaysLogInv == LogSpec => []LogInv
BY InitLogInv, StepLogInv, PTL DEF LogSpec

\* Every variable of the durable history keeps its type, and the appends since
\* the last checkpoint stay below the number that asks for one.
THEOREM LogTypeCorrect == LogSpec => []LogTypeOK
<1>1. LogInv => LogTypeOK
  BY DEF LogInv
<1> QED BY <1>1, AlwaysLogInv, PTL

\* The store's events are in strictly increasing order of their numbers over
\* all agents and all lives of the process (SessionCommitter::commit,
\* next_sequence).
THEOREM LogStaysInOrder == LogSpec => []StoredInOrder
<1>1. LogInv => StoredInOrder
  BY DEF LogInv
<1> QED BY <1>1, AlwaysLogInv, PTL

\* Neither a restore nor a checkpoint that hides events from one loses what
\* was committed: the agents have gone at least that far (build_snapshot,
\* validate_trailing_replay).
THEOREM CommitsAreRemembered == LogSpec => []CommittedIsRemembered
<1>1. LogInv => CommittedIsRemembered
  BY DEF LogInv
<1> QED BY <1>1, AlwaysLogInv, PTL

-----------------------------------------------------------------------------
(***************************************************************************)
(* The stream: an inductive invariant of EventStream.                      *)
(***************************************************************************)
\* Under the strict policy a durable event is stored before it is published.
CommittedInv ==
    policy = "Strict" =>
        \A a \in Agents : stage[a] = "committed" /\ is_durable(outbox[a][1]) =>
            outbox[a][1] \in Stored

Increasing(q) == \A i, j \in DOMAIN q : i < j => q[i].sequence < q[j].sequence

\* The client's cursor is ahead of all it was sent and behind all that the
\* backlog, which only a replay has, still holds for it.
CursorInv ==
    /\ Increasing(got) /\ \A i \in DOMAIN got : got[i].sequence <= client.last_sent
    /\ client.phase = "subscribed" => client.since = client.last_sent
    /\ client.phase # "replaying" => client.backlog = <<>>
    /\ Increasing(client.backlog)
    /\ \A i \in DOMAIN client.backlog : client.backlog[i].sequence > client.last_sent

\* What is on its way to the client, or arrived.
OnTheWay == InTransit \cup ToSet(got)

StreamInv == LogInv /\ TypeOK /\ CommittedInv /\ PublishedIsStored /\ CursorInv

-----------------------------------------------------------------------------
(***************************************************************************)
(* What poll_receivers sends to a subscriber.                              *)
(***************************************************************************)
SentBy(sent, q) ==
    sent = [i \in 0..Len(q) |-> IF i = 0 THEN inbox
                                ELSE Send(sent[i - 1], q[i], SubscriberCapacity)]

\* The recursion of poll_receivers has a solution.
LEMMA SentExists ==
    ASSUME NEW q \in Seq(Envelopes)
    PROVE  \E sent : SentBy(sent, q)
<1> DEFINE Upto(m, f) == f = [i \in 0..m |-> IF i = 0 THEN inbox
                                             ELSE Send(f[i - 1], q[i], SubscriberCapacity)]
           n == Len(q)
           S == {m \in 0..n : \E f : Upto(m, f)}
<1>1. n \in Nat
  OBVIOUS
<1>2. 0 \in S
  <2>1. Upto(0, [i \in 0..0 |-> inbox])
    OBVIOUS
  <2>2. \E f : Upto(0, f)
    BY <2>1, Zenon
  <2>3. 0 \in 0..n
    BY <1>1
  <2> QED BY <2>2, <2>3
<1>3. ASSUME NEW m \in 0..n, m < n, m \in S
      PROVE  m + 1 \in S
  <2>1. PICK f : Upto(m, f)
    BY <1>3
  <2> DEFINE g == [i \in 0..(m + 1) |->
                     IF i = m + 1 THEN Send(f[m], q[m + 1], SubscriberCapacity) ELSE f[i]]
  <2>2. \A i \in 0..m : f[i] = IF i = 0 THEN inbox ELSE Send(f[i - 1], q[i], SubscriberCapacity)
    BY <2>1
  <2> HIDE DEF Upto
  <2>3. \A i \in 0..(m + 1) :
          g[i] = IF i = 0 THEN inbox ELSE Send(g[i - 1], q[i], SubscriberCapacity)
    <3> TAKE i \in 0..(m + 1)
    <3>1. CASE i = m + 1
      <4>1. i # 0 /\ i - 1 = m /\ m \in 0..(m + 1) /\ m # m + 1
        BY <3>1, <1>1
      <4>2. g[i] = Send(f[m], q[m + 1], SubscriberCapacity) /\ g[i - 1] = f[m]
        BY <3>1, <4>1
      <4> QED BY <3>1, <4>1, <4>2
    <3>2. CASE i # m + 1
      <4>1. i \in 0..m /\ (i # 0 => i - 1 \in 0..m)
        BY <3>2, <1>1
      <4>2. g[i] = f[i] /\ (i # 0 => g[i - 1] = f[i - 1])
        BY <3>2, <4>1, <1>1
      <4> QED BY <2>2, <4>1, <4>2
    <3> QED BY <3>1, <3>2
  <2>4. Upto(m + 1, g)
    <3>1. g = [i \in 0..(m + 1) |-> g[i]]
      OBVIOUS
    <3> HIDE DEF g
    <3> QED BY <2>3, <3>1 DEF Upto
  <2>5. m + 1 \in 0..n
    BY <1>1, <1>3
  <2> HIDE DEF g
  <2> QED BY <2>4, <2>5
<1>4. n \in S
  <2> HIDE DEF S
  <2>1. 0..n \subseteq S
    BY <1>1, <1>2, <1>3, UpTo
  <2> QED BY <2>1, <1>1
<1> QED BY <1>4 DEF SentBy

LEMMA PollSends ==
    ASSUME poll_receivers, channel[Receivers[turn]].queue \in Seq(Envelopes)
    PROVE  LET q == channel[Receivers[turn]].queue
           IN  \/ ~Subscribed /\ inbox' = inbox
               \/ Subscribed /\ \E sent : SentBy(sent, q) /\ inbox' = sent[Len(q)]
<1> DEFINE q == channel[Receivers[turn]].queue
           sent[i \in 0..Len(q)] ==
             IF i = 0 THEN inbox ELSE Send(sent[i - 1], q[i], SubscriberCapacity)
<1>1. inbox' = IF Subscribed THEN sent[Len(q)] ELSE inbox
  BY Zenon DEF poll_receivers
<1>2. \E f : f = [i \in 0..Len(q) |-> IF i = 0 THEN inbox
                                      ELSE Send(f[i - 1], q[i], SubscriberCapacity)]
  BY SentExists, Zenon DEF SentBy
<1>3. sent = [i \in 0..Len(q) |-> IF i = 0 THEN inbox
                                  ELSE Send(sent[i - 1], q[i], SubscriberCapacity)]
  BY <1>2, Zenon
<1> HIDE DEF sent
<1>4. SentBy(sent, q)
  BY <1>3, Zenon DEF SentBy
<1> QED BY <1>1, <1>4, Zenon

\* Sending one value: it goes to the end of the queue, and only a full
\* channel loses one.
LEMMA SendOne ==
    ASSUME NEW ch \in Channels, NEW e \in Envelopes, NEW capacity \in Nat \ {0},
           Len(ch.queue) <= capacity
    PROVE  LET after == Send(ch, e, capacity)
           IN  /\ after \in Channels /\ Len(after.queue) <= capacity
               /\ \A i \in DOMAIN after.queue :
                    after.queue[i] = e \/ \E j \in DOMAIN ch.queue : after.queue[i] = ch.queue[j]
               /\ after.lost = {} => ch.lost = {} /\ after.queue = Append(ch.queue, e)
<1> DEFINE after == Send(ch, e, capacity)
           q == ch.queue
<1>1. q \in Seq(Envelopes) /\ Len(q) \in Nat /\ DOMAIN q = 1..Len(q) /\ ch.lost \in SUBSET Envelopes
      /\ ch = [queue |-> q, lost |-> ch.lost]
  BY DEF Channels
<1>2. CASE Len(q) < capacity
  <2>1. after = [ch EXCEPT !.queue = Append(q, e)]
    BY <1>2 DEF Send
  <2>2. after.queue = Append(q, e) /\ after.lost = ch.lost /\ after \in Channels
    <3>1. after = [queue |-> Append(q, e), lost |-> ch.lost]
      BY <1>1, <2>1
    <3>2. Append(q, e) \in Seq(Envelopes)
      BY <1>1
    <3> QED BY <1>1, <3>1, <3>2 DEF Channels
  <2>3. Len(Append(q, e)) <= capacity
        /\ \A i \in DOMAIN Append(q, e) : Append(q, e)[i] = e \/ (i \in DOMAIN q /\ Append(q, e)[i] = q[i])
    BY <1>1, <1>2
  <2> QED BY <2>2, <2>3
<1>3. CASE ~(Len(q) < capacity)
  <2>1. after = [queue |-> Append(Tail(q), e), lost |-> ch.lost \cup {q[1]}]
    BY <1>3 DEF Send
  <2>2. Len(q) = capacity /\ q # <<>> /\ q[1] \in Envelopes
    BY <1>1, <1>3
  <2>3. /\ Tail(q) \in Seq(Envelopes) /\ Len(Tail(q)) = Len(q) - 1
        /\ \A i \in DOMAIN Tail(q) : i + 1 \in DOMAIN q /\ Tail(q)[i] = q[i + 1]
    BY <1>1, <2>2
  <2> DEFINE t == Tail(q)
  <2> HIDE DEF t
  <2>4. Append(t, e) \in Seq(Envelopes) /\ Len(Append(t, e)) = Len(t) + 1
        /\ \A i \in DOMAIN Append(t, e) : Append(t, e)[i] = e \/ (i \in DOMAIN t /\ Append(t, e)[i] = t[i])
    BY <2>3 DEF t
  <2>5. after.queue = Append(t, e) /\ after.lost = ch.lost \cup {q[1]} /\ after \in Channels
    BY <1>1, <2>1, <2>2, <2>4 DEF Channels, t
  <2>6. after.lost # {}
    BY <2>5
  <2>7. Len(after.queue) <= capacity
    BY <1>1, <2>2, <2>3, <2>4, <2>5 DEF t
  <2>8. \A i \in DOMAIN after.queue : after.queue[i] = e \/ \E j \in DOMAIN q : after.queue[i] = q[j]
    BY <2>3, <2>4, <2>5 DEF t
  <2> QED BY <2>5, <2>6, <2>7, <2>8
<1> QED BY <1>2, <1>3

LEMMA AppendConcat ==
    \A u, v \in Seq(Envelopes), x \in Envelopes : Append(u \o v, x) = u \o Append(v, x)
<1> TAKE u, v \in Seq(Envelopes), x \in Envelopes
<1> DEFINE l == Append(u \o v, x)
           r == u \o Append(v, x)
<1>1. u \o v \in Seq(Envelopes) /\ Append(v, x) \in Seq(Envelopes) /\ Len(u) \in Nat /\ Len(v) \in Nat
      /\ Len(u \o v) = Len(u) + Len(v) /\ Len(Append(v, x)) = Len(v) + 1
  OBVIOUS
<1>2. l \in Seq(Envelopes) /\ r \in Seq(Envelopes) /\ Len(l) = Len(u) + Len(v) + 1 /\ Len(r) = Len(u) + Len(v) + 1
  BY <1>1
<1>3. \A i \in 1..(Len(u) + Len(v) + 1) : l[i] = r[i]
  <2> TAKE i \in 1..(Len(u) + Len(v) + 1)
  <2>1. CASE i \in 1..Len(u)
    BY <1>1, <2>1
  <2>2. CASE i \in (Len(u) + 1)..(Len(u) + Len(v))
    BY <1>1, <2>2
  <2>3. CASE i = Len(u) + Len(v) + 1
    BY <1>1, <2>3
  <2> QED BY <1>1, <2>1, <2>2, <2>3
<1> HIDE DEF l, r
<1>4. l = r
  BY <1>2, <1>3
<1> QED BY <1>4 DEF l, r

\* Sending a queue: nothing but it and what was there comes out, and when
\* nothing is lost the one follows the other.
LEMMA SendMany ==
    ASSUME inbox \in Channels, Len(inbox.queue) <= SubscriberCapacity, NEW q \in Seq(Envelopes),
           NEW sent, SentBy(sent, q)
    PROVE  LET after == sent[Len(q)]
           IN  /\ after \in Channels /\ Len(after.queue) <= SubscriberCapacity
               /\ \A i \in DOMAIN after.queue :
                    \/ \E j \in DOMAIN inbox.queue : after.queue[i] = inbox.queue[j]
                    \/ \E j \in DOMAIN q : after.queue[i] = q[j]
               /\ after.lost = {} => inbox.lost = {} /\ after.queue = inbox.queue \o q
<1> DEFINE n == Len(q)
           Sent(m) ==
             /\ sent[m] \in Channels /\ Len(sent[m].queue) <= SubscriberCapacity
             /\ \A i \in DOMAIN sent[m].queue :
                  \/ \E j \in DOMAIN inbox.queue : sent[m].queue[i] = inbox.queue[j]
                  \/ \E j \in DOMAIN q : sent[m].queue[i] = q[j]
             /\ sent[m].lost = {} =>
                  inbox.lost = {} /\ sent[m].queue = inbox.queue \o SubSeq(q, 1, m)
           S == {m \in 0..n : Sent(m)}
<1>1. n \in Nat /\ DOMAIN q = 1..n /\ inbox.queue \in Seq(Envelopes)
  BY DEF Channels
<1>2. \A i \in 0..n : sent[i] = IF i = 0 THEN inbox ELSE Send(sent[i - 1], q[i], SubscriberCapacity)
  BY DEF SentBy
<1>3. 0 \in S
  <2>1. sent[0] = inbox /\ 0 \in 0..n
    BY <1>1, <1>2
  <2>2. inbox.queue = inbox.queue \o SubSeq(q, 1, 0)
    BY <1>1
  <2> QED BY <2>1, <2>2
<1>4. ASSUME NEW m \in 0..n, m < n, m \in S
      PROVE  m + 1 \in S
  <2>1. m + 1 \in 0..n /\ m + 1 # 0 /\ (m + 1) - 1 = m /\ m + 1 \in DOMAIN q /\ q[m + 1] \in Envelopes
    BY <1>1, <1>4
  <2>2. sent[m + 1] = Send(sent[m], q[m + 1], SubscriberCapacity)
    BY <1>2, <2>1
  <2>3. Sent(m) /\ SubscriberCapacity \in Nat \ {0}
    BY <1>4, StreamAssumption
  <2> DEFINE b == sent[m]
             c == sent[m + 1]
  <2>4. /\ c \in Channels /\ Len(c.queue) <= SubscriberCapacity
        /\ \A i \in DOMAIN c.queue :
             c.queue[i] = q[m + 1] \/ \E j \in DOMAIN b.queue : c.queue[i] = b.queue[j]
        /\ c.lost = {} => b.lost = {} /\ c.queue = Append(b.queue, q[m + 1])
    BY <2>1, <2>2, <2>3, SendOne, SMTT(30)
  <2> HIDE DEF c
  <2>5. \A i \in DOMAIN c.queue : \/ \E j \in DOMAIN inbox.queue : c.queue[i] = inbox.queue[j]
                                  \/ \E j \in DOMAIN q : c.queue[i] = q[j]
    <3>1. \A j \in DOMAIN b.queue : \/ \E k \in DOMAIN inbox.queue : b.queue[j] = inbox.queue[k]
                                    \/ \E k \in DOMAIN q : b.queue[j] = q[k]
      BY <2>3
    <3> QED BY <2>1, <2>4, <3>1
  <2>6. ASSUME c.lost = {}
        PROVE  inbox.lost = {} /\ c.queue = inbox.queue \o SubSeq(q, 1, m + 1)
    <3>1. inbox.lost = {} /\ c.queue = Append(inbox.queue \o SubSeq(q, 1, m), q[m + 1])
      BY <2>3, <2>4, <2>6
    <3>2. SubSeq(q, 1, m + 1) = Append(SubSeq(q, 1, m), q[m + 1])
      BY <1>1, <2>1
    <3>3. SubSeq(q, 1, m) \in Seq(Envelopes)
      BY <1>1, <1>4
    <3>4. Append(inbox.queue \o SubSeq(q, 1, m), q[m + 1])
            = inbox.queue \o Append(SubSeq(q, 1, m), q[m + 1])
      <4> DEFINE u == inbox.queue
                 v == SubSeq(q, 1, m)
                 x == q[m + 1]
      <4>1. u \in Seq(Envelopes) /\ v \in Seq(Envelopes) /\ x \in Envelopes
        BY <1>1, <2>1, <3>3
      <4> HIDE DEF u, v, x
      <4>2. Append(u \o v, x) = u \o Append(v, x)
        BY <4>1, AppendConcat, Zenon
      <4> QED BY <4>2 DEF u, v, x
    <3> QED BY <3>1, <3>2, <3>4
  <2>7. Sent(m + 1)
    BY <2>4, <2>5, <2>6 DEF c
  <2> HIDE DEF Sent
  <2> QED BY <2>1, <2>7
<1>5. Sent(n)
  <2> HIDE DEF S, Sent
  <2>1. 0..n \subseteq S
    BY <1>1, <1>3, <1>4, UpTo
  <2> QED BY <2>1, <1>1 DEF S
<1>6. SubSeq(q, 1, n) = q
  BY <1>1
<1> QED BY <1>5, <1>6

-----------------------------------------------------------------------------
(***************************************************************************)
(* The log's part.                                                         *)
(***************************************************************************)
LEMMA NextIsLogStep == ASSUME [Next]_vars PROVE [LogNext]_logVars
BY DEF Next, vars, logVars, LogNext, publish, poll_receivers, Subscribe, ReadBacklog,
       replay_backlog, GoLive, forward_live_events, SignalGap, Disconnect, crash

\* What a step of the log appends, if anything.
LEMMA LogGrows ==
    ASSUME [LogNext]_logVars
    PROVE  \/ events' = events
           \/ \E a \in Agents : AppendSucceeds(a)
<1>1. CASE UNCHANGED logVars
  BY <1>1 DEF logVars
<1>2. ASSUME NEW a \in Agents, Command(a) PROVE events' = events
  BY <1>2 DEF Command, start_run, StartRefused, StartStopped, StreamText, finish_success, fail, cancel,
              EndRun, apply_and_publish
<1>3. ASSUME NEW a \in Agents, Number(a) \/ AppendFails(a) \/ Publish(a) PROVE events' = events
  BY <1>3 DEF Number, AppendFails, Publish
<1>4. ASSUME NEW s \in saving, SaveSucceeds(s) \/ SaveFails(s) PROVE events' = events
  BY <1>4 DEF SaveSucceeds, SaveFails
<1>5. CASE CheckpointReads \/ CheckpointBuilds \/ restore \/ Crash
  BY <1>5 DEF CheckpointReads, CheckpointBuilds, restore, Crash
<1> QED BY <1>1, <1>2, <1>3, <1>4, <1>5 DEF LogNext, Unseen

LEMMA StoredGrows ==
    ASSUME LogTypeOK, [LogNext]_logVars
    PROVE  \A e \in Stored : e \in Stored'
<1>1. CASE events' = events
  BY <1>1 DEF Stored
<1>2. ASSUME NEW a \in Agents, AppendSucceeds(a)
      PROVE  \A e \in Stored : e \in Stored'
  <2>1. events' = Append(events, outbox[a][1]) /\ events \in Seq(Envelopes)
    BY <1>2 DEF AppendSucceeds, LogTypeOK
  <2>2. \A i \in DOMAIN events : i \in DOMAIN events' /\ events'[i] = events[i]
    BY <2>1
  <2> QED BY <2>2 DEF Stored, ToSet
<1> QED BY <1>1, <1>2, LogGrows

LEMMA CommittedStep ==
    ASSUME LogInv, CommittedInv, [LogNext]_logVars
    PROVE  CommittedInv'
<1> SUFFICES ASSUME policy = "Strict", NEW b \in Agents, stage'[b] = "committed",
                    is_durable(outbox'[b][1])
             PROVE  outbox'[b][1] \in Stored'
  BY DEF CommittedInv
<1>1. LogTypeOK /\ StageInv /\ stage \in [Agents -> Stages] /\ outbox \in [Agents -> Seq(Envelopes)]
  BY DEF LogInv, LogTypeOK
<1>2. \A e \in Stored : e \in Stored'
  BY <1>1, StoredGrows
<1>3. ASSUME stage'[b] = stage[b], outbox'[b] = outbox[b]
      PROVE  outbox'[b][1] \in Stored'
  BY <1>2, <1>3 DEF CommittedInv
<1>4. CASE UNCHANGED logVars
  BY <1>3, <1>4 DEF logVars
<1>5. ASSUME NEW a \in Agents, Command(a)
      PROVE  outbox'[b][1] \in Stored'
  <2>1. Resting(a) /\ stage' = stage /\ \E q : outbox' = [outbox EXCEPT ![a] = q]
    BY <1>5 DEF Command, start_run, StartRefused, StartStopped, StreamText, finish_success, fail, cancel,
                EndRun, apply_and_publish
  <2>2. stage[a] = "waiting"
    BY <1>1, <2>1 DEF Resting, StageInv
  <2>3. b # a /\ outbox'[b] = outbox[b]
    BY <1>1, <2>1, <2>2
  <2> QED BY <1>3, <2>1, <2>3
<1>6. ASSUME NEW a \in Agents, Number(a)
      PROVE  outbox'[b][1] \in Stored'
  <2> DEFINE e == outbox[a][1]
  <2>1. /\ outbox' = [outbox EXCEPT ![a] = [outbox[a] EXCEPT ![1] = [e EXCEPT !.sequence = next_sequence]]]
        /\ stage' = [stage EXCEPT ![a] = IF is_durable(e) THEN "numbered" ELSE "committed"]
        /\ outbox[a] # <<>>
    BY <1>6 DEF Number
  <2>2. CASE b # a
    BY <1>1, <1>3, <2>1, <2>2
  <2>3. CASE b = a
    <3>1. ~is_durable(e)
      BY <1>1, <2>1, <2>3
    <3>2. 1 \in DOMAIN outbox[a] /\ e \in Envelopes /\ outbox[a] \in Seq(Envelopes)
      BY <1>1, <2>1
    <3>3. outbox'[a][1] = [e EXCEPT !.sequence = next_sequence]
      <4>1. outbox'[a] = [outbox[a] EXCEPT ![1] = [e EXCEPT !.sequence = next_sequence]]
        BY <1>1, <2>1
      <4> HIDE DEF e
      <4> QED BY <3>2, <4>1
    <3>4. outbox'[a][1].kind = e.kind
      BY <3>2, <3>3 DEF Envelopes
    <3> QED BY <2>3, <3>1, <3>4 DEF is_durable
  <2> QED BY <2>2, <2>3
<1>7. ASSUME NEW a \in Agents, AppendSucceeds(a)
      PROVE  outbox'[b][1] \in Stored'
  <2>1. events' = Append(events, outbox[a][1]) /\ stage' = [stage EXCEPT ![a] = "committed"]
        /\ outbox' = outbox /\ events \in Seq(Envelopes)
    BY <1>1, <1>7 DEF AppendSucceeds, LogTypeOK
  <2>2. outbox[a][1] \in Stored'
    <3>1. Len(events) + 1 \in DOMAIN events' /\ events'[Len(events) + 1] = outbox[a][1]
      BY <2>1
    <3> QED BY <3>1 DEF Stored, ToSet
  <2>3. CASE b # a
    BY <1>1, <1>3, <2>1, <2>3
  <2> QED BY <2>1, <2>2, <2>3
<1>8. ASSUME NEW a \in Agents, AppendFails(a) \/ Publish(a)
      PROVE  outbox'[b][1] \in Stored'
  <2>1. stage' = [stage EXCEPT ![a] = "waiting"] /\ \E q : outbox' = [outbox EXCEPT ![a] = q]
    BY <1>8 DEF AppendFails, fail_fatally, Publish
  <2>2. b # a /\ stage'[b] = stage[b] /\ outbox'[b] = outbox[b]
    BY <1>1, <2>1
  <2> QED BY <1>3, <2>2
<1>9. ASSUME NEW s \in saving, SaveSucceeds(s) \/ SaveFails(s)
      PROVE  outbox'[b][1] \in Stored'
  BY <1>3, <1>9 DEF SaveSucceeds, SaveFails
<1>10. CASE CheckpointReads \/ CheckpointBuilds \/ restore
  BY <1>3, <1>10 DEF CheckpointReads, CheckpointBuilds, restore
<1>11. CASE Crash
  BY <1>11 DEF Crash, AllWaiting
<1> QED BY <1>4, <1>5, <1>6, <1>7, <1>8, <1>9, <1>10, <1>11 DEF LogNext, Unseen

-----------------------------------------------------------------------------
(***************************************************************************)
(* Where the events that are on their way come from.                       *)
(***************************************************************************)
LEMMA StreamFields ==
    ASSUME TypeOK
    PROVE  /\ \A a \in Agents : /\ channel[a] \in Channels /\ channel[a].queue \in Seq(Envelopes)
                                /\ channel[a].lost \subseteq Envelopes
                                /\ Len(channel[a].queue) <= AgentCapacity
           /\ inbox.queue \in Seq(Envelopes) /\ inbox.lost \subseteq Envelopes
           /\ client.since \in Nat /\ client.last_sent \in Nat /\ client.backlog \in Seq(Envelopes)
           /\ \A e \in Envelopes : e.sequence \in Nat
<1>1. channel \in [Agents -> Channels] /\ inbox \in Channels /\ client \in Subscriptions
      /\ \A a \in Agents : Len(channel[a].queue) <= AgentCapacity
  BY DEF TypeOK
<1>2. \A ch \in Channels : ch.queue \in Seq(Envelopes) /\ ch.lost \subseteq Envelopes
  BY DEF Channels
<1>3. client.since \in Nat /\ client.last_sent \in Nat /\ client.backlog \in Seq(Envelopes)
  BY <1>1 DEF Subscriptions
<1> QED BY <1>1, <1>2, <1>3, Fields

LEMMA SequenceElements ==
    ASSUME NEW q \in Seq(Envelopes)
    PROVE  /\ \A e \in Envelopes : \A x \in ToSet(Append(q, e)) : x = e \/ x \in ToSet(q)
           /\ q # <<>> => q[1] \in ToSet(q) /\ q[1] \in Envelopes /\ \A x \in ToSet(Tail(q)) : x \in ToSet(q)
BY DEF ToSet

\* No event appears from nowhere: it was on its way, or is stored, or an agent
\* publishes it.
LEMMA NothingFromNowhere ==
    ASSUME TypeOK, StageInv, [Next]_vars
    PROVE  \A e \in OnTheWay' : \/ e \in OnTheWay \/ e \in Stored
                                \/ \E a \in Agents : stage[a] = "committed" /\ e = outbox[a][1]
<1> DEFINE Known(e) == \/ e \in OnTheWay \/ e \in Stored
                       \/ \E a \in Agents : stage[a] = "committed" /\ e = outbox[a][1]
<1>1. SUFFICES /\ \A b \in Agents : \A e \in ToSet(channel'[b].queue) : Known(e)
               /\ \A e \in ToSet(inbox'.queue) : Known(e)
               /\ \A e \in ToSet(client'.backlog) : Known(e)
               /\ \A e \in ToSet(got') : Known(e)
  <2> HIDE DEF Known
  <2>1. \A e \in OnTheWay' : \/ \E b \in Agents : e \in ToSet(channel'[b].queue)
                             \/ e \in ToSet(inbox'.queue) \/ e \in ToSet(client'.backlog) \/ e \in ToSet(got')
    <3> DEFINE U == UNION {ToSet(channel'[a].queue) : a \in Agents}
               X == ToSet(inbox'.queue)
               Y == ToSet(client'.backlog)
               Z == ToSet(got')
    <3>1. OnTheWay' = U \cup X \cup Y \cup Z
      BY Zenon DEF OnTheWay, InTransit
    <3>2. \A e \in U : \E b \in Agents : e \in ToSet(channel'[b].queue)
      BY Zenon
    <3> HIDE DEF U, X, Y, Z
    <3>3. \A e \in OnTheWay' : e \in U \/ e \in X \/ e \in Y \/ e \in Z
      BY <3>1
    <3> QED BY <3>2, <3>3 DEF X, Y, Z
  <2>2. \A e \in OnTheWay' : Known(e)
    BY <1>1, <2>1
  <2> QED BY <2>2 DEF Known
<1>2. /\ \A b \in Agents : \A e \in ToSet(channel[b].queue) : Known(e)
      /\ \A e \in ToSet(inbox.queue) : Known(e)
      /\ \A e \in ToSet(client.backlog) : Known(e)
      /\ \A e \in ToSet(got) : Known(e)
  <2>1. \A b \in Agents : \A e \in ToSet(channel[b].queue) : e \in OnTheWay
    BY Zenon DEF OnTheWay, InTransit
  <2>2. \A e : e \in ToSet(inbox.queue) \/ e \in ToSet(client.backlog) \/ e \in ToSet(got) => e \in OnTheWay
    BY Zenon DEF OnTheWay, InTransit
  <2> QED BY <2>1, <2>2
<1>3. \A e \in Stored : Known(e)
  OBVIOUS
<1>4. \A a \in Agents : stage[a] = "committed" => Known(outbox[a][1])
  OBVIOUS
<1> HIDE DEF Known
<1>5. ToSet(<<>>) = {} /\ EmptyChannel.queue = <<>>
  BY DEF ToSet, EmptyChannel
<1>6. channel \in [Agents -> Channels] /\ client \in Subscriptions /\ inbox \in Channels /\ LogTypeOK
      /\ got \in Seq(Envelopes)
  BY DEF TypeOK
<1>7. CASE UNCHANGED streamVars
  BY <1>2, <1>7 DEF streamVars
<1>8. ASSUME NEW a \in Agents, publish(a)
      PROVE  \A b \in Agents : \A e \in ToSet(channel'[b].queue) : Known(e)
  <2> DEFINE e0 == outbox[a][1]
             after == Send(channel[a], e0, AgentCapacity)
  <2>1. channel' = [channel EXCEPT ![a] = after] /\ stage[a] = "committed"
    BY <1>8 DEF publish, Publish
  <2>2. channel[a] \in Channels /\ Len(channel[a].queue) <= AgentCapacity
    BY StreamFields
  <2>3. e0 \in Envelopes /\ AgentCapacity \in Nat \ {0}
    <3>1. outbox[a] \in Seq(Envelopes)
      BY Pieces, <1>6
    <3> QED BY <2>1, <3>1, StreamAssumption DEF StageInv
  <2>4. \A i \in DOMAIN after.queue :
           after.queue[i] = e0 \/ \E j \in DOMAIN channel[a].queue : after.queue[i] = channel[a].queue[j]
    BY <2>2, <2>3, SendOne
  <2>5. \A e \in ToSet(after.queue) : e = e0 \/ e \in ToSet(channel[a].queue)
    BY <2>4 DEF ToSet
  <2> HIDE DEF after, e0
  <2>6. \A b \in Agents : (b = a /\ channel'[b] = after) \/ channel'[b] = channel[b]
    BY <1>6, <2>1
  <2>7. Known(e0)
    BY <1>4, <2>1 DEF e0
  <2> QED BY <1>2, <2>5, <2>6, <2>7
<1>9. CASE \E a \in Agents : publish(a)
  <2>1. inbox' = inbox /\ client' = client /\ got' = got
    BY <1>9 DEF publish
  <2> QED BY <1>2, <1>8, <1>9, <2>1
<1>10. CASE poll_receivers
  <2> DEFINE q == channel[Receivers[turn]].queue
  <2>1. Receivers[turn] \in Agents /\ SubscriberCapacity \in Nat \ {0}
    BY StreamAssumption DEF TypeOK, Agents
  <2>2. q \in Seq(Envelopes) /\ \A e \in ToSet(q) : Known(e)
    BY <1>2, <2>1, StreamFields
  <2>3. channel' = [channel EXCEPT ![Receivers[turn]] = EmptyChannel] /\ client' = client /\ got' = got
    BY <1>10 DEF poll_receivers
  <2>4. \A b \in Agents : \A e \in ToSet(channel'[b].queue) : Known(e)
    BY <1>2, <1>5, <1>6, <2>1, <2>3
  <2>5. \A e \in ToSet(inbox'.queue) : Known(e)
    <3>1. CASE inbox' = inbox
      BY <1>2, <3>1
    <3>2. ASSUME NEW sent, SentBy(sent, q), inbox' = sent[Len(q)]
          PROVE  \A e \in ToSet(inbox'.queue) : Known(e)
      <4>1. Len(inbox.queue) <= SubscriberCapacity
        BY DEF TypeOK
      <4>2. \A i \in DOMAIN inbox'.queue : \/ \E j \in DOMAIN inbox.queue : inbox'.queue[i] = inbox.queue[j]
                                           \/ \E j \in DOMAIN q : inbox'.queue[i] = q[j]
        <5> HIDE DEF q
        <5> QED BY <1>6, <2>2, <3>2, <4>1, SendMany
      <4> HIDE DEF q
      <4> QED BY <1>2, <2>2, <4>2 DEF ToSet
    <3> QED BY <1>10, <2>2, <3>1, <3>2, PollSends
  <2> QED BY <1>2, <2>3, <2>4, <2>5
<1>11. CASE Subscribe \/ Disconnect
  <2>1. channel' = channel /\ got' = got /\ inbox' = EmptyChannel
        /\ (client'.backlog = client.backlog \/ client'.backlog = <<>>)
    BY <1>6, <1>11 DEF Subscribe, Disconnect, Hangup, Subscriptions
  <2> QED BY <1>2, <1>5, <2>1
<1>12. CASE ReadBacklog
  <2>1. channel' = channel /\ got' = got /\ inbox' = inbox /\ client'.backlog = events_since(client.since)
    BY <1>6, <1>12 DEF ReadBacklog, Subscriptions
  <2>2. SelectedFrom(client'.backlog, Len(events), client.since)
    BY <1>6, <2>1, StreamFields, SinceSelects DEF LogTypeOK
  <2>3. \A e \in ToSet(client'.backlog) : e \in Stored
    BY <2>2 DEF SelectedFrom, ToSet, Stored
  <2> QED BY <1>2, <1>3, <2>1, <2>3
<1>13. CASE replay_backlog
  <2>1. /\ channel' = channel /\ inbox' = inbox /\ client.backlog # <<>>
        /\ got' = Append(got, client.backlog[1]) /\ client'.backlog = Tail(client.backlog)
    BY <1>6, <1>13 DEF replay_backlog, Deliver, Subscriptions
  <2> QED BY <1>2, <1>6, <2>1, StreamFields, SequenceElements
<1>14. CASE GoLive
  <2>1. channel' = channel /\ got' = got /\ inbox' = inbox /\ client'.backlog = client.backlog
    BY <1>6, <1>14 DEF GoLive, Subscriptions
  <2> QED BY <1>2, <2>1
<1>15. CASE forward_live_events
  <2>1. /\ channel' = channel /\ inbox.queue # <<>> /\ inbox'.queue = Tail(inbox.queue)
        /\ client'.backlog = client.backlog /\ (got' = got \/ got' = Append(got, inbox.queue[1]))
    BY <1>6, <1>15 DEF forward_live_events, Deliver, Subscriptions, Channels
  <2>2. /\ \A e \in ToSet(inbox'.queue) : e \in ToSet(inbox.queue)
        /\ inbox.queue[1] \in ToSet(inbox.queue) /\ inbox.queue[1] \in Envelopes
    BY <2>1, StreamFields, SequenceElements
  <2>3. \A e \in ToSet(got') : e \in ToSet(got) \/ e = inbox.queue[1]
    BY <1>6, <2>1, <2>2, SequenceElements
  <2> QED BY <1>2, <2>1, <2>2, <2>3
<1>16. CASE SignalGap
  <2>1. channel' = channel /\ got' = got /\ inbox'.queue = inbox.queue /\ client'.backlog = client.backlog
    BY <1>6, <1>16 DEF SignalGap, Subscriptions, Channels
  <2> QED BY <1>2, <2>1
<1>17. CASE crash
  <2>1. /\ \A b \in Agents : channel'[b] = EmptyChannel
        /\ got' = got /\ inbox' = EmptyChannel /\ client'.backlog = <<>>
    BY <1>6, <1>17 DEF crash, Hangup, Subscriptions
  <2> QED BY <1>2, <1>5, <2>1
<1>18. CASE (Unseen /\ UNCHANGED streamVars) \/ UNCHANGED vars
  BY <1>7, <1>18 DEF vars
<1> QED
  BY <1>9, <1>10, <1>11, <1>12, <1>13, <1>14, <1>15, <1>16, <1>17, <1>18 DEF Next

LEMMA PublishedStep ==
    ASSUME StreamInv, [Next]_vars
    PROVE  PublishedIsStored'
<1> SUFFICES ASSUME policy = "Strict", NEW e \in OnTheWay', is_durable(e)
             PROVE  e \in Stored'
  BY DEF PublishedIsStored, OnTheWay
<1>1. \A f \in Stored : f \in Stored'
  BY NextIsLogStep, StoredGrows DEF StreamInv, TypeOK
<1>2. CASE e \in OnTheWay
  BY <1>1, <1>2 DEF StreamInv, PublishedIsStored, OnTheWay
<1>3. ASSUME NEW a \in Agents, stage[a] = "committed", e = outbox[a][1]
      PROVE  e \in Stored'
  BY <1>1, <1>3 DEF StreamInv, CommittedInv
<1> QED BY <1>1, <1>2, <1>3, NothingFromNowhere DEF StreamInv, LogInv

-----------------------------------------------------------------------------
(***************************************************************************)
(* Types and the cursor.                                                   *)
(***************************************************************************)
LEMMA HighestOfTwo ==
    ASSUME NEW m \in Nat, NEW n \in Nat, m <= n
    PROVE  Highest({m, n}) = n
<1> DEFINE h == Highest({m, n})
<1>1. h \in {m, n} /\ \A k \in {m, n} : k <= h
  <2>1. \E k \in {m, n} : \A l \in {m, n} : l <= k
    OBVIOUS
  <2> QED BY <2>1 DEF Highest
<1> HIDE DEF h
<1> QED BY <1>1 DEF h

LEMMA ChannelStep ==
    ASSUME StreamInv, [Next]_vars
    PROVE  /\ channel' \in [Agents -> Channels] /\ \A a \in Agents : Len(channel'[a].queue) <= AgentCapacity
           /\ turn' \in DOMAIN Receivers /\ overrun' \subseteq Envelopes
<1> DEFINE Done == /\ channel' \in [Agents -> Channels] /\ \A a \in Agents : Len(channel'[a].queue) <= AgentCapacity
                   /\ turn' \in DOMAIN Receivers /\ overrun' \subseteq Envelopes
<1> SUFFICES Done
  OBVIOUS
<1>1. /\ channel \in [Agents -> Channels] /\ \A a \in Agents : Len(channel[a].queue) <= AgentCapacity
      /\ turn \in DOMAIN Receivers /\ overrun \subseteq Envelopes
      /\ LogTypeOK /\ StageInv
  BY DEF StreamInv, TypeOK, LogInv
<1>2. EmptyChannel \in Channels /\ Len(EmptyChannel.queue) = 0 /\ AgentCapacity \in Nat \ {0}
  BY StreamAssumption DEF EmptyChannel, Channels
<1>3. CASE UNCHANGED <<channel, turn, overrun>>
  BY <1>1, <1>3
<1>4. ASSUME NEW a \in Agents, publish(a)
      PROVE  channel' \in [Agents -> Channels] /\ \A b \in Agents : Len(channel'[b].queue) <= AgentCapacity
  <2> DEFINE after == Send(channel[a], outbox[a][1], AgentCapacity)
  <2>1. channel' = [channel EXCEPT ![a] = after] /\ outbox[a] # <<>>
    BY <1>1, <1>4 DEF publish, Publish, StageInv
  <2>2. outbox[a][1] \in Envelopes
    BY <1>1, <2>1, Pieces
  <2>3. after \in Channels /\ Len(after.queue) <= AgentCapacity
    BY <1>1, <1>2, <2>2, SendOne
  <2> HIDE DEF after
  <2> QED BY <1>1, <2>1, <2>3
<1>5. CASE \E a \in Agents : publish(a)
  <2>1. UNCHANGED <<turn, overrun>>
    BY <1>5 DEF publish
  <2> QED BY <1>1, <1>4, <1>5, <2>1
<1>6. CASE poll_receivers
  <2>1. /\ channel' = [channel EXCEPT ![Receivers[turn]] = EmptyChannel] /\ turn' = NextReceiver
        /\ overrun' = overrun \cup channel[Receivers[turn]].lost
    BY <1>6 DEF poll_receivers
  <2>2. Receivers[turn] \in Agents
    BY <1>1 DEF Agents
  <2>3. channel[Receivers[turn]].lost \subseteq Envelopes
    BY <2>2, StreamFields DEF StreamInv
  <2>4. turn' \in DOMAIN Receivers
    <3>1. Len(Receivers) \in Nat /\ DOMAIN Receivers = 1..Len(Receivers)
      BY LogAssumption
    <3> QED BY <1>1, <2>1, <3>1 DEF NextReceiver
  <2>5. channel' \in [Agents -> Channels]
    BY <1>1, <1>2, <2>1
  <2>6. \A b \in Agents : Len(channel'[b].queue) <= AgentCapacity
    BY <1>1, <1>2, <2>1
  <2> QED BY <1>1, <2>1, <2>3, <2>4, <2>5, <2>6
<1>7. CASE crash
  <2>1. channel' = [a \in Agents |-> EmptyChannel] /\ turn' = 1 /\ overrun' = overrun
    BY <1>7 DEF crash
  <2>2. 1 \in DOMAIN Receivers
    BY LogAssumption
  <2> QED BY <1>1, <1>2, <2>1, <2>2
<1>8. CASE Subscribe \/ ReadBacklog \/ replay_backlog \/ GoLive \/ forward_live_events \/ SignalGap \/ Disconnect
  BY <1>3, <1>8 DEF Subscribe, ReadBacklog, replay_backlog, GoLive, forward_live_events, SignalGap, Disconnect
<1>9. CASE (Unseen /\ UNCHANGED streamVars) \/ UNCHANGED vars
  BY <1>3, <1>9 DEF vars, streamVars
<1> HIDE DEF Done
<1> QED BY <1>5, <1>6, <1>7, <1>8, <1>9 DEF Next

LEMMA InboxStep ==
    ASSUME StreamInv, [Next]_vars
    PROVE  inbox' \in Channels /\ Len(inbox'.queue) <= SubscriberCapacity
<1> DEFINE Done == inbox' \in Channels /\ Len(inbox'.queue) <= SubscriberCapacity
<1> SUFFICES Done
  OBVIOUS
<1>1. inbox \in Channels /\ Len(inbox.queue) <= SubscriberCapacity /\ turn \in DOMAIN Receivers
  BY DEF StreamInv, TypeOK
<1>2. EmptyChannel \in Channels /\ Len(EmptyChannel.queue) = 0 /\ SubscriberCapacity \in Nat \ {0}
  BY StreamAssumption DEF EmptyChannel, Channels
<1>3. CASE inbox' = inbox
  BY <1>1, <1>3
<1>4. CASE inbox' = EmptyChannel
  BY <1>2, <1>4
<1>5. CASE poll_receivers
  <2> DEFINE q == channel[Receivers[turn]].queue
  <2>1. Receivers[turn] \in Agents
    BY <1>1 DEF Agents
  <2>2. q \in Seq(Envelopes)
    BY <2>1, StreamFields DEF StreamInv
  <2>3. ASSUME NEW sent, SentBy(sent, q), inbox' = sent[Len(q)]
        PROVE  inbox' \in Channels /\ Len(inbox'.queue) <= SubscriberCapacity
    <3> HIDE DEF q
    <3> QED BY <1>1, <2>2, <2>3, SendMany
  <2> QED BY <1>3, <1>5, <2>2, <2>3, PollSends
<1>6. CASE forward_live_events
  <2>1. inbox' = [inbox EXCEPT !.queue = Tail(inbox.queue)] /\ inbox.queue # <<>>
    BY <1>6 DEF forward_live_events
  <2>2. inbox.queue \in Seq(Envelopes)
    BY StreamFields DEF StreamInv
  <2>3. Tail(inbox.queue) \in Seq(Envelopes) /\ Len(Tail(inbox.queue)) <= SubscriberCapacity
    BY <1>1, <1>2, <2>1, <2>2
  <2>4. inbox'.queue = Tail(inbox.queue) /\ inbox' \in Channels
    BY <1>1, <2>1, <2>3 DEF Channels
  <2> QED BY <2>3, <2>4
<1>7. CASE SignalGap
  <2>1. inbox' = [inbox EXCEPT !.lost = {}]
    BY <1>7 DEF SignalGap
  <2>2. inbox'.queue = inbox.queue /\ inbox' \in Channels
    BY <1>1, <2>1 DEF Channels
  <2> QED BY <1>1, <2>2
<1>8. CASE ReadBacklog \/ replay_backlog \/ GoLive \/ \E a \in Agents : publish(a)
  BY <1>3, <1>8 DEF ReadBacklog, replay_backlog, GoLive, publish
<1>9. CASE Subscribe \/ Disconnect \/ crash
  BY <1>4, <1>9 DEF Subscribe, Disconnect, crash
<1>10. CASE (Unseen /\ UNCHANGED streamVars) \/ UNCHANGED vars
  BY <1>3, <1>10 DEF vars, streamVars
<1> HIDE DEF Done
<1> QED BY <1>5, <1>6, <1>7, <1>8, <1>9, <1>10 DEF Next

\* The parts of the subscription that a step of it changes.
LEMMA ClientStep ==
    ASSUME StreamInv, [Next]_vars
    PROVE  /\ client' \in Subscriptions /\ got' \in Seq(Envelopes)
           /\ CursorInv'
<1> DEFINE Done == /\ client' \in Subscriptions /\ got' \in Seq(Envelopes)
                   /\ CursorInv'
<1> SUFFICES Done
  OBVIOUS
<1>1. /\ client \in Subscriptions /\ got \in Seq(Envelopes) /\ CursorInv
      /\ LogTypeOK /\ StoredInOrder /\ inbox \in Channels
  BY DEF StreamInv, TypeOK, LogInv
<1>2. /\ client.since \in Nat /\ client.last_sent \in Nat /\ client.backlog \in Seq(Envelopes)
      /\ inbox.queue \in Seq(Envelopes) /\ \A e \in Envelopes : e.sequence \in Nat
  BY StreamFields DEF StreamInv
<1>3. CASE UNCHANGED <<client, got>>
  BY <1>1, <1>3 DEF CursorInv, Increasing
\* got, last_sent and what remains of the backlog when an event is sent
<1>4. ASSUME NEW e \in Envelopes, e.sequence > client.last_sent, got' = Append(got, e),
             client'.last_sent = e.sequence, client'.phase # "subscribed",
             client'.backlog \in Seq(Envelopes), Increasing(client'.backlog),
             client'.phase # "replaying" => client'.backlog = <<>>,
             \A i \in DOMAIN client'.backlog : client'.backlog[i].sequence > e.sequence
      PROVE  got' \in Seq(Envelopes) /\ CursorInv'
  <2>1. got' \in Seq(Envelopes)
    BY <1>1, <1>4
  <2>2. \A i \in DOMAIN got' : /\ i = Len(got) + 1 \/ i \in DOMAIN got
                               /\ i \in DOMAIN got => got'[i] = got[i]
                               /\ i = Len(got) + 1 => got'[i] = e
    BY <1>1, <1>4
  <2>3. \A i \in DOMAIN got : got[i].sequence \in Nat /\ got[i].sequence < e.sequence /\ i < Len(got) + 1
    BY <1>1, <1>2, <1>4 DEF CursorInv
  <2>4. \A i \in DOMAIN got' : got'[i].sequence <= client'.last_sent
    BY <1>2, <1>4, <2>2, <2>3
  <2>5. Increasing(got')
    <3> SUFFICES ASSUME NEW i \in DOMAIN got', NEW j \in DOMAIN got', i < j
                 PROVE  got'[i].sequence < got'[j].sequence
      BY DEF Increasing
    <3>1. Len(got) \in Nat /\ DOMAIN got = 1..Len(got) /\ Increasing(got)
      BY <1>1 DEF CursorInv
    <3>2. i \in DOMAIN got
      BY <2>2, <3>1
    <3>3. CASE j \in DOMAIN got
      BY <2>2, <3>1, <3>2, <3>3 DEF Increasing
    <3>4. CASE j = Len(got) + 1
      BY <2>2, <2>3, <3>2, <3>4
    <3> QED BY <2>2, <3>3, <3>4
  <2> QED BY <1>4, <2>1, <2>4, <2>5 DEF CursorInv, Increasing
<1>5. CASE Subscribe
  <2>1. /\ got' = got /\ client' \in Subscriptions /\ client'.phase = "subscribed"
        /\ client'.since = client.last_sent /\ client'.last_sent = client.last_sent
        /\ client'.backlog = client.backlog /\ client.phase = "off"
    <3> DEFINE n == client.last_sent
               m == client.number
               b == client.backlog
    <3>1. /\ client' = [phase |-> "subscribed", since |-> n, last_sent |-> n, backlog |-> b,
                        gap |-> FALSE, number |-> m + 1]
          /\ m \in 0..MaxSubscriptions /\ m < MaxSubscriptions /\ got' = got /\ client.phase = "off"
      BY <1>1, <1>5 DEF Subscribe, Subscriptions
    <3>2. m + 1 \in 0..MaxSubscriptions /\ "subscribed" \in Phases
      BY <3>1, StreamAssumption DEF Phases
    <3> HIDE DEF n, m, b
    <3> QED BY <1>2, <3>1, <3>2 DEF Subscriptions, n, b
  <2> QED BY <1>1, <2>1 DEF CursorInv, Increasing
<1>6. CASE ReadBacklog
  <2> DEFINE q == events_since(client.since)
  <2>1. SelectedFrom(q, Len(events), client.since)
    BY <1>1, <1>2, SinceSelects DEF LogTypeOK
  <2>2. q \in Seq(Envelopes) /\ Increasing(q) /\ \A i \in DOMAIN q : q[i].sequence > client.since
    <3> HIDE DEF q
    <3>1. \A i, j \in DOMAIN q : i < j =>
            \E p, r \in 1..Len(events) : p < r /\ q[i] = events[p] /\ q[j] = events[r]
      BY <2>1 DEF SelectedFrom
    <3>2. \A p, r \in 1..Len(events) : p < r => events[p].sequence < events[r].sequence
      BY <1>1, Pieces DEF StoredInOrder
    <3>3. Increasing(q)
      BY <3>1, <3>2 DEF Increasing
    <3> QED BY <2>1, <3>3 DEF SelectedFrom
  <2>3. client.phase = "subscribed" /\ client' = [client EXCEPT !.phase = "replaying", !.backlog = q] /\ got' = got
    BY <1>6 DEF ReadBacklog
  <2> HIDE DEF q
  <2>4. /\ client' \in Subscriptions /\ client'.phase = "replaying"
        /\ client'.last_sent = client.last_sent /\ client'.backlog = q
    BY <1>1, <2>2, <2>3 DEF Subscriptions, Phases
  <2> QED BY <1>1, <2>2, <2>3, <2>4 DEF CursorInv, Increasing
<1>7. CASE replay_backlog
  <2> DEFINE q == client.backlog
             e == client.backlog[1]
  <2>1. /\ got' = Append(got, e) /\ q # <<>> /\ client.phase = "replaying"
        /\ client' = [client EXCEPT !.backlog = Tail(q), !.last_sent = Highest({client.last_sent, e.sequence})]
    BY <1>7 DEF replay_backlog, Deliver
  <2>2. e \in Envelopes /\ e.sequence \in Nat /\ e.sequence > client.last_sent
    BY <1>1, <1>2, <2>1 DEF CursorInv
  <2>3. Highest({client.last_sent, e.sequence}) = e.sequence
    BY <1>2, <2>2, HighestOfTwo
  <2>4. /\ Tail(q) \in Seq(Envelopes) /\ Increasing(Tail(q))
        /\ \A i \in DOMAIN Tail(q) : Tail(q)[i].sequence > e.sequence
    <3>1. Tail(q) \in Seq(Envelopes) /\ \A i \in DOMAIN Tail(q) : i + 1 \in DOMAIN q /\ i \in Nat /\ i >= 1 /\ Tail(q)[i] = q[i + 1]
      BY <1>2, <2>1
    <3>2. Increasing(q) /\ 1 \in DOMAIN q
      BY <1>1, <1>2, <2>1 DEF CursorInv
    <3> DEFINE t == Tail(q)
    <3> HIDE DEF t
    <3>3. Increasing(t)
      <4> SUFFICES ASSUME NEW i \in DOMAIN t, NEW j \in DOMAIN t, i < j
                   PROVE  t[i].sequence < t[j].sequence
        BY DEF Increasing
      <4>1. i + 1 \in DOMAIN q /\ j + 1 \in DOMAIN q /\ i + 1 < j + 1 /\ t[i] = q[i + 1] /\ t[j] = q[j + 1]
        BY <3>1 DEF t
      <4>2. q[i + 1].sequence < q[j + 1].sequence
        BY <3>2, <4>1 DEF Increasing
      <4> QED BY <4>1, <4>2
    <3>4. \A i \in DOMAIN t : q[i + 1].sequence > q[1].sequence
      <4> TAKE i \in DOMAIN t
      <4>1. i + 1 \in DOMAIN q /\ 1 < i + 1
        BY <3>1 DEF t
      <4>2. q[1].sequence < q[i + 1].sequence
        BY <3>2, <4>1 DEF Increasing
      <4>3. q[1].sequence \in Nat /\ q[i + 1].sequence \in Nat
        BY <1>2, <3>2, <4>1
      <4> QED BY <4>2, <4>3
    <3> QED BY <3>1, <3>3, <3>4 DEF t
  <2> HIDE DEF q, e
  <2>5. /\ client' \in Subscriptions /\ client'.phase = "replaying"
        /\ client'.last_sent = e.sequence /\ client'.backlog = Tail(q)
    BY <1>1, <2>1, <2>2, <2>3, <2>4 DEF Subscriptions
  <2> QED BY <1>4, <2>1, <2>2, <2>4, <2>5
<1>8. CASE GoLive
  <2>1. /\ got' = got /\ client' \in Subscriptions /\ client'.phase = "live"
        /\ client'.last_sent = client.last_sent /\ client'.backlog = client.backlog /\ client.backlog = <<>>
    BY <1>1, <1>8 DEF GoLive, Subscriptions, Phases
  <2> QED BY <1>1, <2>1 DEF CursorInv, Increasing
<1>9. CASE forward_live_events
  <2> DEFINE e == inbox.queue[1]
  <2>1. CASE ~fresh_sequence(e)
    BY <1>3, <1>9, <2>1 DEF forward_live_events
  <2>2. CASE fresh_sequence(e)
    <3>1. /\ e \in Envelopes /\ e.sequence \in Nat /\ e.sequence > client.last_sent /\ got' = Append(got, e)
          /\ client' = [client EXCEPT !.last_sent = e.sequence] /\ client.phase = "live"
      BY <1>2, <1>9, <2>2 DEF forward_live_events, Deliver, fresh_sequence
    <3> HIDE DEF e
    <3>2. client.backlog = <<>>
      BY <1>1, <3>1 DEF CursorInv
    <3>3. /\ client' \in Subscriptions /\ client'.phase = "live"
          /\ client'.last_sent = e.sequence /\ client'.backlog = <<>>
      BY <1>1, <3>1, <3>2 DEF Subscriptions
    <3>4. <<>> \in Seq(Envelopes) /\ Increasing(<<>>) /\ \A i \in DOMAIN <<>> : FALSE
      BY DEF Increasing
    <3> QED BY <1>4, <3>1, <3>3, <3>4
  <2> QED BY <2>1, <2>2
<1>10. CASE SignalGap
  <2>1. /\ got' = got /\ client' \in Subscriptions /\ client'.phase = client.phase
        /\ client'.since = client.since /\ client'.last_sent = client.last_sent
        /\ client'.backlog = client.backlog
    BY <1>1, <1>10 DEF SignalGap, Subscriptions, Phases
  <2> QED BY <1>1, <2>1 DEF CursorInv, Increasing
<1>11. CASE Disconnect \/ crash
  <2>1. got' = got /\ client' = Hangup(client)
    BY <1>11 DEF Disconnect, crash
  <2>2. /\ client' \in Subscriptions /\ client'.phase = "off"
        /\ client'.last_sent = client.last_sent /\ client'.backlog = <<>>
    <3> DEFINE n == client.last_sent
               m == client.number
    <3>1. client' = [phase |-> "off", since |-> n, last_sent |-> n, backlog |-> <<>>, gap |-> FALSE, number |-> m]
          /\ m \in 0..MaxSubscriptions
      BY <1>1, <2>1 DEF Hangup, Subscriptions
    <3>2. <<>> \in Seq(Envelopes) /\ "off" \in Phases
      BY DEF Phases
    <3> HIDE DEF n, m
    <3> QED BY <1>2, <3>1, <3>2 DEF Subscriptions, n
  <2> QED BY <1>1, <2>1, <2>2 DEF CursorInv, Increasing
<1>12. CASE poll_receivers \/ \E a \in Agents : publish(a)
  BY <1>3, <1>12 DEF poll_receivers, publish
<1>13. CASE (Unseen /\ UNCHANGED streamVars) \/ UNCHANGED vars
  BY <1>3, <1>13 DEF vars, streamVars
<1> HIDE DEF Done
<1> QED BY <1>5, <1>6, <1>7, <1>8, <1>9, <1>10, <1>11, <1>12, <1>13 DEF Next

LEMMA InitStreamInv == Init => StreamInv
<1> SUFFICES ASSUME Init PROVE StreamInv
  OBVIOUS
<1>1. LogInv
  BY InitLogInv DEF Init
<1>2. channel = [a \in Agents |-> EmptyChannel] /\ inbox = EmptyChannel /\ got = <<>> /\ client.backlog = <<>>
      /\ client.phase = "off" /\ turn = 1 /\ overrun = {}
  BY DEF Init
<1>3. EmptyChannel \in Channels /\ EmptyChannel.queue = <<>> /\ AgentCapacity \in Nat /\ SubscriberCapacity \in Nat
  BY StreamAssumption DEF EmptyChannel, Channels
<1>4. client \in Subscriptions
  BY StreamAssumption DEF Init, Subscriptions, Phases
<1>5. TypeOK
  <2>1. 1 \in DOMAIN Receivers
    BY LogAssumption
  <2>2. LogTypeOK
    BY <1>1 DEF LogInv
  <2> QED BY <1>2, <1>3, <1>4, <2>1, <2>2 DEF TypeOK
<1>6. CommittedInv
  BY DEF Init, LogInit, AllWaiting, CommittedInv
<1>7. PublishedIsStored
  <2>1. ToSet(<<>>) = {}
    BY DEF ToSet
  <2> QED BY <1>2, <1>3, <2>1 DEF PublishedIsStored, InTransit
<1>8. CursorInv
  BY <1>2 DEF CursorInv, Increasing
<1> QED BY <1>1, <1>5, <1>6, <1>7, <1>8 DEF StreamInv

LEMMA StepStreamInv == StreamInv /\ [Next]_vars => StreamInv'
<1> SUFFICES ASSUME StreamInv, [Next]_vars PROVE StreamInv'
  OBVIOUS
<1>1. LogInv' /\ CommittedInv'
  BY NextIsLogStep, StepLogInv, CommittedStep DEF StreamInv
<1>2. TypeOK'
  BY <1>1, ChannelStep, InboxStep, ClientStep DEF TypeOK, LogInv
<1> QED BY <1>1, <1>2, PublishedStep, ClientStep DEF StreamInv

LEMMA AlwaysStreamInv == Spec => []StreamInv
BY InitStreamInv, StepStreamInv, PTL DEF Spec

\* Every variable of the session's log and of the stream keeps its type, and
\* no channel grows past its capacity.
THEOREM StreamTypeCorrect == Spec => []TypeOK
<1>1. StreamInv => TypeOK
  BY DEF StreamInv
<1> QED BY <1>1, AlwaysStreamInv, PTL

\* The commit boundary (SessionCommitter::commit before broadcast): under the
\* strict policy every durable event that is on its way to a subscriber, or
\* reached one in any life of the process, is in the store.
THEOREM CommitComesFirst == Spec => []PublishedIsStored
<1>1. StreamInv => PublishedIsStored
  BY DEF StreamInv
<1> QED BY <1>1, AlwaysStreamInv, PTL

\* No event is sent to the client twice (replay_backlog, forward_live_events,
\* fresh_sequence), over all its subscriptions and lives of the process.
THEOREM NothingIsSentTwice == Spec => []NoDuplicates
<1>1. StreamInv => NoDuplicates
  <2> SUFFICES ASSUME StreamInv, NEW i \in DOMAIN got, NEW j \in DOMAIN got, i # j
               PROVE  got[i] # got[j]
    BY DEF NoDuplicates
  <2>1. got \in Seq(Envelopes) /\ Increasing(got) /\ got[i].sequence \in Nat /\ got[j].sequence \in Nat
        /\ (i < j \/ j < i)
    BY Fields DEF StreamInv, TypeOK, CursorInv
  <2>2. got[i].sequence < got[j].sequence \/ got[j].sequence < got[i].sequence
    BY <2>1 DEF Increasing
  <2> QED BY <2>1, <2>2
<1> QED BY <1>1, AlwaysStreamInv, PTL

-----------------------------------------------------------------------------
(***************************************************************************)
(* Where an event is on its way, and in which order it arrives.            *)
(***************************************************************************)

\* What the bus has not taken from an agent's channel, lost or not.
Held(a) == ToSet(channel[a].queue) \cup channel[a].lost

\* What was published and the subscription has not looked at.
Flying == {x \in Envelopes : x \in ToSet(inbox.queue) \/ \E a \in Agents : x \in Held(a)}

\* What this subscription sent, or is about to replay.
Seen == {x \in Envelopes : \/ x \in ToSet(client.backlog)
                           \/ x \in ToSet(got) /\ x.sequence > client.since}

InTurn(q) ==
    \A i, j \in DOMAIN q : i < j /\ q[i].agent = q[j].agent => q[i].sequence < q[j].sequence

\* The events of one agent stay in their order: within its channel, and in
\* the client's channel before what is still in the agent's.
RouteInv ==
    /\ \A a \in Agents : Increasing(channel[a].queue)
    /\ \A a \in Agents : \A y \in Held(a) :
         /\ y.agent = a
         /\ \A x \in ToSet(inbox.queue) : x.agent = a => x.sequence < y.sequence
    /\ ~client.gap /\ inbox.lost = {} => InTurn(inbox.queue)

\* An event about to be published is newer than its agent's that were; one
\* about to be stored is newer than all that were published or sent.
HeadInv ==
    \A a \in Agents :
        /\ stage[a] = "committed" =>
             \A x \in Flying : x.agent = a => x.sequence < outbox[a][1].sequence
        /\ stage[a] = "numbered" =>
             \A x \in Flying \cup Seen : x.sequence < outbox[a][1].sequence

\* What is published or sent is stored or was numbered in this life of the
\* process, and no stored event of another agent has its number.
OriginInv ==
    /\ \A x \in Flying \cup Seen : x \in Stored \/ x.sequence < next
    /\ \A e \in Stored :
         /\ \A x \in Flying \cup Seen : x.sequence = e.sequence => x.agent = e.agent
         /\ \A a \in Agents : stage[a] = "committed" /\ outbox[a][1].sequence = e.sequence =>
              e.agent = a

\* Past where it began, the cursor is the number of an event that was sent.
SinceInv ==
    /\ client.phase = "off" =>
         client.since = client.last_sent /\ inbox = EmptyChannel /\ ~client.gap
    /\ client.since <= client.last_sent
    /\ client.last_sent > client.since => \E f \in ToSet(got) : f.sequence = client.last_sent

Explained(e) ==
    e \in ToSet(got) \cup overrun \/ client.gap \/ inbox.lost # {} \/ Overtaken(e)

\* The event is ahead of the subscription, which sent none of its agent's
\* that is newer.
Coming(e) ==
    /\ \/ e \in ToSet(inbox.queue) \/ e \in Held(e.agent)
       \/ stage[e.agent] = "committed" /\ outbox[e.agent][1] = e
    /\ \A x \in Seen : x.agent = e.agent => x.sequence < e.sequence

\* Once the backlog is read, a stored event past the client's cursor was sent,
\* is about to be, is on its way, or is a loss that is explained.
SentInv ==
    client.phase \in {"replaying", "live"} =>
        \A e \in Stored : e.sequence > client.since =>
            Explained(e) \/ e \in ToSet(client.backlog) \/ Coming(e)

FlowInv == RouteInv /\ HeadInv /\ OriginInv /\ SinceInv /\ SentInv

-----------------------------------------------------------------------------
(***************************************************************************)
(* Sequences as the sets of their elements.                                *)
(***************************************************************************)
LEMMA Elements ==
    ASSUME NEW q \in Seq(Envelopes)
    PROVE  /\ ToSet(q) \subseteq Envelopes
           /\ \A e \in Envelopes : ToSet(Append(q, e)) = ToSet(q) \cup {e}
           /\ q # <<>> => q[1] \in Envelopes /\ ToSet(q) = ToSet(Tail(q)) \cup {q[1]}
<1>1. ToSet(q) \subseteq Envelopes
  BY DEF ToSet
<1>2. ASSUME NEW e \in Envelopes
      PROVE  ToSet(Append(q, e)) = ToSet(q) \cup {e}
  <2> DEFINE p == Append(q, e)
  <2>1. /\ \A i \in DOMAIN p : (i \in DOMAIN q /\ p[i] = q[i]) \/ p[i] = e
        /\ \A i \in DOMAIN q : i \in DOMAIN p /\ p[i] = q[i]
        /\ Len(q) + 1 \in DOMAIN p /\ p[Len(q) + 1] = e
    OBVIOUS
  <2> HIDE DEF p
  <2>2. ToSet(p) = ToSet(q) \cup {e}
    BY <2>1 DEF ToSet
  <2> QED BY <2>2 DEF p
<1>3. ASSUME q # <<>>
      PROVE  q[1] \in Envelopes /\ ToSet(q) = ToSet(Tail(q)) \cup {q[1]}
  <2> DEFINE t == Tail(q)
  <2>1. /\ \A i \in DOMAIN t : i + 1 \in DOMAIN q /\ t[i] = q[i + 1]
        /\ \A i \in DOMAIN q : i = 1 \/ (i - 1 \in DOMAIN t /\ t[i - 1] = q[i])
        /\ 1 \in DOMAIN q /\ q[1] \in Envelopes
    BY <1>3
  <2> HIDE DEF t
  <2>2. ToSet(q) = ToSet(t) \cup {q[1]}
    BY <2>1 DEF ToSet
  <2> QED BY <2>1, <2>2 DEF t
<1> QED BY <1>1, <1>2, <1>3

LEMMA JoinElements ==
    ASSUME NEW p \in Seq(Envelopes), NEW q \in Seq(Envelopes)
    PROVE  ToSet(p \o q) = ToSet(p) \cup ToSet(q)
<1> DEFINE r == p \o q
<1>1. /\ \A i \in DOMAIN r : \/ i \in DOMAIN p /\ r[i] = p[i]
                             \/ i - Len(p) \in DOMAIN q /\ r[i] = q[i - Len(p)]
      /\ \A i \in DOMAIN p : i \in DOMAIN r /\ r[i] = p[i]
      /\ \A i \in DOMAIN q : i + Len(p) \in DOMAIN r /\ r[i + Len(p)] = q[i]
  OBVIOUS
<1> HIDE DEF r
<1>2. ToSet(r) = ToSet(p) \cup ToSet(q)
  BY <1>1 DEF ToSet
<1> QED BY <1>2 DEF r

LEMMA NoElements == ToSet(<<>>) = {} /\ EmptyChannel.queue = <<>> /\ EmptyChannel.lost = {}
BY DEF ToSet, EmptyChannel

\* A queue stays in order without its first, and with a newer one at its end.
LEMMA StaysIncreasing ==
    ASSUME NEW q \in Seq(Envelopes), Increasing(q)
    PROVE  /\ q # <<>> => Increasing(Tail(q))
           /\ \A e \in Envelopes : (\A x \in ToSet(q) : x.sequence < e.sequence) => Increasing(Append(q, e))
<1>1. ASSUME q # <<>>
      PROVE  Increasing(Tail(q))
  <2> DEFINE t == Tail(q)
  <2>1. \A i \in DOMAIN t : i \in Nat /\ i + 1 \in DOMAIN q /\ t[i] = q[i + 1]
    BY <1>1
  <2> HIDE DEF t
  <2>2. ASSUME NEW i \in DOMAIN t, NEW j \in DOMAIN t, i < j
        PROVE  t[i].sequence < t[j].sequence
    <3>1. i + 1 \in DOMAIN q /\ j + 1 \in DOMAIN q /\ i + 1 < j + 1 /\ t[i] = q[i + 1] /\ t[j] = q[j + 1]
      BY <2>1, <2>2
    <3> QED BY <3>1 DEF Increasing
  <2> QED BY <2>2 DEF Increasing, t
<1>2. ASSUME NEW e \in Envelopes, \A x \in ToSet(q) : x.sequence < e.sequence
      PROVE  Increasing(Append(q, e))
  <2> DEFINE p == Append(q, e)
  <2>1. /\ \A i \in DOMAIN p : (i \in DOMAIN q /\ p[i] = q[i]) \/ (i = Len(q) + 1 /\ p[i] = e)
        /\ \A i \in DOMAIN q : i \in Nat /\ i < Len(q) + 1
    <3>1. Len(q) \in Nat /\ DOMAIN q = 1..Len(q) /\ DOMAIN p = 1..(Len(q) + 1)
      OBVIOUS
    <3>2. p[Len(q) + 1] = e /\ \A i \in 1..Len(q) : p[i] = q[i]
      OBVIOUS
    <3> HIDE DEF p
    <3> QED BY <3>1, <3>2
  <2> HIDE DEF p
  <2>2. \A i \in DOMAIN q : q[i].sequence < e.sequence
    BY <1>2 DEF ToSet
  <2>3. ASSUME NEW i \in DOMAIN p, NEW j \in DOMAIN p, i < j
        PROVE  p[i].sequence < p[j].sequence
    <3>1. CASE i \in DOMAIN q /\ j \in DOMAIN q
      <4>1. p[i] = q[i] /\ p[j] = q[j]
        BY <2>1, <3>1
      <4> QED BY <2>3, <3>1, <4>1 DEF Increasing
    <3>2. CASE i \in DOMAIN q /\ j = Len(q) + 1
      BY <2>1, <2>2, <3>2
    <3>3. CASE i = Len(q) + 1
      <4>1. Len(q) \in Nat /\ ~(Len(q) + 1 < Len(q) + 1)
        OBVIOUS
      <4>2. ~(\E k \in DOMAIN q : Len(q) + 1 < k)
        BY <2>1, <4>1
      <4> QED BY <2>1, <2>3, <3>3, <4>1, <4>2
    <3> QED BY <2>1, <3>1, <3>2, <3>3
  <2> QED BY <2>3 DEF Increasing, p
<1> QED BY <1>1, <1>2

\* Publishing: the agent's channel holds one more, in order.
LEMMA SendKeeps ==
    ASSUME NEW ch \in Channels, NEW e \in Envelopes, NEW capacity \in Nat \ {0},
           Len(ch.queue) <= capacity, Increasing(ch.queue),
           \A x \in ToSet(ch.queue) : x.sequence < e.sequence
    PROVE  LET after == Send(ch, e, capacity)
           IN  /\ Increasing(after.queue)
               /\ ToSet(after.queue) \cup after.lost = ToSet(ch.queue) \cup ch.lost \cup {e}
<1> DEFINE after == Send(ch, e, capacity)
           q == ch.queue
<1>1. q \in Seq(Envelopes) /\ ch = [queue |-> q, lost |-> ch.lost]
  BY DEF Channels
<1>2. CASE Len(q) < capacity
  <2>1. after.queue = Append(q, e) /\ after.lost = ch.lost
    BY <1>1, <1>2 DEF Send
  <2>2. Increasing(Append(q, e)) /\ ToSet(Append(q, e)) = ToSet(q) \cup {e}
    BY <1>1, StaysIncreasing, Elements
  <2> HIDE DEF after, q
  <2>3. ToSet(after.queue) \cup after.lost = ToSet(q) \cup ch.lost \cup {e}
    BY <2>1, <2>2, Zenon
  <2> QED BY <2>1, <2>2, <2>3 DEF after, q
<1>3. CASE ~(Len(q) < capacity)
  <2>1. after.queue = Append(Tail(q), e) /\ after.lost = ch.lost \cup {q[1]}
    BY <1>3 DEF Send
  <2>2. q # <<>> /\ Tail(q) \in Seq(Envelopes)
    BY <1>1, <1>3
  <2>3. Increasing(Tail(q)) /\ ToSet(q) = ToSet(Tail(q)) \cup {q[1]}
    BY <1>1, <2>2, StaysIncreasing, Elements
  <2> DEFINE t == Tail(q)
  <2>4. t \in Seq(Envelopes) /\ Increasing(t) /\ \A x \in ToSet(t) : x.sequence < e.sequence
    BY <2>2, <2>3
  <2> HIDE DEF t
  <2>5. Increasing(Append(t, e)) /\ ToSet(Append(t, e)) = ToSet(t) \cup {e}
    BY <2>4, StaysIncreasing, Elements
  <2> HIDE DEF after, q
  <2>6. ToSet(after.queue) \cup after.lost = ToSet(q) \cup ch.lost \cup {e}
    <3>1. after.queue = Append(t, e) /\ ToSet(q) = ToSet(t) \cup {q[1]}
      BY <2>1, <2>3 DEF t
    <3> QED BY <2>1, <2>5, <3>1
  <2> QED BY <2>1, <2>5, <2>6 DEF after, q, t
<1> QED BY <1>2, <1>3

-----------------------------------------------------------------------------
(***************************************************************************)
(* The log's steps: nothing moves, but an event gets its number, and is    *)
(* stored.                                                                 *)
(***************************************************************************)
LEMMA Standing ==
    ASSUME StreamInv
    PROVE  /\ \A x \in Envelopes : x.sequence \in Nat /\ x.agent \in Agents
           /\ \A a \in Agents : Held(a) \subseteq Flying
           /\ ToSet(inbox.queue) \subseteq Flying /\ ToSet(client.backlog) \subseteq Seen
           /\ ToSet(got) \subseteq Envelopes
           /\ Stored \subseteq Envelopes /\ \A e \in Stored : e.sequence \in Settled
           /\ \A a \in Agents : stage[a] # "waiting" =>
                outbox[a] # <<>> /\ outbox[a][1] \in Envelopes /\ outbox[a][1].agent = a
           /\ next \in Nat /\ Settled \subseteq Nat
<1> USE DEF StreamInv, LogInv
<1>1. /\ inbox.queue \in Seq(Envelopes) /\ client.backlog \in Seq(Envelopes)
      /\ \A a \in Agents : channel[a].queue \in Seq(Envelopes) /\ channel[a].lost \subseteq Envelopes
  BY StreamFields
<1>2. got \in Seq(Envelopes) /\ LogTypeOK /\ StageInv /\ StepInv
  BY DEF TypeOK
<1>3. ToSet(inbox.queue) \subseteq Envelopes /\ ToSet(client.backlog) \subseteq Envelopes
      /\ ToSet(got) \subseteq Envelopes
      /\ \A a \in Agents : ToSet(channel[a].queue) \subseteq Envelopes
  BY <1>1, <1>2, Elements
<1>4. \A a \in Agents : Held(a) \subseteq Flying
  BY <1>1, <1>3 DEF Held, Flying
<1>5. ToSet(inbox.queue) \subseteq Flying /\ ToSet(client.backlog) \subseteq Seen
  BY <1>3 DEF Flying, Seen
<1>6. Stored \subseteq Envelopes /\ \A e \in Stored : e.sequence \in Settled
  BY <1>2, Pieces DEF Stored, ToSet, Settled
<1>7. ASSUME NEW a \in Agents, stage[a] # "waiting"
      PROVE  outbox[a] # <<>> /\ outbox[a][1] \in Envelopes /\ outbox[a][1].agent = a
  <2>1. outbox[a] # <<>> /\ outbox[a] \in Seq(Envelopes)
    BY <1>2, <1>7, Pieces DEF StageInv
  <2>2. 1 \in DOMAIN outbox[a] /\ outbox[a][1] \in Envelopes
    BY <2>1
  <2> QED BY <1>2, <2>1, <2>2 DEF StepInv
<1>8. next \in Nat /\ Settled \subseteq Nat
  BY <1>2, Pieces DEF LogTypeOK
<1> QED BY <1>3, <1>4, <1>5, <1>6, <1>7, <1>8, Fields

LEMMA StreamSame ==
    ASSUME UNCHANGED streamVars
    PROVE  /\ Flying' = Flying /\ Seen' = Seen
           /\ RouteInv => RouteInv'
           /\ SinceInv => SinceInv'
           /\ \A e : Explained(e) => Explained(e)'
           /\ client' = client /\ inbox' = inbox /\ \A a \in Agents : Held(a)' = Held(a)
<1>1. /\ channel' = channel /\ inbox' = inbox /\ client' = client /\ got' = got /\ overrun' = overrun
  BY DEF streamVars
<1>2. \A a : Held(a)' = Held(a)
  BY <1>1 DEF Held
<1>3. Flying' = Flying /\ Seen' = Seen
  BY <1>1, <1>2 DEF Flying, Seen
<1>4. RouteInv => RouteInv'
  BY <1>1, <1>2 DEF RouteInv
<1>5. SinceInv => SinceInv'
  BY <1>1 DEF SinceInv
<1>6. \A e : Explained(e) => Explained(e)'
  BY <1>1 DEF Explained, Overtaken
<1> QED BY <1>1, <1>2, <1>3, <1>4, <1>5, <1>6

\* A step that stores nothing keeps what it knows of every stored event.
LEMMA SentSame ==
    ASSUME StreamInv, FlowInv, UNCHANGED streamVars, events' = events,
           \A a \in Agents : stage[a] = "committed" =>
               stage'[a] = "committed" /\ outbox'[a][1] = outbox[a][1]
    PROVE  SentInv'
<1> SUFFICES ASSUME client'.phase \in {"replaying", "live"}, NEW e \in Stored', e.sequence > client'.since
             PROVE  Explained(e)' \/ e \in ToSet(client'.backlog) \/ Coming(e)'
  BY DEF SentInv
<1>1. e \in Stored /\ client' = client /\ inbox' = inbox /\ Seen' = Seen
  BY StreamSame DEF Stored
<1>2. e.agent \in Agents
  BY <1>1, Standing
<1>3. Explained(e) \/ e \in ToSet(client.backlog) \/ Coming(e)
  BY <1>1 DEF FlowInv, SentInv
<1>4. Coming(e) => Coming(e)'
  BY <1>1, <1>2, StreamSame DEF Coming
<1> QED BY <1>1, <1>3, <1>4, StreamSame

LEMMA QuietFlow ==
    ASSUME StreamInv, FlowInv, UNCHANGED streamVars, events' = events, next' = next,
           \A a \in Agents : \/ stage'[a] = stage[a] /\ (stage[a] # "waiting" => outbox'[a][1] = outbox[a][1])
                             \/ stage'[a] = "waiting" /\ stage[a] # "committed"
    PROVE  FlowInv'
<1>1. Flying' = Flying /\ Seen' = Seen /\ Stored' = Stored
  BY StreamSame DEF Stored
<1>2. RouteInv' /\ SinceInv'
  BY StreamSame DEF FlowInv
<1>3. HeadInv'
  <2> SUFFICES ASSUME NEW a \in Agents
               PROVE  /\ stage'[a] = "committed" =>
                           \A x \in Flying : x.agent = a => x.sequence < outbox'[a][1].sequence
                      /\ stage'[a] = "numbered" =>
                           \A x \in Flying \cup Seen : x.sequence < outbox'[a][1].sequence
    BY <1>1 DEF HeadInv
  <2> QED BY DEF FlowInv, HeadInv
<1>4. OriginInv'
  <2>1. \A a \in Agents : stage'[a] = "committed" => stage[a] = "committed" /\ outbox'[a][1] = outbox[a][1]
    OBVIOUS
  <2> QED BY <1>1, <2>1 DEF FlowInv, OriginInv
<1>5. SentInv'
  <2>1. \A a \in Agents : stage[a] = "committed" => stage'[a] = "committed" /\ outbox'[a][1] = outbox[a][1]
    OBVIOUS
  <2> QED BY <2>1, SentSame
<1> QED BY <1>2, <1>3, <1>4, <1>5 DEF FlowInv

LEMMA NumberFlow ==
    ASSUME StreamInv, FlowInv, UNCHANGED streamVars, NEW a \in Agents, Number(a)
    PROVE  FlowInv'
<1> DEFINE n == next_sequence
<1>1. /\ stage[a] = "waiting" /\ outbox[a] # <<>> /\ next' = n + 1 /\ events' = events
      /\ outbox' = [outbox EXCEPT ![a][1].sequence = n]
      /\ stage' = [stage EXCEPT ![a] = IF is_durable(outbox[a][1]) THEN "numbered" ELSE "committed"]
      /\ \A b \in Agents : stage[b] # "numbered"
  BY DEF Number, commit_lock_free
<1>2. LogInv /\ outbox \in [Agents -> Seq(Envelopes)] /\ stage \in [Agents -> Stages]
  BY DEF StreamInv, LogInv, LogTypeOK
<1>3. /\ n \in Nat /\ \A m \in Settled : m < n
      /\ next \in Nat /\ next <= n
  <2>1. n \in Nat /\ \A m \in Settled : m < n
    BY <1>2, NextIsAbove
  <2>2. next \in Nat /\ (next # 0 => n = next)
    BY Standing DEF next_sequence
  <2> HIDE DEF n
  <2> QED BY <2>1, <2>2
<1>4. outbox'[a][1].sequence = n
  <2>1. outbox[a] \in Seq(Envelopes) /\ 1 \in DOMAIN outbox[a] /\ outbox[a][1] \in Envelopes
    BY <1>1, <1>2
  <2>2. outbox'[a] = [outbox[a] EXCEPT ![1] = [outbox[a][1] EXCEPT !.sequence = n]]
    BY <1>1, <1>2
  <2> HIDE DEF n
  <2>3. outbox'[a][1] = [outbox[a][1] EXCEPT !.sequence = n]
    BY <2>1, <2>2
  <2> QED BY <2>1, <2>3, Zenon DEF Envelopes
<1>5. /\ stage'[a] \in {"numbered", "committed"}
      /\ \A b \in Agents : b # a => stage'[b] = stage[b] /\ outbox'[b] = outbox[b] /\ stage'[b] # "numbered"
  BY <1>1, <1>2
<1>6. Flying' = Flying /\ Seen' = Seen /\ Stored' = Stored
  BY <1>1, StreamSame DEF Stored
<1>7. \A x \in Flying \cup Seen : x.sequence \in Nat /\ x.sequence < n
  <2> SUFFICES ASSUME NEW x \in Flying \cup Seen PROVE x.sequence \in Nat /\ x.sequence < n
    OBVIOUS
  <2>1. x.sequence \in Nat /\ (x \in Stored \/ x.sequence < next)
    BY Standing DEF FlowInv, OriginInv, Flying, Seen
  <2>2. x \in Stored => x.sequence \in Settled
    BY Standing
  <2> HIDE DEF n
  <2> QED BY <1>3, <2>1, <2>2
<1>8. \A e \in Stored : e.sequence < n /\ e.sequence \in Nat
  BY <1>3, Standing
<1> HIDE DEF n
<1>9. RouteInv' /\ SinceInv'
  BY StreamSame DEF FlowInv
<1>10. HeadInv'
  <2> SUFFICES ASSUME NEW b \in Agents
               PROVE  /\ stage'[b] = "committed" =>
                           \A x \in Flying : x.agent = b => x.sequence < outbox'[b][1].sequence
                      /\ stage'[b] = "numbered" =>
                           \A x \in Flying \cup Seen : x.sequence < outbox'[b][1].sequence
    BY <1>6 DEF HeadInv
  <2>1. CASE b = a
    BY <1>4, <1>7, <2>1
  <2>2. CASE b # a
    BY <1>5, <2>2 DEF FlowInv, HeadInv
  <2> QED BY <2>1, <2>2
<1>11. OriginInv'
  <2>1. \A x \in Flying \cup Seen : x \in Stored' \/ x.sequence < next'
    BY <1>1, <1>3, <1>7
  <2>2. ASSUME NEW e \in Stored
        PROVE  /\ \A x \in Flying \cup Seen : x.sequence = e.sequence => x.agent = e.agent
               /\ \A b \in Agents : stage'[b] = "committed" /\ outbox'[b][1].sequence = e.sequence => e.agent = b
    <3>1. \A x \in Flying \cup Seen : x.sequence = e.sequence => x.agent = e.agent
      BY DEF FlowInv, OriginInv
    <3>2. e.sequence # n
      BY <1>3, <1>8
    <3>3. ASSUME NEW b \in Agents, stage'[b] = "committed", outbox'[b][1].sequence = e.sequence
          PROVE  e.agent = b
      <4>1. b # a
        BY <1>4, <3>2, <3>3
      <4> QED BY <1>5, <3>3, <4>1 DEF FlowInv, OriginInv
    <3> QED BY <3>1, <3>3
  <2> QED BY <1>6, <2>1, <2>2 DEF OriginInv
<1>12. SentInv'
  <2>1. \A b \in Agents : stage[b] = "committed" => stage'[b] = "committed" /\ outbox'[b][1] = outbox[b][1]
    BY <1>1, <1>5
  <2> QED BY <1>1, <2>1, SentSame
<1> QED BY <1>9, <1>10, <1>11, <1>12 DEF FlowInv

\* The event that was being stored may now be published.
LEMMA CommitFlow ==
    ASSUME StreamInv, FlowInv, UNCHANGED streamVars, NEW a \in Agents, stage[a] = "numbered",
           stage' = [stage EXCEPT ![a] = "committed"], outbox' = outbox, next' = next,
           \/ events' = events
           \/ events' = Append(events, outbox[a][1])
    PROVE  FlowInv'
<1> DEFINE y == outbox[a][1]
<1>1. LogInv /\ stage \in [Agents -> Stages] /\ events \in Seq(Envelopes)
  BY DEF StreamInv, LogInv, LogTypeOK
<1>2. /\ stage'[a] = "committed"
      /\ \A b \in Agents : b # a => stage'[b] = stage[b] /\ stage[b] # "numbered"
  BY <1>1 DEF LogInv, StageInv
<1>3. y \in Envelopes /\ y.agent = a /\ y.sequence \in Nat
  BY Standing
<1>4. Stored' = Stored \/ Stored' = Stored \cup {y}
  BY <1>1, <1>3, Elements DEF Stored
<1>5. \A e \in Stored : e.sequence \in Nat /\ e.sequence < y.sequence
  BY <1>1, Standing DEF LogInv, NumberInv
<1>6. \A b \in Agents : stage[b] = "committed" => outbox[b][1].sequence < y.sequence /\ outbox[b][1].sequence \in Nat
  BY <1>1, Standing DEF LogInv, NumberInv
<1>7. \A x \in Flying \cup Seen : x.sequence < y.sequence /\ x.sequence \in Nat
  BY Standing DEF FlowInv, HeadInv, Flying, Seen
<1> HIDE DEF y
<1>8. Flying' = Flying /\ Seen' = Seen /\ RouteInv' /\ SinceInv'
  BY StreamSame DEF FlowInv
<1>9. HeadInv'
  <2> SUFFICES ASSUME NEW b \in Agents
               PROVE  /\ stage'[b] = "committed" =>
                           \A x \in Flying : x.agent = b => x.sequence < outbox[b][1].sequence
                      /\ stage'[b] = "numbered" =>
                           \A x \in Flying \cup Seen : x.sequence < outbox[b][1].sequence
    BY <1>8 DEF HeadInv
  <2>1. CASE b = a
    BY <1>2, <1>7, <2>1 DEF y
  <2>2. CASE b # a
    BY <1>2, <2>2 DEF FlowInv, HeadInv
  <2> QED BY <2>1, <2>2
<1>10. OriginInv'
  <2>1. \A x \in Flying \cup Seen : x \in Stored' \/ x.sequence < next'
    BY <1>4 DEF FlowInv, OriginInv
  <2>2. ASSUME NEW e \in Stored'
        PROVE  /\ \A x \in Flying \cup Seen : x.sequence = e.sequence => x.agent = e.agent
               /\ \A b \in Agents : stage'[b] = "committed" /\ outbox[b][1].sequence = e.sequence => e.agent = b
    <3>1. CASE e = y
      <4>1. \A x \in Flying \cup Seen : x.sequence # e.sequence
        BY <1>3, <1>7, <3>1
      <4>2. \A b \in Agents : b # a /\ stage'[b] = "committed" => outbox[b][1].sequence # e.sequence
        BY <1>2, <1>3, <1>6, <3>1
      <4> QED BY <1>3, <3>1, <4>1, <4>2
    <3>2. CASE e \in Stored
      <4>1. e.sequence # y.sequence
        BY <1>3, <1>5, <3>2
      <4>2. \A b \in Agents : stage'[b] = "committed" /\ outbox[b][1].sequence = e.sequence =>
              stage[b] = "committed"
        BY <1>2, <4>1 DEF y
      <4> QED BY <3>2, <4>2 DEF FlowInv, OriginInv
    <3> QED BY <1>4, <3>1, <3>2
  <2> QED BY <1>8, <2>1, <2>2 DEF OriginInv
<1>11. SentInv'
  <2> SUFFICES ASSUME client'.phase \in {"replaying", "live"}, NEW e \in Stored', e.sequence > client'.since
               PROVE  Explained(e)' \/ e \in ToSet(client'.backlog) \/ Coming(e)'
    BY DEF SentInv
  <2>1. client' = client /\ inbox' = inbox /\ \A b \in Agents : Held(b)' = Held(b)
    BY StreamSame
  <2>2. CASE e = y
    <3>1. \A x \in Seen' : x.agent = e.agent => x.sequence < e.sequence
      BY <1>7, <1>8, <2>2
    <3>2. stage'[e.agent] = "committed" /\ outbox'[e.agent][1] = e
      BY <1>2, <1>3, <2>2 DEF y
    <3> QED BY <3>1, <3>2 DEF Coming
  <2>3. CASE e \in Stored
    <3>1. Explained(e) \/ e \in ToSet(client.backlog) \/ Coming(e)
      BY <2>1, <2>3 DEF FlowInv, SentInv
    <3>2. e.agent \in Agents
      BY <2>3, Standing
    <3>3. stage[e.agent] = "committed" => stage'[e.agent] = "committed"
      BY <1>2, <3>2
    <3>4. Coming(e) => Coming(e)'
      BY <1>8, <2>1, <3>2, <3>3 DEF Coming
    <3> QED BY <2>1, <3>1, <3>4, StreamSame
  <2> QED BY <1>4, <2>2, <2>3
<1> QED BY <1>8, <1>9, <1>10, <1>11 DEF FlowInv

LEMMA UnseenFlow ==
    ASSUME StreamInv, FlowInv, UNCHANGED streamVars, Unseen \/ UNCHANGED logVars
    PROVE  FlowInv'
<1>1. LogTypeOK /\ StageInv /\ stage \in [Agents -> Stages] /\ outbox \in [Agents -> Seq(Envelopes)]
  BY DEF StreamInv, LogInv, LogTypeOK
<1>2. ASSUME NEW a \in Agents, Command(a) PROVE FlowInv'
  <2>1. Resting(a) /\ events' = events /\ next' = next /\ stage' = stage /\ \E q : outbox' = [outbox EXCEPT ![a] = q]
    BY <1>2 DEF Command, start_run, StartRefused, StartStopped, StreamText, finish_success, fail, cancel,
                EndRun, apply_and_publish
  <2>2. stage[a] = "waiting"
    BY <1>1, <2>1 DEF Resting, StageInv
  <2>3. \A b \in Agents : stage'[b] = stage[b] /\ (stage[b] # "waiting" => outbox'[b][1] = outbox[b][1])
    BY <1>1, <2>1, <2>2
  <2> QED BY <2>1, <2>3, QuietFlow
<1>3. ASSUME NEW a \in Agents, AppendSucceeds(a) PROVE FlowInv'
  BY <1>3, CommitFlow DEF AppendSucceeds
<1>4. ASSUME NEW a \in Agents, AppendFails(a) PROVE FlowInv'
  <2>1. CASE policy = "Strict"
    <3>1. /\ stage[a] = "numbered" /\ events' = events /\ next' = next
          /\ stage' = [stage EXCEPT ![a] = "waiting"] /\ outbox' = [outbox EXCEPT ![a] = <<>>]
      BY <1>4, <2>1 DEF AppendFails, fail_fatally
    <3>2. \A b \in Agents : \/ stage'[b] = stage[b] /\ (stage[b] # "waiting" => outbox'[b][1] = outbox[b][1])
                            \/ stage'[b] = "waiting" /\ stage[b] # "committed"
      BY <1>1, <3>1
    <3> QED BY <3>1, <3>2, QuietFlow
  <2>2. CASE policy # "Strict"
    <3>1. /\ stage[a] = "numbered" /\ events' = events /\ next' = next
          /\ stage' = [stage EXCEPT ![a] = "committed"] /\ outbox' = outbox
      BY <1>4, <2>2 DEF AppendFails
    <3> QED BY <3>1, CommitFlow
  <2> QED BY <2>1, <2>2
<1>5. CASE events' = events /\ next' = next /\ stage' = stage /\ outbox' = outbox
  BY <1>5, QuietFlow
<1>6. ASSUME NEW s \in saving, SaveSucceeds(s) \/ SaveFails(s) PROVE FlowInv'
  BY <1>5, <1>6 DEF SaveSucceeds, SaveFails
<1>7. CASE CheckpointReads \/ CheckpointBuilds \/ restore
  BY <1>5, <1>7 DEF CheckpointReads, CheckpointBuilds, restore
<1>8. CASE UNCHANGED logVars
  BY <1>5, <1>8 DEF logVars
<1> QED BY <1>2, <1>3, <1>4, <1>6, <1>7, <1>8, NumberFlow DEF Unseen

-----------------------------------------------------------------------------
(***************************************************************************)
(* The bus: from the agent's hands to its channel, and on to the client's. *)
(***************************************************************************)
LEMMA PublishFlow ==
    ASSUME StreamInv, FlowInv, NEW a \in Agents, publish(a)
    PROVE  FlowInv'
<1> DEFINE y == outbox[a][1]
           after == Send(channel[a], y, AgentCapacity)
<1>1. /\ stage[a] = "committed" /\ stage' = [stage EXCEPT ![a] = "waiting"]
      /\ outbox' = [outbox EXCEPT ![a] = Tail(@)] /\ events' = events /\ next' = next
      /\ channel' = [channel EXCEPT ![a] = after]
      /\ inbox' = inbox /\ client' = client /\ got' = got /\ overrun' = overrun
  BY DEF publish, Publish
<1>2. /\ LogInv /\ stage \in [Agents -> Stages] /\ outbox \in [Agents -> Seq(Envelopes)]
      /\ channel \in [Agents -> Channels] /\ AgentCapacity \in Nat \ {0}
      /\ Len(channel[a].queue) <= AgentCapacity
  BY StreamAssumption DEF StreamInv, LogInv, LogTypeOK, TypeOK
<1>3. y \in Envelopes /\ y.agent = a /\ y.sequence \in Nat
  BY <1>1, Standing
<1>4. /\ stage'[a] = "waiting"
      /\ \A b \in Agents : b # a => stage'[b] = stage[b] /\ outbox'[b] = outbox[b] /\ channel'[b] = channel[b]
  BY <1>1, <1>2
<1>5. \A x \in Flying : x.agent = a => x.sequence < y.sequence
  BY <1>1 DEF FlowInv, HeadInv
<1>6. \A x \in Held(a) : x \in Flying /\ x.agent = a
  BY Standing DEF FlowInv, RouteInv
<1>7. Increasing(after.queue) /\ ToSet(after.queue) \cup after.lost = Held(a) \cup {y}
  <2>1. Increasing(channel[a].queue) /\ channel[a] \in Channels
    BY <1>2 DEF FlowInv, RouteInv
  <2>2. \A x \in ToSet(channel[a].queue) : x.sequence < y.sequence
    BY <1>5, <1>6 DEF Held
  <2> HIDE DEF y
  <2> QED BY <1>2, <1>3, <2>1, <2>2, SendKeeps DEF Held
<1> HIDE DEF after, y
<1>8. channel'[a] = after /\ Held(a)' = Held(a) \cup {y} /\ \A b \in Agents : b # a => Held(b)' = Held(b)
  <2>1. channel'[a] = after
    BY <1>1, <1>2
  <2>2. Held(a)' = Held(a) \cup {y}
    BY <1>7, <2>1 DEF Held
  <2>3. \A b \in Agents : b # a => Held(b)' = Held(b)
    BY <1>4 DEF Held
  <2> QED BY <2>1, <2>2, <2>3
<1>9. Seen' = Seen /\ Stored' = Stored /\ \A x \in Flying' : x = y \/ x \in Flying
  <2>1. Seen' = Seen /\ Stored' = Stored
    BY <1>1 DEF Seen, Stored
  <2>2. \A x \in Flying' : x = y \/ x \in Flying
    BY <1>1, <1>8 DEF Flying
  <2> QED BY <2>1, <2>2
<1>10. RouteInv'
  <2>1. \A b \in Agents : Increasing(channel'[b].queue)
    BY <1>4, <1>7, <1>8 DEF FlowInv, RouteInv
  <2>2. ASSUME NEW b \in Agents, NEW z \in Held(b)'
        PROVE  z.agent = b /\ \A x \in ToSet(inbox'.queue) : x.agent = b => x.sequence < z.sequence
    <3>1. CASE z \in Held(b)
      BY <1>1, <3>1 DEF FlowInv, RouteInv
    <3>2. CASE b = a /\ z = y
      BY <1>1, <1>3, <1>5, <3>2, Standing
    <3> QED BY <1>8, <3>1, <3>2
  <2>3. ~client'.gap /\ inbox'.lost = {} => InTurn(inbox'.queue)
    BY <1>1 DEF FlowInv, RouteInv
  <2> QED BY <2>1, <2>2, <2>3 DEF RouteInv
<1>11. HeadInv'
  <2> SUFFICES ASSUME NEW b \in Agents
               PROVE  /\ stage'[b] = "committed" =>
                           \A x \in Flying' : x.agent = b => x.sequence < outbox'[b][1].sequence
                      /\ stage'[b] = "numbered" =>
                           \A x \in Flying' \cup Seen' : x.sequence < outbox'[b][1].sequence
    BY DEF HeadInv
  <2>1. CASE b = a
    BY <1>4, <2>1
  <2>2. CASE b # a
    <3>1. stage'[b] = stage[b] /\ outbox'[b] = outbox[b]
      BY <1>4, <2>2
    <3>2. stage[b] = "committed" => \A x \in Flying : x.agent = b => x.sequence < outbox[b][1].sequence
      BY DEF FlowInv, HeadInv
    <3>3. stage[b] = "numbered" => \A x \in Flying \cup Seen : x.sequence < outbox[b][1].sequence
      BY DEF FlowInv, HeadInv
    <3>4. stage[b] = "numbered" => y.sequence < outbox[b][1].sequence
      BY <1>1, <1>2 DEF LogInv, NumberInv, y
    <3> QED BY <1>3, <1>9, <2>2, <3>1, <3>2, <3>3, <3>4
  <2> QED BY <2>1, <2>2
<1>12. OriginInv'
  <2>1. y.sequence < next
    <3>1. next # 0
      BY <1>1, <1>2 DEF LogInv, StageInv
    <3> QED BY <1>1, <1>2, <3>1, Standing DEF LogInv, NumberInv, y
  <2>2. \A x \in Flying' \cup Seen' : x \in Stored' \/ x.sequence < next'
    BY <1>1, <1>9, <2>1 DEF FlowInv, OriginInv
  <2>3. ASSUME NEW e \in Stored'
        PROVE  /\ \A x \in Flying' \cup Seen' : x.sequence = e.sequence => x.agent = e.agent
               /\ \A b \in Agents : stage'[b] = "committed" /\ outbox'[b][1].sequence = e.sequence => e.agent = b
    <3>1. e \in Stored
      BY <1>9
    <3>2. y.sequence = e.sequence => y.agent = e.agent
      BY <1>1, <1>3, <3>1 DEF FlowInv, OriginInv, y
    <3>3. \A x \in Flying' \cup Seen' : x.sequence = e.sequence => x.agent = e.agent
      BY <1>9, <3>1, <3>2 DEF FlowInv, OriginInv
    <3>4. \A b \in Agents : stage'[b] = "committed" /\ outbox'[b][1].sequence = e.sequence => e.agent = b
      BY <1>4, <3>1 DEF FlowInv, OriginInv
    <3> QED BY <3>3, <3>4
  <2> QED BY <2>2, <2>3 DEF OriginInv
<1>13. SinceInv'
  BY <1>1 DEF FlowInv, SinceInv
<1>14. SentInv'
  <2> SUFFICES ASSUME client'.phase \in {"replaying", "live"}, NEW e \in Stored', e.sequence > client'.since
               PROVE  Explained(e)' \/ e \in ToSet(client'.backlog) \/ Coming(e)'
    BY DEF SentInv
  <2>1. e \in Stored /\ e.agent \in Agents
    BY <1>9, Standing
  <2>2. Explained(e) \/ e \in ToSet(client.backlog) \/ Coming(e)
    BY <1>1, <2>1 DEF FlowInv, SentInv
  <2>3. Explained(e) => Explained(e)'
    BY <1>1 DEF Explained, Overtaken
  <2>4. ASSUME Coming(e) PROVE Coming(e)'
    <3>1. \A x \in Seen' : x.agent = e.agent => x.sequence < e.sequence
      BY <1>9, <2>4 DEF Coming
    <3>2. CASE e \in ToSet(inbox.queue)
      BY <1>1, <3>1, <3>2 DEF Coming
    <3>3. CASE e \in Held(e.agent)
      <4>1. e \in Held(e.agent)'
        BY <1>8, <2>1, <3>3
      <4> QED BY <3>1, <4>1 DEF Coming
    <3>4. CASE stage[e.agent] = "committed" /\ outbox[e.agent][1] = e
      <4>1. CASE e.agent = a
        <5>1. e \in Held(a)'
          BY <1>8, <3>4, <4>1 DEF y
        <5> QED BY <3>1, <4>1, <5>1 DEF Coming
      <4>2. CASE e.agent # a
        BY <1>4, <2>1, <3>1, <3>4, <4>2 DEF Coming
      <4> QED BY <4>1, <4>2
    <3> QED BY <2>4, <3>2, <3>3, <3>4 DEF Coming
  <2> QED BY <1>1, <2>2, <2>3, <2>4
<1> QED BY <1>10, <1>11, <1>12, <1>13, <1>14 DEF FlowInv

\* A second queue behind a first one, when each agent's in the one are older.
LEMMA JoinInTurn ==
    ASSUME NEW p \in Seq(Envelopes), NEW q \in Seq(Envelopes), InTurn(p), Increasing(q),
           \A x \in ToSet(p) : \A y \in ToSet(q) : x.agent = y.agent => x.sequence < y.sequence
    PROVE  InTurn(p \o q)
<1> DEFINE r == p \o q
           n == Len(p)
<1>1. /\ n \in Nat /\ DOMAIN p = 1..n /\ DOMAIN q = 1..Len(q) /\ Len(q) \in Nat
      /\ DOMAIN r = 1..(n + Len(q))
      /\ \A i \in 1..n : r[i] = p[i]
      /\ \A i \in (n + 1)..(n + Len(q)) : r[i] = q[i - n]
  OBVIOUS
<1> HIDE DEF r, n
<1>2. ASSUME NEW i \in DOMAIN r, NEW j \in DOMAIN r, i < j, r[i].agent = r[j].agent
      PROVE  r[i].sequence < r[j].sequence
  <2>1. CASE j \in 1..n
    <3>1. i \in DOMAIN p /\ j \in DOMAIN p /\ r[i] = p[i] /\ r[j] = p[j]
      BY <1>1, <1>2, <2>1
    <3> QED BY <1>2, <3>1 DEF InTurn
  <2>2. CASE j \notin 1..n
    <3>1. j - n \in DOMAIN q /\ r[j] = q[j - n]
      BY <1>1, <2>2
    <3>2. CASE i \in 1..n
      <4>1. r[i] \in ToSet(p) /\ r[j] \in ToSet(q)
        BY <1>1, <3>1, <3>2 DEF ToSet
      <4> QED BY <1>2, <4>1
    <3>3. CASE i \notin 1..n
      <4>1. i - n \in DOMAIN q /\ r[i] = q[i - n] /\ i - n < j - n
        BY <1>1, <1>2, <3>3
      <4> QED BY <3>1, <4>1 DEF Increasing
    <3> QED BY <3>2, <3>3
  <2> QED BY <2>1, <2>2
<1> QED BY <1>2 DEF InTurn, r

LEMMA PollFlow ==
    ASSUME StreamInv, FlowInv, poll_receivers
    PROVE  FlowInv'
<1>3. PICK a \in Agents : a = Receivers[turn]
  BY DEF Agents, StreamInv, TypeOK
<1> DEFINE q == channel[a].queue
<1>1. /\ channel' = [channel EXCEPT ![a] = EmptyChannel] /\ overrun' = overrun \cup channel[a].lost
      /\ UNCHANGED <<logVars, client, got>>
  BY <1>3 DEF poll_receivers
<1>2. /\ stage' = stage /\ outbox' = outbox /\ events' = events /\ next' = next
      /\ client' = client /\ got' = got
  BY <1>1 DEF logVars
<1>4. /\ inbox \in Channels /\ Len(inbox.queue) <= SubscriberCapacity /\ q \in Seq(Envelopes)
      /\ inbox.queue \in Seq(Envelopes) /\ channel \in [Agents -> Channels]
  BY <1>3, StreamFields DEF StreamInv, TypeOK
\* what the client's channel becomes
<1>5. /\ \A x \in ToSet(inbox'.queue) : x \in ToSet(inbox.queue) \/ (x \in ToSet(q) /\ Subscribed)
      /\ Subscribed /\ inbox'.lost = {} => inbox.lost = {} /\ inbox'.queue = inbox.queue \o q
      /\ ~Subscribed => inbox' = inbox
  <2>1. ASSUME NEW sent, SentBy(sent, q), inbox' = sent[Len(q)]
        PROVE  /\ \A x \in ToSet(inbox'.queue) : x \in ToSet(inbox.queue) \/ x \in ToSet(q)
               /\ inbox'.lost = {} => inbox.lost = {} /\ inbox'.queue = inbox.queue \o q
    <3> HIDE DEF q
    <3>1. /\ \A i \in DOMAIN inbox'.queue : \/ \E j \in DOMAIN inbox.queue : inbox'.queue[i] = inbox.queue[j]
                                            \/ \E j \in DOMAIN q : inbox'.queue[i] = q[j]
          /\ inbox'.lost = {} => inbox.lost = {} /\ inbox'.queue = inbox.queue \o q
      BY <1>4, <2>1, SendMany
    <3> QED BY <3>1 DEF ToSet
  <2>2. \/ ~Subscribed /\ inbox' = inbox
        \/ Subscribed /\ \E sent : SentBy(sent, q) /\ inbox' = sent[Len(q)]
    BY <1>3, <1>4, PollSends
  <2> HIDE DEF q
  <2> QED BY <2>1, <2>2
<1>6. Held(a)' = {} /\ \A b \in Agents : b # a => channel'[b] = channel[b] /\ Held(b)' = Held(b)
  <2>1. channel'[a] = EmptyChannel /\ \A b \in Agents : b # a => channel'[b] = channel[b]
    BY <1>1, <1>3, <1>4
  <2> QED BY <2>1, NoElements DEF Held
<1>7. ToSet(q) \subseteq Held(a) /\ \A x \in Held(a) : x.agent = a /\ x \in Flying
  BY <1>3, Standing DEF Held, FlowInv, RouteInv
<1>8. Increasing(q)
  BY <1>3 DEF FlowInv, RouteInv
<1>9. channel'[a].queue = <<>>
  BY <1>1, <1>3, <1>4 DEF EmptyChannel
<1> HIDE DEF q
<1>10. Seen' = Seen /\ Stored' = Stored /\ Flying' \subseteq Flying
  <2>1. Seen' = Seen /\ Stored' = Stored
    BY <1>2 DEF Seen, Stored
  <2>2. ASSUME NEW x \in Flying' PROVE x \in Flying
    <3>1. CASE x \in ToSet(inbox'.queue)
      BY <1>5, <1>7, <3>1, Standing
    <3>2. ASSUME NEW b \in Agents, x \in Held(b)' PROVE x \in Flying
      BY <1>6, <3>2, Standing
    <3> QED BY <2>2, <3>1, <3>2 DEF Flying
  <2> QED BY <2>1, <2>2
<1>11. RouteInv'
  <2>1. \A b \in Agents : Increasing(channel'[b].queue)
    <3>1. Increasing(<<>>)
      BY DEF Increasing
    <3> QED BY <1>6, <1>9, <3>1 DEF FlowInv, RouteInv
  <2>2. ASSUME NEW b \in Agents, NEW z \in Held(b)'
        PROVE  z.agent = b /\ \A x \in ToSet(inbox'.queue) : x.agent = b => x.sequence < z.sequence
    <3>1. b # a /\ z \in Held(b)
      BY <1>6, <2>2
    <3>2. \A x \in ToSet(inbox'.queue) : x.agent = b => x \in ToSet(inbox.queue)
      BY <1>5, <1>7, <3>1
    <3> QED BY <3>1, <3>2 DEF FlowInv, RouteInv
  <2>3. ASSUME ~client'.gap, inbox'.lost = {} PROVE InTurn(inbox'.queue)
    <3>1. CASE ~Subscribed
      BY <1>2, <1>5, <2>3, <3>1 DEF FlowInv, RouteInv
    <3>2. CASE Subscribed
      <4>1. inbox.lost = {} /\ inbox'.queue = inbox.queue \o q
        BY <1>5, <2>3, <3>2
      <4>2. InTurn(inbox.queue)
        BY <1>2, <2>3, <4>1 DEF FlowInv, RouteInv
      <4>3. \A x \in ToSet(inbox.queue) : \A y \in ToSet(q) : x.agent = y.agent => x.sequence < y.sequence
        BY <1>3, <1>7 DEF FlowInv, RouteInv
      <4>4. InTurn(inbox.queue \o q)
        BY <1>4, <1>8, <4>2, <4>3, JoinInTurn
      <4> QED BY <4>1, <4>4
    <3> QED BY <3>1, <3>2
  <2> QED BY <2>1, <2>2, <2>3 DEF RouteInv
<1>12. HeadInv'
  BY <1>2, <1>10 DEF FlowInv, HeadInv
<1>13. OriginInv'
  BY <1>2, <1>10 DEF FlowInv, OriginInv
<1>14. SinceInv'
  <2>1. client.phase = "off" => inbox' = inbox
    BY <1>5 DEF Subscribed
  <2> QED BY <1>2, <2>1 DEF FlowInv, SinceInv
<1>15. SentInv'
  <2> SUFFICES ASSUME client'.phase \in {"replaying", "live"}, NEW e \in Stored', e.sequence > client'.since
               PROVE  Explained(e)' \/ e \in ToSet(client'.backlog) \/ Coming(e)'
    BY DEF SentInv
  <2>1. e \in Stored /\ e.agent \in Agents /\ Subscribed
    BY <1>2, <1>10, Standing DEF Subscribed
  <2>2. Explained(e) \/ e \in ToSet(client.backlog) \/ Coming(e)
    BY <1>2, <2>1 DEF FlowInv, SentInv
  <2>3. CASE inbox'.lost # {}
    BY <2>3 DEF Explained
  <2>4. CASE inbox'.lost = {}
    <3>1. inbox.lost = {} /\ inbox'.queue = inbox.queue \o q
      BY <1>5, <2>1, <2>4
    <3>2. ToSet(inbox'.queue) = ToSet(inbox.queue) \cup ToSet(q)
      BY <1>4, <3>1, JoinElements
    <3>3. Explained(e) => Explained(e)'
      BY <1>1, <1>2, <3>1 DEF Explained, Overtaken
    <3>4. ASSUME Coming(e) PROVE Explained(e)' \/ Coming(e)'
      <4>1. \A x \in Seen' : x.agent = e.agent => x.sequence < e.sequence
        BY <1>10, <3>4 DEF Coming
      <4>2. CASE e \in ToSet(inbox.queue)
        BY <3>2, <4>1, <4>2 DEF Coming
      <4>3. CASE e \in Held(e.agent) /\ e.agent # a
        <5>1. e \in Held(e.agent)'
          BY <1>6, <2>1, <4>3
        <5> QED BY <4>1, <5>1 DEF Coming
      <4>4. CASE e \in Held(e.agent) /\ e.agent = a
        <5>1. e \in ToSet(q) \/ e \in channel[a].lost
          BY <4>4 DEF Held, q
        <5>2. CASE e \in ToSet(q)
          BY <3>2, <4>1, <5>2 DEF Coming
        <5>3. CASE e \in channel[a].lost
          <6>1. e \in overrun'
            BY <1>1, <5>3
          <6> QED BY <6>1 DEF Explained
        <5> QED BY <5>1, <5>2, <5>3
      <4>5. CASE stage[e.agent] = "committed" /\ outbox[e.agent][1] = e
        BY <1>2, <4>1, <4>5 DEF Coming
      <4> QED BY <3>4, <4>2, <4>3, <4>4, <4>5 DEF Coming
    <3> QED BY <1>2, <2>2, <3>3, <3>4
  <2> QED BY <2>3, <2>4
<1> QED BY <1>11, <1>12, <1>13, <1>14, <1>15 DEF FlowInv

-----------------------------------------------------------------------------
(***************************************************************************)
(* The subscription.                                                       *)
(***************************************************************************)

\* It begins, ends, or is lost with the process: nothing of it remains.
LEMMA EmptiedFlow ==
    ASSUME StreamInv, FlowInv, inbox' = EmptyChannel, got' = got, events' = events,
           client'.since = client.last_sent, client'.last_sent = client.last_sent,
           client'.backlog = <<>>, ~client'.gap, client'.phase \in {"off", "subscribed"},
           \/ channel' = channel /\ stage' = stage /\ outbox' = outbox /\ next' = next
           \/ channel' = [a \in Agents |-> EmptyChannel] /\ stage' = AllWaiting
    PROVE  FlowInv'
<1>1. Seen' = {} /\ Stored' = Stored
  <2>1. \A x \in ToSet(got) : ~(x.sequence > client.last_sent)
    <3>1. \A i \in DOMAIN got : got[i].sequence <= client.last_sent /\ got[i].sequence \in Nat
      BY Fields DEF StreamInv, CursorInv, TypeOK
    <3>2. client.last_sent \in Nat
      BY StreamFields DEF StreamInv
    <3> QED BY <3>1, <3>2 DEF ToSet
  <2> QED BY <2>1, NoElements DEF Seen, Stored
<1>2. ToSet(inbox'.queue) = {}
  BY NoElements
<1>3. /\ \A a \in Agents : Held(a)' = Held(a) \/ Held(a)' = {}
      /\ \A a \in Agents : channel'[a].queue = channel[a].queue \/ channel'[a].queue = <<>>
  <2>1. CASE channel' = channel
    BY <2>1 DEF Held
  <2>2. CASE channel' = [a \in Agents |-> EmptyChannel]
    BY <2>2, NoElements DEF Held
  <2> QED BY <2>1, <2>2
<1>4. RouteInv'
  <2>1. Increasing(<<>>) /\ InTurn(<<>>)
    BY DEF Increasing, InTurn
  <2>2. \A a \in Agents : Increasing(channel'[a].queue)
    BY <1>3, <2>1 DEF FlowInv, RouteInv
  <2>3. \A a \in Agents : \A y \in Held(a)' : y.agent = a
    BY <1>3 DEF FlowInv, RouteInv
  <2>4. InTurn(inbox'.queue)
    BY <2>1, NoElements
  <2> QED BY <1>2, <2>2, <2>3, <2>4 DEF RouteInv
<1>5. SinceInv' /\ SentInv'
  <2>1. client.last_sent \in Nat
    BY StreamFields DEF StreamInv
  <2> QED BY <2>1 DEF SinceInv, SentInv
<1>6. CASE channel' = channel /\ stage' = stage /\ outbox' = outbox /\ next' = next
  <2>1. Flying' \subseteq Flying
    BY <1>2, <1>6 DEF Flying, Held
  <2>2. HeadInv'
    BY <1>1, <1>6, <2>1 DEF FlowInv, HeadInv
  <2>3. OriginInv'
    BY <1>1, <1>6, <2>1 DEF FlowInv, OriginInv
  <2> QED BY <1>4, <1>5, <2>2, <2>3 DEF FlowInv
<1>7. CASE channel' = [a \in Agents |-> EmptyChannel] /\ stage' = AllWaiting
  <2>1. Flying' = {}
    BY <1>2, <1>7, NoElements DEF Flying, Held
  <2>2. \A a \in Agents : stage'[a] = "waiting"
    BY <1>7 DEF AllWaiting
  <2>3. HeadInv' /\ OriginInv'
    BY <1>1, <2>1, <2>2 DEF HeadInv, OriginInv
  <2> QED BY <1>4, <1>5, <2>3 DEF FlowInv
<1> QED BY <1>6, <1>7

\* A step of the subscription alone: what it adds to what was sent, or is about
\* to be, was on its way or stored.
LEMMA SubscriptionKeeps ==
    ASSUME StreamInv, FlowInv, UNCHANGED <<logVars, channel>>, Flying' \subseteq Flying,
           \A x \in Seen' : x \in Seen \/ x \in Flying \/ x \in Stored
    PROVE  HeadInv' /\ OriginInv'
<1>1. stage' = stage /\ outbox' = outbox /\ events' = events /\ next' = next /\ Stored' = Stored
  BY DEF logVars, Stored
<1>2. LogInv
  BY DEF StreamInv
<1>3. HeadInv'
  <2> SUFFICES ASSUME NEW a \in Agents
               PROVE  /\ stage[a] = "committed" =>
                           \A x \in Flying' : x.agent = a => x.sequence < outbox[a][1].sequence
                      /\ stage[a] = "numbered" =>
                           \A x \in Flying' \cup Seen' : x.sequence < outbox[a][1].sequence
    BY <1>1 DEF HeadInv
  <2>1. stage[a] = "numbered" => \A x \in Stored : x.sequence < outbox[a][1].sequence
    BY <1>2, Standing DEF LogInv, NumberInv
  <2> QED BY <2>1 DEF FlowInv, HeadInv
<1>4. OriginInv'
  <2>1. \A e, x \in Stored : x.sequence = e.sequence => x.agent = e.agent
    <3> SUFFICES ASSUME NEW i \in DOMAIN events, NEW j \in DOMAIN events, events[i].sequence = events[j].sequence
                 PROVE  events[i].agent = events[j].agent
      BY DEF Stored, ToSet
    <3>1. i \in Nat /\ j \in Nat /\ events[i].sequence \in Nat
      BY <1>2, Pieces DEF LogInv
    <3>2. ~(i < j) /\ ~(j < i)
      BY <1>2, <3>1 DEF LogInv, StoredInOrder
    <3>3. i = j
      BY <3>1, <3>2
    <3> QED BY <3>3
  <2>2. \A x \in Flying' \cup Seen' : x \in Stored' \/ x.sequence < next'
    BY <1>1 DEF FlowInv, OriginInv
  <2>3. \A e \in Stored : \A x \in Flying' \cup Seen' : x.sequence = e.sequence => x.agent = e.agent
    BY <2>1 DEF FlowInv, OriginInv
  <2>4. \A e \in Stored : \A a \in Agents : stage'[a] = "committed" /\ outbox'[a][1].sequence = e.sequence =>
          e.agent = a
    BY <1>1 DEF FlowInv, OriginInv
  <2> QED BY <1>1, <2>2, <2>3, <2>4 DEF OriginInv
<1> QED BY <1>3, <1>4

LEMMA ReplayFlow ==
    ASSUME StreamInv, FlowInv, ReadBacklog \/ replay_backlog \/ GoLive \/ SignalGap
    PROVE  FlowInv'
<1>1. /\ UNCHANGED <<logVars, channel, overrun>>
      /\ stage' = stage /\ outbox' = outbox /\ events' = events /\ channel' = channel
      /\ inbox'.queue = inbox.queue
  <2>1. UNCHANGED <<logVars, channel, overrun>>
    BY DEF ReadBacklog, replay_backlog, GoLive, SignalGap
  <2>2. inbox'.queue = inbox.queue
    <3>1. CASE inbox' = inbox
      BY <3>1
    <3>2. CASE inbox' = [inbox EXCEPT !.lost = {}]
      BY <3>2, Zenon DEF StreamInv, TypeOK, Channels
    <3> QED BY <3>1, <3>2 DEF ReadBacklog, replay_backlog, GoLive, SignalGap
  <2> QED BY <2>1, <2>2 DEF logVars
<1>2. Flying' = Flying /\ Stored' = Stored /\ \A a \in Agents : Held(a)' = Held(a)
  BY <1>1 DEF Flying, Held, Stored
<1>3. client \in Subscriptions /\ CursorInv /\ SinceInv
  BY DEF StreamInv, TypeOK, FlowInv
<1>4. client.since \in Nat /\ client.last_sent \in Nat /\ client.backlog \in Seq(Envelopes) /\ got \in Seq(Envelopes)
  BY StreamFields DEF StreamInv, TypeOK
<1>5. /\ \A a \in Agents : Increasing(channel'[a].queue)
      /\ \A a \in Agents : \A y \in Held(a)' :
           y.agent = a /\ \A x \in ToSet(inbox'.queue) : x.agent = a => x.sequence < y.sequence
  BY <1>1, <1>2 DEF FlowInv, RouteInv
<1>6. CASE ReadBacklog
  <2> DEFINE q == events_since(client.since)
  <2>1. client.phase = "subscribed" /\ client' = [client EXCEPT !.phase = "replaying", !.backlog = q]
        /\ got' = got /\ inbox' = inbox
    BY <1>6 DEF ReadBacklog
  <2>2. /\ client'.phase = "replaying" /\ client'.since = client.since /\ client'.last_sent = client.last_sent
        /\ client'.backlog = q /\ client'.gap = client.gap
    BY <1>3, <2>1, Zenon DEF Subscriptions
  <2>3. SelectedFrom(q, Len(events), client.since)
    BY <1>4, SinceSelects DEF StreamInv, LogInv, LogTypeOK
  <2> HIDE DEF q
  <2>4. \A x \in ToSet(q) : x \in Stored
    <3>1. DOMAIN events = 1..Len(events)
      BY Pieces DEF StreamInv, LogInv
    <3> QED BY <2>3, <3>1 DEF SelectedFrom, Stored, ToSet
  <2>5. \A e \in Stored : e.sequence > client.since => e \in ToSet(q)
    <3>1. DOMAIN events = 1..Len(events)
      BY Pieces DEF StreamInv, LogInv
    <3> QED BY <2>3, <3>1 DEF SelectedFrom, Stored, ToSet
  <2>6. \A x \in Seen' : x \in Seen \/ x \in Stored
    BY <2>1, <2>2, <2>4 DEF Seen
  <2>7. RouteInv'
    BY <1>5, <2>1, <2>2 DEF FlowInv, RouteInv
  <2>8. SinceInv'
    BY <1>3, <2>1, <2>2 DEF SinceInv
  <2>9. SentInv'
    BY <1>2, <2>2, <2>5 DEF SentInv
  <2> QED BY <1>1, <1>2, <2>6, <2>7, <2>8, <2>9, SubscriptionKeeps DEF FlowInv
<1>7. CASE replay_backlog
  <2> DEFINE q == client.backlog
             h == client.backlog[1]
  <2>1. /\ got' = Append(got, h) /\ q # <<>> /\ client.phase = "replaying" /\ inbox' = inbox
        /\ client' = [client EXCEPT !.backlog = Tail(q), !.last_sent = Highest({client.last_sent, h.sequence})]
    BY <1>7 DEF replay_backlog, Deliver
  <2>2. h \in Envelopes /\ h.sequence \in Nat /\ h.sequence > client.last_sent
    BY <1>3, <1>4, <2>1, Fields DEF CursorInv
  <2>3. Highest({client.last_sent, h.sequence}) = h.sequence
    BY <1>4, <2>2, HighestOfTwo
  <2>4. ToSet(got') = ToSet(got) \cup {h} /\ ToSet(q) = ToSet(Tail(q)) \cup {h}
    BY <1>4, <2>1, <2>2, Elements
  <2> HIDE DEF q, h
  <2>5. /\ client'.phase = "replaying" /\ client'.since = client.since /\ client'.last_sent = h.sequence
        /\ client'.backlog = Tail(q) /\ client'.gap = client.gap
    BY <1>3, <2>1, <2>3, Zenon DEF Subscriptions
  <2>6. \A x \in Seen' : x \in Seen
    BY <2>4, <2>5 DEF Seen, q
  <2>7. RouteInv'
    BY <1>5, <2>1, <2>5 DEF FlowInv, RouteInv
  <2>8. SinceInv'
    <3>1. client.since <= h.sequence
      BY <1>3, <1>4, <2>2 DEF SinceInv
    <3> QED BY <2>4, <2>5, <3>1 DEF SinceInv
  <2>9. SentInv'
    <3> SUFFICES ASSUME NEW e \in Stored, e.sequence > client.since
                 PROVE  Explained(e)' \/ e \in ToSet(client'.backlog) \/ Coming(e)'
      BY <1>2, <2>5 DEF SentInv
    <3>1. Explained(e) \/ e \in ToSet(q) \/ Coming(e)
      BY <2>1 DEF FlowInv, SentInv, q
    <3>2. Explained(e) => Explained(e)'
      BY <1>1, <2>1, <2>4, <2>5 DEF Explained, Overtaken
    <3>3. e \in ToSet(q) => Explained(e)' \/ e \in ToSet(client'.backlog)
      BY <2>4, <2>5 DEF Explained
    <3>4. e.agent \in Agents
      BY Standing
    <3>5. Coming(e) => Coming(e)'
      BY <1>1, <1>2, <2>6, <3>4 DEF Coming
    <3> QED BY <3>1, <3>2, <3>3, <3>5
  <2> QED BY <1>1, <1>2, <2>6, <2>7, <2>8, <2>9, SubscriptionKeeps DEF FlowInv
<1>8. CASE GoLive
  <2>1. /\ client' = [client EXCEPT !.phase = "live"] /\ client.phase = "replaying"
        /\ got' = got /\ inbox' = inbox
    BY <1>8 DEF GoLive
  <2>2. /\ client'.phase = "live" /\ client'.since = client.since /\ client'.last_sent = client.last_sent
        /\ client'.backlog = client.backlog /\ client'.gap = client.gap
    BY <1>3, <2>1, Zenon DEF Subscriptions
  <2>3. Seen' = Seen
    BY <2>1, <2>2 DEF Seen
  <2>4. RouteInv'
    BY <1>5, <2>1, <2>2 DEF FlowInv, RouteInv
  <2>5. SinceInv'
    BY <1>3, <2>1, <2>2 DEF SinceInv
  <2>6. SentInv'
    <3> SUFFICES ASSUME NEW e \in Stored, e.sequence > client.since
                 PROVE  Explained(e)' \/ e \in ToSet(client'.backlog) \/ Coming(e)'
      BY <1>2, <2>2 DEF SentInv
    <3>1. Explained(e) \/ e \in ToSet(client.backlog) \/ Coming(e)
      BY <2>1 DEF FlowInv, SentInv
    <3>2. Explained(e) => Explained(e)'
      BY <1>1, <2>1, <2>2 DEF Explained, Overtaken
    <3>3. e.agent \in Agents
      BY Standing
    <3>4. Coming(e) => Coming(e)'
      BY <1>1, <1>2, <2>3, <3>3 DEF Coming
    <3> QED BY <2>2, <3>1, <3>2, <3>4
  <2> QED BY <1>1, <1>2, <2>3, <2>4, <2>5, <2>6, SubscriptionKeeps DEF FlowInv
<1>9. CASE SignalGap
  <2>1. client' = [client EXCEPT !.gap = TRUE] /\ client.phase = "live" /\ got' = got
    BY <1>9 DEF SignalGap
  <2>2. /\ client'.phase = "live" /\ client'.since = client.since /\ client'.last_sent = client.last_sent
        /\ client'.backlog = client.backlog /\ client'.gap
    BY <1>3, <2>1, Zenon DEF Subscriptions
  <2>3. Seen' = Seen
    BY <2>1, <2>2 DEF Seen
  <2>4. RouteInv'
    BY <1>5, <2>2 DEF RouteInv
  <2>5. SinceInv'
    BY <1>3, <2>1, <2>2 DEF SinceInv
  <2>6. SentInv'
    BY <2>2 DEF SentInv, Explained
  <2> QED BY <1>1, <1>2, <2>3, <2>4, <2>5, <2>6, SubscriptionKeeps DEF FlowInv
<1> QED BY <1>6, <1>7, <1>8, <1>9

\* The first of the client's channel: sent if it is past the cursor, and
\* dropped if not.
LEMMA ForwardFlow ==
    ASSUME StreamInv, FlowInv, forward_live_events
    PROVE  FlowInv'
<1> DEFINE q == inbox.queue
           h == inbox.queue[1]
<1>1. /\ client.phase = "live" /\ q # <<>> /\ inbox.lost = {} /\ inbox' = [inbox EXCEPT !.queue = Tail(q)]
      /\ UNCHANGED <<logVars, channel, overrun>>
  BY DEF forward_live_events
<1>2. /\ q \in Seq(Envelopes) /\ client.since \in Nat /\ client.last_sent \in Nat
      /\ client \in Subscriptions /\ inbox \in Channels /\ got \in Seq(Envelopes)
  BY StreamFields DEF StreamInv, TypeOK
<1>3. h \in Envelopes /\ h.sequence \in Nat /\ h.agent \in Agents /\ ToSet(q) = ToSet(Tail(q)) \cup {h}
  BY <1>1, <1>2, Elements, Fields
<1>4. \/ /\ h.sequence > client.last_sent /\ got' = Append(got, h)
         /\ client' = [client EXCEPT !.last_sent = h.sequence]
      \/ ~(h.sequence > client.last_sent) /\ got' = got /\ client' = client
  BY DEF forward_live_events, fresh_sequence, Deliver
<1>5. /\ stage' = stage /\ outbox' = outbox /\ events' = events /\ channel' = channel /\ overrun' = overrun
      /\ Stored' = Stored
  BY <1>1 DEF logVars, Stored
<1>6. ~client.gap => \A i \in DOMAIN q : i # 1 /\ q[i].agent = h.agent => h.sequence < q[i].sequence
  <2> SUFFICES ASSUME ~client.gap, NEW i \in DOMAIN q, i # 1, q[i].agent = h.agent
               PROVE  h.sequence < q[i].sequence
    OBVIOUS
  <2>1. InTurn(q)
    BY <1>1 DEF FlowInv, RouteInv
  <2>2. 1 \in DOMAIN q /\ 1 < i
    BY <1>1, <1>2
  <2> QED BY <2>1, <2>2 DEF InTurn
<1>7. Tail(q) \in Seq(Envelopes) /\ \A i \in DOMAIN Tail(q) : i \in Nat /\ i + 1 \in DOMAIN q /\ i + 1 # 1 /\ Tail(q)[i] = q[i + 1]
  BY <1>1, <1>2
<1>8. ~client.gap => \A x \in ToSet(Tail(q)) : x.agent = h.agent => h.sequence < x.sequence
  <2> DEFINE t == Tail(q)
  <2>1. \A i \in DOMAIN t : i + 1 \in DOMAIN q /\ i + 1 # 1 /\ t[i] = q[i + 1]
    BY <1>7
  <2> HIDE DEF t, q, h
  <2>2. ~client.gap => \A i \in DOMAIN t : t[i].agent = h.agent => h.sequence < t[i].sequence
    BY <1>6, <2>1
  <2>3. ~client.gap => \A x \in ToSet(t) : x.agent = h.agent => h.sequence < x.sequence
    BY <2>2 DEF ToSet
  <2> QED BY <2>3 DEF t
<1>9. ~client.gap => InTurn(Tail(q))
  <2> DEFINE t == Tail(q)
  <2> SUFFICES ASSUME ~client.gap, NEW i \in DOMAIN t, NEW j \in DOMAIN t, i < j, t[i].agent = t[j].agent
               PROVE  t[i].sequence < t[j].sequence
    BY DEF InTurn
  <2>1. InTurn(q)
    BY <1>1 DEF FlowInv, RouteInv
  <2>2. i + 1 \in DOMAIN q /\ j + 1 \in DOMAIN q /\ i + 1 < j + 1 /\ t[i] = q[i + 1] /\ t[j] = q[j + 1]
    BY <1>7
  <2> HIDE DEF t, q
  <2> QED BY <2>1, <2>2 DEF InTurn
<1>10. h \in Flying /\ h \in ToSet(q) /\ ToSet(Tail(q)) \subseteq ToSet(q)
  BY <1>3, Standing
<1> HIDE DEF q, h
<1>11. inbox'.queue = Tail(q) /\ inbox'.lost = {}
  BY <1>1, <1>2, Zenon DEF Channels
<1>12. /\ client'.phase = "live" /\ client'.since = client.since /\ client'.backlog = client.backlog
       /\ client'.gap = client.gap /\ client.backlog = <<>>
       /\ \/ /\ h.sequence > client.last_sent /\ ToSet(got') = ToSet(got) \cup {h}
             /\ client'.last_sent = h.sequence
          \/ ~(h.sequence > client.last_sent) /\ got' = got /\ client'.last_sent = client.last_sent
  <2>1. client.backlog = <<>>
    BY <1>1 DEF StreamInv, CursorInv
  <2>2. CASE got' = got /\ client' = client /\ ~(h.sequence > client.last_sent)
    BY <1>1, <2>1, <2>2
  <2>3. CASE h.sequence > client.last_sent /\ got' = Append(got, h)
             /\ client' = [client EXCEPT !.last_sent = h.sequence]
    <3>1. ToSet(got') = ToSet(got) \cup {h}
      BY <1>2, <1>3, <2>3, Elements
    <3>2. /\ client'.phase = client.phase /\ client'.since = client.since /\ client'.backlog = client.backlog
          /\ client'.gap = client.gap /\ client'.last_sent = h.sequence
      BY <1>2, <2>3, Zenon DEF Subscriptions
    <3> QED BY <1>1, <2>1, <2>3, <3>1, <3>2
  <2> QED BY <1>4, <2>2, <2>3
<1>13. \A a \in Agents : Held(a)' = Held(a)
  BY <1>5 DEF Held
<1>14. Flying' \subseteq Flying
  BY <1>10, <1>11, <1>13 DEF Flying, q
<1>15. \A x \in Seen' : x \in Seen \/ x = h
  BY <1>12, NoElements DEF Seen
<1>16. RouteInv'
  <2>1. \A a \in Agents : Increasing(channel'[a].queue)
    BY <1>5 DEF FlowInv, RouteInv
  <2>2. \A a \in Agents : \A y \in Held(a)' :
          y.agent = a /\ \A x \in ToSet(inbox'.queue) : x.agent = a => x.sequence < y.sequence
    BY <1>10, <1>11, <1>13 DEF FlowInv, RouteInv, q
  <2> QED BY <1>9, <1>11, <1>12, <2>1, <2>2 DEF RouteInv
<1>17. SinceInv'
  <2>1. SinceInv
    BY DEF FlowInv
  <2>2. CASE got' = got /\ client'.last_sent = client.last_sent
    BY <1>12, <2>1, <2>2 DEF SinceInv
  <2>3. CASE h.sequence > client.last_sent /\ ToSet(got') = ToSet(got) \cup {h} /\ client'.last_sent = h.sequence
    <3>1. client.since <= h.sequence
      BY <1>2, <1>3, <2>1, <2>3 DEF SinceInv
    <3> QED BY <1>12, <2>3, <3>1 DEF SinceInv
  <2> QED BY <1>12, <2>2, <2>3
<1>18. SentInv'
  <2> SUFFICES ASSUME NEW e \in Stored, e.sequence > client.since
               PROVE  Explained(e)' \/ Coming(e)'
    BY <1>5, <1>12 DEF SentInv
  <2>1. e.agent \in Agents /\ e.sequence \in Nat
    BY Standing
  <2>2. Explained(e) \/ Coming(e)
    BY <1>1, <1>12, NoElements DEF FlowInv, SentInv
  <2>3. ToSet(got) \subseteq ToSet(got')
    BY <1>12
  <2>4. Explained(e) => Explained(e)'
    BY <1>1, <1>5, <1>12, <2>3 DEF Explained, Overtaken
  <2>5. CASE client.gap
    BY <1>12, <2>5 DEF Explained
  <2>6. CASE Coming(e) /\ ~client.gap /\ e = h
    <3>1. CASE h.sequence > client.last_sent
      <4>1. h \in ToSet(got')
        BY <1>12, <3>1
      <4> QED BY <2>6, <4>1 DEF Explained
    <3>2. CASE ~(h.sequence > client.last_sent)
      <4>1. client.last_sent > client.since
        BY <1>2, <1>3, <2>6, <3>2
      <4>2. PICK f \in ToSet(got) : f.sequence = client.last_sent
        BY <4>1 DEF FlowInv, SinceInv
      <4>3. f \in Seen
        BY <4>1, <4>2, Standing DEF Seen
      <4>4. f.agent # e.agent
        BY <1>2, <1>3, <2>6, <3>2, <4>2, <4>3 DEF Coming
      <4>5. f.sequence # e.sequence
        BY <4>3, <4>4 DEF FlowInv, OriginInv
      <4>6. f.sequence > e.sequence
        BY <1>2, <1>3, <2>6, <3>2, <4>2, <4>5
      <4> QED BY <2>3, <4>2, <4>4, <4>6 DEF Explained, Overtaken
    <3> QED BY <3>1, <3>2
  <2>7. CASE Coming(e) /\ ~client.gap /\ e # h
    <3>1. e.agent = h.agent => h.sequence < e.sequence
      <4>1. CASE e \in ToSet(inbox.queue)
        <5>1. e \in ToSet(Tail(q))
          BY <1>3, <2>7, <4>1 DEF q
        <5> QED BY <1>8, <2>7, <5>1
      <4>2. CASE e \in Held(e.agent)
        BY <1>10, <2>1, <4>2 DEF FlowInv, RouteInv, q
      <4>3. CASE stage[e.agent] = "committed" /\ outbox[e.agent][1] = e
        BY <1>10, <2>1, <4>3 DEF FlowInv, HeadInv
      <4> QED BY <2>7, <4>1, <4>2, <4>3 DEF Coming
    <3>2. \A x \in Seen' : x.agent = e.agent => x.sequence < e.sequence
      BY <1>15, <2>7, <3>1 DEF Coming
    <3>3. e \in ToSet(inbox.queue) => e \in ToSet(inbox'.queue)
      BY <1>3, <1>11, <2>7 DEF q
    <3> QED BY <1>5, <1>13, <2>1, <2>7, <3>2, <3>3 DEF Coming
  <2> QED BY <2>2, <2>4, <2>5, <2>6, <2>7
<1> QED BY <1>1, <1>10, <1>14, <1>15, <1>16, <1>17, <1>18, SubscriptionKeeps DEF FlowInv

LEMMA InitFlowInv == Init => FlowInv
<1> SUFFICES ASSUME Init PROVE FlowInv
  OBVIOUS
<1>1. /\ channel = [a \in Agents |-> EmptyChannel] /\ inbox = EmptyChannel /\ got = <<>>
      /\ client.backlog = <<>> /\ client.phase = "off" /\ client.since = 0 /\ client.last_sent = 0
      /\ ~client.gap /\ stage = AllWaiting /\ events = <<>>
  BY DEF Init, LogInit
<1>2. \A a \in Agents : Held(a) = {} /\ channel[a].queue = <<>> /\ stage[a] = "waiting"
  BY <1>1, NoElements DEF Held, AllWaiting
<1>3. Flying = {} /\ Seen = {} /\ Stored = {} /\ ToSet(inbox.queue) = {} /\ inbox.queue = <<>>
  BY <1>1, <1>2, NoElements DEF Flying, Seen, Stored
<1>4. Increasing(<<>>) /\ InTurn(<<>>)
  BY DEF Increasing, InTurn
<1>5. RouteInv
  BY <1>2, <1>3, <1>4 DEF RouteInv
<1>6. HeadInv /\ OriginInv
  BY <1>2, <1>3 DEF HeadInv, OriginInv
<1>7. SinceInv /\ SentInv
  BY <1>1 DEF SinceInv, SentInv
<1> QED BY <1>5, <1>6, <1>7 DEF FlowInv

LEMMA StepFlowInv ==
    ASSUME StreamInv, FlowInv, [Next]_vars
    PROVE  FlowInv'
<1>1. CASE (Unseen /\ UNCHANGED streamVars) \/ UNCHANGED vars
  BY <1>1, UnseenFlow DEF vars
<1>2. CASE Subscribe
  <2>1. /\ client.phase = "off" /\ inbox' = EmptyChannel /\ UNCHANGED <<logVars, channel, got>>
        /\ client' = [client EXCEPT !.phase = "subscribed", !.since = client.last_sent,
                                    !.gap = FALSE, !.number = @ + 1]
    BY <1>2 DEF Subscribe
  <2>2. client \in Subscriptions /\ client.backlog = <<>>
    BY <2>1 DEF StreamInv, TypeOK, CursorInv
  <2>3. /\ client'.phase = "subscribed" /\ client'.since = client.last_sent /\ ~client'.gap
        /\ client'.last_sent = client.last_sent /\ client'.backlog = <<>>
    BY <2>1, <2>2, Zenon DEF Subscriptions
  <2> QED BY <2>1, <2>3, EmptiedFlow DEF logVars
<1>3. ASSUME client' = Hangup(client), client \in Subscriptions
      PROVE  /\ client'.phase = "off" /\ client'.since = client.last_sent /\ ~client'.gap
             /\ client'.last_sent = client.last_sent /\ client'.backlog = <<>>
  BY <1>3, Zenon DEF Hangup, Subscriptions
<1>4. client \in Subscriptions
  BY DEF StreamInv, TypeOK
<1>5. CASE Disconnect
  <2>1. client' = Hangup(client) /\ inbox' = EmptyChannel /\ UNCHANGED <<logVars, channel, got>>
    BY <1>5 DEF Disconnect
  <2> QED BY <1>3, <1>4, <2>1, EmptiedFlow DEF logVars
<1>6. CASE crash
  <2>1. /\ client' = Hangup(client) /\ inbox' = EmptyChannel /\ got' = got /\ events' = events
        /\ channel' = [a \in Agents |-> EmptyChannel] /\ stage' = AllWaiting
    BY <1>6 DEF crash, Crash
  <2> QED BY <1>3, <1>4, <2>1, EmptiedFlow
<1> QED BY <1>1, <1>2, <1>5, <1>6, PublishFlow, PollFlow, ReplayFlow, ForwardFlow DEF Next

LEMMA FlowExplains ==
    ASSUME StreamInv, FlowInv
    PROVE  LossesAreExplained
<1> SUFFICES ASSUME client.phase # "off", NEW e \in Stored, e.sequence > client.since,
                    e.sequence <= client.last_sent
             PROVE  Explained(e)
  BY DEF LossesAreExplained, Explained
<1>1. client.since \in Nat /\ client.last_sent \in Nat /\ e.sequence \in Nat
  BY Standing, StreamFields DEF StreamInv
<1>2. client.phase \in {"replaying", "live"}
  <2>1. client.phase # "subscribed"
    BY <1>1 DEF StreamInv, CursorInv
  <2>2. client.phase \in Phases
    BY DEF StreamInv, TypeOK, Subscriptions
  <2> QED BY <2>1, <2>2 DEF Phases
<1>3. e \notin ToSet(client.backlog)
  <2>1. \A i \in DOMAIN client.backlog : client.backlog[i].sequence > client.last_sent
    BY DEF StreamInv, CursorInv
  <2> QED BY <1>1, <2>1 DEF ToSet
<1>4. CASE Coming(e)
  <2>1. client.last_sent > client.since
    BY <1>1
  <2>2. PICK f \in ToSet(got) : f.sequence = client.last_sent
    BY <2>1 DEF FlowInv, SinceInv
  <2>3. f \in Seen
    BY <2>1, <2>2, Standing DEF Seen
  <2>4. f.agent # e.agent
    BY <1>1, <1>4, <2>2, <2>3 DEF Coming
  <2>5. f.sequence # e.sequence
    BY <2>3, <2>4 DEF FlowInv, OriginInv
  <2>6. f.sequence > e.sequence
    BY <1>1, <2>2, <2>5
  <2> QED BY <2>2, <2>4, <2>6 DEF Explained, Overtaken
<1> QED BY <1>2, <1>3, <1>4 DEF FlowInv, SentInv

\* Replay and live delivery (replay_backlog, forward_live_events, the bus's
\* poll_receivers): while a subscription lasts, a stored event between the
\* cursor it began from and the last number sent was sent, or the client was
\* told of a gap, or the bus's receiver overran, or an event of another agent
\* with a higher number was sent first.
THEOREM LossesHaveReasons == Spec => []LossesAreExplained
<1>1. StreamInv /\ FlowInv => LossesAreExplained
  BY FlowExplains
<1>2. Spec => [](StreamInv /\ FlowInv)
  <2>1. StreamInv /\ FlowInv /\ [Next]_vars => StreamInv' /\ FlowInv'
    BY StepStreamInv, StepFlowInv
  <2> QED BY <2>1, InitStreamInv, InitFlowInv, PTL DEF Spec
<1> QED BY <1>1, <1>2, PTL
=============================================================================
