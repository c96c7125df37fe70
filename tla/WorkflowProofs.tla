--------------------------- MODULE WorkflowProofs ---------------------------
(***************************************************************************)
(* Theorems about a run of a workflow, for every graph without loops and   *)
(* every number of executions: a completed run has done what its graph     *)
(* says, an ended run is closed, and no scheduler is ever stuck.           *)
(***************************************************************************)
EXTENDS WorkflowRun, SubsequenceProofs

-----------------------------------------------------------------------------
(* The inductive invariant, by execution: of the variables of its scheduler, *)
(* its node sessions and its continuations, for a graph that is fixed.       *)
ExecStages == {"none", "looping", "racing", "draining", "done"}
Going == {"looping", "racing", "draining"}
Flying == Waits \union Results \union {"none", "gone"}

\* The variables of the scheduler of an execution.
Records(g) == [stage: ExecStages, active: SUBSET (1..g.size), decided: [g.edges -> Decisions],
               begun: SUBSET (1..g.size), done: SUBSET (1..g.size), failure: BOOLEAN,
               deadline: {"none", "ahead", "passed"}]

\* Joined, of a graph that is given.
Verdict(g, decided, n) ==
    Join(g.join[n], {decided[e] : e \in {i \in g.edges : i[2] = n}} \ {"absent"})

\* What waits or runs has begun, what is done does not run, and an edge out of an active
\* node is decided by the end of that node only.
ExecOK(g, ex, s, f) ==
    /\ ex.begun \subseteq ex.active /\ ex.done \subseteq ex.begun
    /\ \A n \in 1..g.size : /\ f[n] \in Waits => n \in ex.begun \ ex.done
                            /\ s[n] # "none" => n \in ex.begun
                            /\ n \in ex.done => s[n] # "running"
    /\ \A e \in g.edges :
          ex.decided[e] \in {"taken", "not_taken"} /\ e[1] \in ex.active => e[1] \in ex.done
    /\ ex.stage = "none" => \A n \in 1..g.size : f[n] = "none" /\ s[n] = "none"

\* While the row says that it runs: a node was started on a join that was ready and is to
\* stay so, and a node that is done has succeeded, or was skipped on one that is to stay so.
Follows(g, ex, s, f) ==
    /\ \A n \in 1..g.size : f[n] \in Waits =>
          s[n] = "running" /\ Verdict(g, ex.decided, n) = "ready"
    /\ \A n \in ex.done : \/ ex.failure
                          \/ s[n] = "completed" /\ Verdict(g, ex.decided, n) = "ready"
                          \/ s[n] = "none" /\ Verdict(g, ex.decided, n) = "skipped"

\* What is left of an execution that completed.
Followed(g, ex, s) ==
    \A n \in ex.active :
        /\ n \in ex.done
        /\ Verdict(g, ex.decided, n) = IF s[n] = "completed" THEN "ready" ELSE "skipped"

\* A session that runs is at work for an execution that runs, or its error was dropped.
Closing(ex, s, f, n, status) ==
    s[n] = "running" => \/ f[n] = "threw"
                        \/ f[n] \in Waits /\ ex.stage \in Going /\ status = "running"

IsLast(x) == /\ execs[x].stage # "none"
             /\ \A y \in Executions : execs[y].stage # "none" => y <= x

WorkflowTypes ==
    /\ instance \in Instances /\ row \in RowStatuses
    /\ canceledIds \in BOOLEAN /\ overtaken \in BOOLEAN
    /\ execs \in [Executions -> Records(graph)]
    /\ sessions \in [Executions -> [1..graph.size -> SessionStatuses]]
    /\ flight \in [Executions -> [1..graph.size -> Flying]]

ExecInv == \A x \in Executions : ExecOK(graph, execs[x], sessions[x], flight[x])

\* Executions are launched in their order, and the row runs while the last one does.
LaunchInv ==
    /\ \A x \in Executions :
          execs[x].stage # "none" => \A y \in 1..(x - 1) : execs[y].stage # "none"
    /\ row = "none" => \A x \in Executions : execs[x].stage = "none"
    /\ row \in {"running", "completed"} => \E x \in Executions : IsLast(x)
    /\ row = "running" => \A x \in Executions : IsLast(x) => execs[x].stage \in Going

\* A run that was stopped or deleted has no session that runs.
StopInv ==
    /\ canceledIds => row = "canceled"
    /\ row \in {"canceled", "deleted"} =>
          \A x \in Executions, n \in 1..graph.size : sessions[x][n] # "running"

\* As long as no execution overtook another: only the last one runs, and what it leaves
\* when it ends is closed.
SoloInv ==
    ~overtaken =>
        /\ \A x \in Executions : execs[x].stage \in Going =>
              IsLast(x) /\ row \in {"running", "canceled", "deleted"}
        /\ \A x \in Executions, n \in 1..graph.size :
              Closing(execs[x], sessions[x], flight[x], n, row)

\* What the last execution does follows the graph, and what it leaves has followed it.
FollowInv ==
    /\ row = "running" => \A x \in Executions : IsLast(x) =>
          Follows(graph, execs[x], sessions[x], flight[x])
    /\ row = "completed" /\ ~overtaken => \A x \in Executions : IsLast(x) =>
          Followed(graph, execs[x], sessions[x])

WorkflowInv == WorkflowTypes /\ ExecInv /\ LaunchInv /\ StopInv /\ SoloInv /\ FollowInv

-----------------------------------------------------------------------------
(* Recursion along the edges.  What the provers cannot instantiate as an     *)
(* induction goes through the least node without a value.                    *)

\* A rule that decides of each number from the decisions of the smaller ones has a set of
\* numbers that obeys it.
LEMMA RuledSet ==
    ASSUME NEW N \in Nat, NEW F \in [1..N -> [SUBSET (1..N) -> BOOLEAN]],
           \A n \in 1..N, A, B \in SUBSET (1..N) :
              (\A m \in 1..N : m < n => (m \in A <=> m \in B)) => F[n][A] = F[n][B]
    PROVE  \E A \in SUBSET (1..N) : \A n \in 1..N : n \in A <=> F[n][A]
<1> DEFINE upto(k) == \E A \in SUBSET (1..N) : \A n \in 1..k : n \in A <=> F[n][A]
           bad == {k \in 0..N : ~upto(k)}
<1>1. upto(0)
  <2>1. {} \in SUBSET (1..N) /\ \A n \in 1..0 : FALSE
    OBVIOUS
  <2> QED BY <2>1
<1>2. ASSUME NEW k \in 0..N, ~upto(k), \A j \in bad : k <= j PROVE FALSE
  <2>1. k # 0 /\ k \in 1..N /\ k - 1 \in 0..N /\ k - 1 < k
    <3>1. k # 0
      BY <1>1, <1>2
    <3> QED BY <3>1
  <2>2. upto(k - 1)
    <3>1. ~(k <= k - 1)
      BY <2>1
    <3>2. k - 1 \notin bad
      BY <1>2, <3>1
    <3> QED BY <2>1, <3>2
  <2>3. PICK A \in SUBSET (1..N) : \A n \in 1..(k - 1) : n \in A <=> F[n][A]
    BY <2>2
  <2>4. PICK B \in SUBSET (1..N) : B = IF F[k][A] THEN A \union {k} ELSE A \ {k}
    BY <2>1
  <2>5. \A m \in 1..N : m < k => (m \in A <=> m \in B)
    BY <2>1, <2>4
  <2>6. \A n \in 1..k : F[n][A] = F[n][B]
    <3> TAKE n \in 1..k
    <3>1. n \in 1..N /\ \A m \in 1..N : m < n => m < k
      BY <2>1
    <3> QED BY <2>5, <3>1
  <2>7. \A n \in 1..k : n \in B <=> F[n][B]
    <3> TAKE n \in 1..k
    <3>1. CASE n = k
      BY <2>4, <2>6, <3>1
    <3>2. CASE n # k
      <4>1. n \in 1..(k - 1) /\ n \in 1..N /\ n < k
        BY <2>1, <3>2
      <4> QED BY <2>3, <2>5, <2>6, <4>1
    <3> QED BY <3>1, <3>2
  <2> QED BY <1>2, <2>7
<1>3. bad = {}
  <2> SUFFICES ASSUME bad # {} PROVE FALSE
    OBVIOUS
  <2>1. bad \in SUBSET Nat
    OBVIOUS
  <2>2. PICK k \in bad : \A j \in bad : k <= j
    BY <2>1, LeastNumber
  <2> QED BY <1>2, <2>2
<1>4. upto(N)
  <2>1. N \in 0..N
    OBVIOUS
  <2> HIDE DEF upto
  <2> QED BY <1>3, <2>1
<1> QED BY <1>4

\* The sources of the edges into a node are below it.
LEMMA EdgeFacts ==
    ASSUME NEW g, IsGraph(g)
    PROVE  /\ g.size \in Nat
           /\ \A e \in g.edges : /\ e[1] \in 1..g.size /\ e[2] \in 1..g.size /\ e[1] < e[2]
           /\ g.join \in [1..g.size -> Joins]
BY DEF IsGraph

\* A node is skipped that has not begun and whose join is skipped, once the edges out of
\* the skipped nodes are not taken.
SkipRule(g, ex, S, n) ==
    /\ n \in ex.active \ ex.begun
    /\ "skipped" = Join(g.join[n],
          {IF e[1] \in S THEN "not_taken" ELSE ex.decided[e] :
             e \in {i \in g.edges : i[2] = n /\ ex.decided[i] # "absent"}})

\* The nodes that the scheduler skips are all those, and no others, that this rule names.
LEMMA SkippedFacts ==
    ASSUME IsGraph(graph), NEW ex \in Records(graph), NEW S, S = SkippedNow(ex)
    PROVE  S \subseteq Nodes /\ \A n \in Nodes : n \in S <=> SkipRule(graph, ex, S, n)
<1> DEFINE rule(n, A) == /\ n \in ex.active \ ex.begun
                         /\ "skipped" = Join(graph.join[n],
                              {IF e[1] \in A THEN "not_taken" ELSE ex.decided[e] :
                                 e \in {i \in Into(n) : ex.decided[i] # "absent"}})
<1>1. graph.size \in Nat /\ Nodes = 1..graph.size
      /\ \A n \in Nodes : \A e \in Into(n) : e[1] \in Nodes /\ e[1] < n
  BY EdgeFacts DEF Nodes, Into
<1>2. \E A \in SUBSET Nodes : \A n \in Nodes : n \in A <=> rule(n, A)
  <2>1. PICK F : F = [n \in Nodes |-> [A \in SUBSET Nodes |-> rule(n, A)]]
    OBVIOUS
  <2>2. F \in [Nodes -> [SUBSET Nodes -> BOOLEAN]]
        /\ \A n \in Nodes, A \in SUBSET Nodes : F[n][A] = rule(n, A)
    BY <2>1
  <2>3. ASSUME NEW n \in Nodes, NEW A \in SUBSET Nodes, NEW B \in SUBSET Nodes,
               \A m \in Nodes : m < n => (m \in A <=> m \in B)
        PROVE  rule(n, A) = rule(n, B)
    <3>1. {IF e[1] \in A THEN "not_taken" ELSE ex.decided[e] :
              e \in {i \in Into(n) : ex.decided[i] # "absent"}}
          = {IF e[1] \in B THEN "not_taken" ELSE ex.decided[e] :
              e \in {i \in Into(n) : ex.decided[i] # "absent"}}
      BY <1>1, <2>3
    <3> QED BY <3>1
  <2> HIDE DEF rule
  <2>4. \A n \in Nodes, A, B \in SUBSET Nodes :
           (\A m \in Nodes : m < n => (m \in A <=> m \in B)) => F[n][A] = F[n][B]
    BY <2>2, <2>3
  <2>5. \E A \in SUBSET Nodes : \A n \in Nodes : n \in A <=> F[n][A]
    <3>1. PICK N \in Nat : N = graph.size /\ Nodes = 1..N
      BY <1>1
    <3>2. F \in [1..N -> [SUBSET (1..N) -> BOOLEAN]]
      BY <2>2, <3>1
    <3>3. \A n \in 1..N, A, B \in SUBSET (1..N) :
             (\A m \in 1..N : m < n => (m \in A <=> m \in B)) => F[n][A] = F[n][B]
      BY <2>4, <3>1
    <3>4. \E A \in SUBSET (1..N) : \A n \in 1..N : n \in A <=> F[n][A]
      BY <3>2, <3>3, RuledSet
    <3> QED BY <3>1, <3>4
  <2> QED BY <2>2, <2>5
<1> DEFINE body(f, n) == /\ n \in ex.active \ ex.begun
                         /\ "skipped" = Join(graph.join[n],
                              {IF f[e[1]] THEN "not_taken" ELSE ex.decided[e] :
                                 e \in {i \in Into(n) : ex.decided[i] # "absent"}})
<1>3. \E f : f = [n \in Nodes |-> body(f, n)]
  <2>1. PICK A \in SUBSET Nodes : \A n \in Nodes : n \in A <=> rule(n, A)
    BY <1>2
  <2>2. PICK f : f = [n \in Nodes |-> n \in A]
    OBVIOUS
  <2>3. ASSUME NEW n \in Nodes PROVE (n \in A) = body(f, n)
    <3>1. \A e \in Into(n) : f[e[1]] <=> e[1] \in A
      BY <1>1, <2>2
    <3>2. {IF e[1] \in A THEN "not_taken" ELSE ex.decided[e] :
              e \in {i \in Into(n) : ex.decided[i] # "absent"}}
          = {IF f[e[1]] THEN "not_taken" ELSE ex.decided[e] :
              e \in {i \in Into(n) : ex.decided[i] # "absent"}}
      BY <3>1
    <3>3. rule(n, A) <=> body(f, n)
      BY <3>2
    <3>4. n \in A <=> body(f, n)
      <4> HIDE DEF rule, body
      <4> QED BY <2>1, <3>3
    <3>5. CASE n \in A
      <4>1. (n \in A) = TRUE /\ body(f, n) = TRUE
        BY <3>4, <3>5
      <4> HIDE DEF body
      <4> QED BY <4>1
    <3>6. CASE n \notin A
      <4>1. (n \in A) = FALSE /\ body(f, n) = FALSE
        BY <3>4, <3>6
      <4> HIDE DEF body
      <4> QED BY <4>1
    <3> QED BY <3>5, <3>6
  <2> HIDE DEF body
  <2>4. f = [n \in Nodes |-> body(f, n)]
    BY <2>2, <2>3
  <2> QED BY <2>4
<1>4. PICK f : f = [n \in Nodes |-> body(f, n)] /\ S = {n \in Nodes : f[n]}
  <2>1. PICK f : f = CHOOSE h : h = [n \in Nodes |-> body(h, n)]
    OBVIOUS
  <2>2. S = {n \in Nodes : f[n]}
    BY <2>1 DEF SkippedNow
  <2> HIDE DEF body
  <2>3. f = [n \in Nodes |-> body(f, n)]
    BY <1>3, <2>1
  <2> QED BY <2>2, <2>3
<1>5. S \subseteq Nodes /\ \A n \in Nodes : n \in S <=> body(f, n)
  <2> HIDE DEF body
  <2> QED BY <1>4
<1>6. \A n \in Nodes : f[n] <=> n \in S
  <2> HIDE DEF body
  <2> QED BY <1>4
<1>7. ASSUME NEW n \in Nodes PROVE body(f, n) <=> SkipRule(graph, ex, S, n)
  <2>1. {IF f[e[1]] THEN "not_taken" ELSE ex.decided[e] :
           e \in {i \in Into(n) : ex.decided[i] # "absent"}}
        = {IF e[1] \in S THEN "not_taken" ELSE ex.decided[e] :
             e \in {i \in graph.edges : i[2] = n /\ ex.decided[i] # "absent"}}
    BY <1>1, <1>6 DEF Into
  <2> QED BY <2>1 DEF SkipRule
<1> QED BY <1>5, <1>7

-----------------------------------------------------------------------------
(* The decisions of the edges.                                               *)

LEMMA VerdictIsJoined ==
    ASSUME NEW decided, NEW n
    PROVE  Joined(decided, n) = Verdict(graph, decided, n)
BY DEF Joined, Verdict, Into

\* One set of decisions follows from another: what is decided stays so.
Refines(g, d, c) ==
    \A e \in g.edges : \/ d[e] = c[e]
                       \/ c[e] = "pending" /\ d[e] \in {"taken", "not_taken"}

\* What a join has decided on some of its edges it does not take back.
LEMMA JoinStable ==
    ASSUME NEW g, IsGraph(g), NEW c \in [g.edges -> Decisions],
           NEW d \in [g.edges -> Decisions], Refines(g, d, c),
           NEW n \in 1..g.size, Verdict(g, c, n) \in {"ready", "skipped"}
    PROVE  Verdict(g, d, n) = Verdict(g, c, n)
<1> DEFINE into == {i \in g.edges : i[2] = n}
           C == {c[e] : e \in into} \ {"absent"}
           D == {d[e] : e \in into} \ {"absent"}
<1>1. \A e \in into : \/ d[e] = c[e]
                      \/ c[e] = "pending" /\ d[e] \in {"taken", "not_taken"}
  BY DEF Refines
<1>2. /\ "taken" \in C => "taken" \in D
      /\ "not_taken" \in C => "not_taken" \in D
      /\ D = {} <=> C = {}
  BY <1>1
<1>3. "pending" \notin C => D = C
  BY <1>1
<1>4. Verdict(g, c, n) = Join(g.join[n], C) /\ Verdict(g, d, n) = Join(g.join[n], D)
  BY DEF Verdict
<1> HIDE DEF C, D
<1> QED BY <1>2, <1>3, <1>4 DEF Join

LEMMA RefinesIsSame ==
    ASSUME NEW g, NEW c
    PROVE  Refines(g, c, c)
BY DEF Refines

\* Skipping keeps what holds of an execution, decides edges that were pending, and ends
\* nodes that have no session and a join that is to stay skipped; it leaves no such node.
LEMMA SkipFacts ==
    ASSUME IsGraph(graph), NEW ex \in Records(graph), NEW s, NEW f,
           ExecOK(graph, ex, s, f), NEW sk, sk = Skip(ex)
    PROVE  /\ sk \in Records(graph)
           /\ sk.stage = ex.stage /\ sk.active = ex.active /\ sk.failure = ex.failure
           /\ sk.deadline = ex.deadline
           /\ ExecOK(graph, sk, s, f)
           /\ Refines(graph, sk.decided, ex.decided)
           /\ ex.begun \subseteq sk.begun /\ ex.done \subseteq sk.done
           /\ \A n \in sk.done \ ex.done :
                 s[n] = "none" /\ Verdict(graph, sk.decided, n) = "skipped"
           /\ \A n \in sk.active \ sk.begun : Verdict(graph, sk.decided, n) # "skipped"
           /\ sk.begun \ sk.done = ex.begun \ ex.done
           /\ \A e \in graph.edges : sk.decided[e] = "pending" =>
                 ex.decided[e] = "pending" /\ (e[1] \in sk.done => e[1] \in ex.done)
<1>1. PICK S : S = SkippedNow(ex)
  OBVIOUS
<1>2. /\ S \subseteq ex.active \ ex.begun
      /\ \A n \in ex.active \ ex.begun : n \in S <=> SkipRule(graph, ex, S, n)
  <2>1. ex.active \subseteq Nodes
    BY DEF Records, Nodes
  <2>2. S \subseteq Nodes /\ \A n \in Nodes : n \in S <=> SkipRule(graph, ex, S, n)
    BY <1>1, SkippedFacts
  <2>3. \A n \in Nodes : SkipRule(graph, ex, S, n) => n \in ex.active \ ex.begun
    BY DEF SkipRule
  <2> QED BY <2>1, <2>2, <2>3
<1>3. sk = [ex EXCEPT !.begun = ex.begun \union S, !.done = ex.done \union S,
                      !.decided = [e \in graph.edges |->
                         IF e[1] \in S /\ ex.decided[e] # "absent" THEN "not_taken"
                         ELSE ex.decided[e]]]
  BY <1>1 DEF Skip, Records
<1>4. /\ sk.stage = ex.stage /\ sk.active = ex.active /\ sk.failure = ex.failure
      /\ sk.deadline = ex.deadline
      /\ sk.begun = ex.begun \union S /\ sk.done = ex.done \union S
      /\ sk.decided = [e \in graph.edges |->
            IF e[1] \in S /\ ex.decided[e] # "absent" THEN "not_taken" ELSE ex.decided[e]]
  BY <1>3 DEF Records
<1>5. sk \in Records(graph)
  <2>1. ex.begun \union S \in SUBSET (1..graph.size) /\ ex.done \union S \in SUBSET (1..graph.size)
    BY <1>2 DEF Records
  <2>2. PICK d \in [graph.edges -> Decisions] : d = [e \in graph.edges |->
            IF e[1] \in S /\ ex.decided[e] # "absent" THEN "not_taken" ELSE ex.decided[e]]
    BY DEF Records, Decisions
  <2>3. sk = [ex EXCEPT !.begun = ex.begun \union S, !.done = ex.done \union S, !.decided = d]
    BY <1>3, <2>2
  <2> QED BY <2>1, <2>3 DEF Records
<1>6. /\ ex.decided \in [graph.edges -> Decisions]
      /\ ex.active \subseteq 1..graph.size
      /\ \A e \in graph.edges : ex.decided[e] \in Decisions
  BY DEF Records
<1>7. ASSUME NEW e \in graph.edges, e[1] \in S
      PROVE  ex.decided[e] \in {"absent", "pending"}
  BY <1>2, <1>6, <1>7 DEF ExecOK, Decisions
<1>8. Refines(graph, sk.decided, ex.decided)
  BY <1>4, <1>7 DEF Refines
<1>9. \A n \in S : s[n] = "none"
  BY <1>2, <1>6 DEF ExecOK
<1>10. ExecOK(graph, sk, s, f)
  <2>1. sk.begun \subseteq sk.active /\ sk.done \subseteq sk.begun
    BY <1>2, <1>4 DEF ExecOK
  <2>2. \A n \in 1..graph.size : /\ f[n] \in Waits => n \in sk.begun \ sk.done
                                 /\ s[n] # "none" => n \in sk.begun
                                 /\ n \in sk.done => s[n] # "running"
    BY <1>2, <1>4, <1>9 DEF ExecOK
  <2>3. ASSUME NEW e \in graph.edges, sk.decided[e] \in {"taken", "not_taken"}, e[1] \in sk.active
        PROVE  e[1] \in sk.done
    BY <1>4, <2>3 DEF ExecOK
  <2>4. sk.stage = "none" => \A n \in 1..graph.size : f[n] = "none" /\ s[n] = "none"
    BY <1>4 DEF ExecOK
  <2> QED BY <2>1, <2>2, <2>3, <2>4 DEF ExecOK
<1>11. ASSUME NEW n \in ex.active \ ex.begun
       PROVE  n \in S <=> Verdict(graph, sk.decided, n) = "skipped"
  <2>1. {sk.decided[e] : e \in {i \in graph.edges : i[2] = n}} \ {"absent"}
        = {IF e[1] \in S THEN "not_taken" ELSE ex.decided[e] :
             e \in {i \in graph.edges : i[2] = n /\ ex.decided[i] # "absent"}}
    BY <1>4
  <2> QED BY <1>2, <2>1 DEF Verdict, SkipRule
<1>12. \A n \in sk.done \ ex.done : s[n] = "none" /\ Verdict(graph, sk.decided, n) = "skipped"
  BY <1>2, <1>4, <1>9, <1>11
<1>13. \A n \in sk.active \ sk.begun : Verdict(graph, sk.decided, n) # "skipped"
  BY <1>4, <1>11
<1>14. sk.begun \ sk.done = ex.begun \ ex.done
  BY <1>2, <1>4
<1>15. \A e \in graph.edges : sk.decided[e] = "pending" =>
          ex.decided[e] = "pending" /\ (e[1] \in sk.done => e[1] \in ex.done)
  BY <1>4
<1> QED BY <1>4, <1>5, <1>8, <1>10, <1>12, <1>13, <1>14, <1>15

\* What a run follows is kept by further decisions.
LEMMA FollowsStable ==
    ASSUME NEW g, IsGraph(g), NEW c \in Records(g), NEW s, NEW f, ExecOK(g, c, s, f),
           Follows(g, c, s, f), NEW d \in [g.edges -> Decisions], Refines(g, d, c.decided)
    PROVE  /\ \A n \in 1..g.size : f[n] \in Waits => s[n] = "running" /\ Verdict(g, d, n) = "ready"
           /\ \A n \in c.done : \/ c.failure
                                \/ s[n] = "completed" /\ Verdict(g, d, n) = "ready"
                                \/ s[n] = "none" /\ Verdict(g, d, n) = "skipped"
<1>1. c.decided \in [g.edges -> Decisions] /\ c.done \subseteq 1..g.size
  BY DEF Records
<1>2. \A n \in 1..g.size : Verdict(g, c.decided, n) \in {"ready", "skipped"}
                              => Verdict(g, d, n) = Verdict(g, c.decided, n)
  BY <1>1, JoinStable
<1> QED BY <1>1, <1>2 DEF Follows

-----------------------------------------------------------------------------
(* A step of one execution.                                                  *)

LEMMA GraphOfRun ==
    ASSUME WorkflowTypes
    PROVE  IsGraph(graph) /\ Nodes = 1..graph.size
BY WorkflowAssumption DEF WorkflowTypes, graph, Nodes

LEMMA OneIsLast ==
    ASSUME NEW x \in Executions, NEW y \in Executions, IsLast(x), IsLast(y)
    PROVE  x = y
BY DEF IsLast, Executions

\* A step that changes one execution, and the row only to end it, keeps the invariant if
\* what the invariant says of that execution holds again.
LEMMA ExecutionStep ==
    ASSUME WorkflowInv, NEW x \in Executions, NEW ex \in Records(graph),
           NEW s \in [1..graph.size -> SessionStatuses], NEW f \in [1..graph.size -> Flying],
           execs' = [execs EXCEPT ![x] = ex],
           sessions' = [sessions EXCEPT ![x] = s],
           flight' = [flight EXCEPT ![x] = f],
           UNCHANGED <<instance, canceledIds, overtaken>>,
           \/ row' = row
           \/ /\ row = "running" /\ row' \in {"completed", "failed"}
              /\ ex.stage = "done" /\ execs[x].stage \in Going,
           execs[x].stage # "none", ex.stage # "none",
           ex.stage \in Going => execs[x].stage \in Going,
           row' = "running" /\ execs[x].stage \in Going => ex.stage \in Going,
           ExecOK(graph, ex, s, f),
           \A n \in 1..graph.size :
              s[n] = "running" => sessions[x][n] = "running" \/ row = "running",
           ~overtaken => \A n \in 1..graph.size : Closing(ex, s, f, n, row'),
           row' = "running" /\ IsLast(x) => Follows(graph, ex, s, f),
           row' = "completed" /\ ~overtaken /\ IsLast(x) => Followed(graph, ex, s)
    PROVE  WorkflowInv'
<1> USE DEF WorkflowInv
<1>1. graph' = graph
  BY DEF graph
<1>2. WorkflowTypes'
  <2>1. instance' \in Instances /\ row' \in RowStatuses /\ canceledIds' \in BOOLEAN
        /\ overtaken' \in BOOLEAN
    BY DEF WorkflowTypes, RowStatuses
  <2>2. /\ execs' \in [Executions -> Records(graph)]
        /\ sessions' \in [Executions -> [1..graph.size -> SessionStatuses]]
        /\ flight' \in [Executions -> [1..graph.size -> Flying]]
    BY DEF WorkflowTypes
  <2> QED BY <1>1, <2>1, <2>2 DEF WorkflowTypes
<1>3. /\ execs'[x] = ex /\ sessions'[x] = s /\ flight'[x] = f
      /\ \A y \in Executions : y # x => /\ execs'[y] = execs[y] /\ sessions'[y] = sessions[y]
                                        /\ flight'[y] = flight[y]
  BY DEF WorkflowTypes
<1>4. \A y \in Executions : execs'[y].stage = "none" <=> execs[y].stage = "none"
  BY <1>3
<1>5. \A y \in Executions : IsLast(y)' <=> IsLast(y)
  BY <1>4 DEF IsLast, Executions
<1>6. ExecInv'
  BY <1>1, <1>3 DEF ExecInv
<1>7. LaunchInv'
  <2>1. \A y \in Executions :
           execs'[y].stage # "none" => \A z \in 1..(y - 1) : execs'[z].stage # "none"
    <3> SUFFICES ASSUME NEW y \in Executions, NEW z \in 1..(y - 1), execs'[y].stage # "none"
                 PROVE  execs'[z].stage # "none"
      OBVIOUS
    <3>1. z \in Executions
      BY WorkflowAssumption DEF Executions
    <3> QED BY <1>4, <3>1 DEF LaunchInv
  <2>2. row' = "none" => \A y \in Executions : execs'[y].stage = "none"
    BY <1>4 DEF LaunchInv
  <2>3. row' \in {"running", "completed"} => \E y \in Executions : IsLast(y)'
    BY <1>5 DEF LaunchInv
  <2>4. row' = "running" => \A y \in Executions : IsLast(y)' => execs'[y].stage \in Going
    BY <1>3, <1>5 DEF LaunchInv
  <2> QED BY <2>1, <2>2, <2>3, <2>4 DEF LaunchInv
<1>8. StopInv'
  <2>1. canceledIds' => row' = "canceled"
    BY DEF StopInv
  <2>2. ASSUME row' \in {"canceled", "deleted"}, NEW y \in Executions, NEW n \in 1..graph.size
        PROVE  sessions'[y][n] # "running"
    <3>1. row' = row
      BY <2>2
    <3> QED BY <1>3, <2>2, <3>1 DEF StopInv
  <2> QED BY <1>1, <2>1, <2>2 DEF StopInv
<1>9. SoloInv'
  <2> SUFFICES ASSUME ~overtaken
               PROVE  /\ \A y \in Executions : execs'[y].stage \in Going =>
                            IsLast(y)' /\ row' \in {"running", "canceled", "deleted"}
                      /\ \A y \in Executions, n \in 1..graph.size :
                            Closing(execs'[y], sessions'[y], flight'[y], n, row')
    BY <1>1 DEF SoloInv
  <2>1. ASSUME NEW y \in Executions, execs[y].stage \in Going, y # x
        PROVE  row' = row
    BY <2>1, OneIsLast DEF SoloInv
  <2>2. ASSUME NEW y \in Executions, execs'[y].stage \in Going
        PROVE  IsLast(y)' /\ row' \in {"running", "canceled", "deleted"}
    <3>1. execs[y].stage \in Going
      BY <1>3, <2>2
    <3>2. row' = row
      <4>1. CASE y = x
        BY <1>3, <2>2, <4>1 DEF Going
      <4>2. CASE y # x
        BY <2>1, <3>1, <4>2
      <4> QED BY <4>1, <4>2
    <3> QED BY <1>5, <3>1, <3>2 DEF SoloInv
  <2>3. ASSUME NEW y \in Executions, NEW n \in 1..graph.size
        PROVE  Closing(execs'[y], sessions'[y], flight'[y], n, row')
    <3>1. CASE y = x
      BY <1>3, <3>1
    <3>2. CASE y # x
      <4>1. Closing(execs[y], sessions[y], flight[y], n, row)
        BY DEF SoloInv
      <4> QED BY <1>3, <2>1, <3>2, <4>1 DEF Closing
    <3> QED BY <3>1, <3>2
  <2> QED BY <2>2, <2>3
<1>10. FollowInv'
  <2>1. ASSUME row' = "running", NEW y \in Executions, IsLast(y)
        PROVE  Follows(graph, execs'[y], sessions'[y], flight'[y])
    <3>1. row = "running"
      BY <2>1
    <3> QED BY <1>3, <2>1, <3>1 DEF FollowInv
  <2>2. ASSUME row' = "completed", ~overtaken, NEW y \in Executions, IsLast(y)
        PROVE  Followed(graph, execs'[y], sessions'[y])
    <3>1. CASE y = x
      BY <1>3, <2>2, <3>1
    <3>2. CASE y # x
      <4>1. row = "completed"
        BY <2>2, <3>2, OneIsLast DEF SoloInv
      <4> QED BY <1>3, <2>2, <3>2, <4>1 DEF FollowInv
    <3> QED BY <3>1, <3>2
  <2> QED BY <1>1, <1>5, <2>1, <2>2 DEF FollowInv
<1> QED BY <1>2, <1>6, <1>7, <1>8, <1>9, <1>10

-----------------------------------------------------------------------------
(* The continuation of a node.                                               *)

LEMMA PartsOfExecution ==
    ASSUME WorkflowInv, NEW x \in Executions
    PROVE  \E ex \in Records(graph), s \in [1..graph.size -> SessionStatuses],
              f \in [1..graph.size -> Flying] :
                 /\ ex = execs[x] /\ s = sessions[x] /\ f = flight[x]
                 /\ ExecOK(graph, ex, s, f)
BY DEF WorkflowInv, WorkflowTypes, ExecInv

\* What an event of node n makes of its execution and sessions, c and cs, and what of its
\* continuation: only what runs changes, and the end of the node decides edges out of it.
MovedBy(g, n, c, cs, ex, s, r) ==
    /\ ex.stage = c.stage /\ ex.active = c.active /\ ex.begun = c.begun
    /\ ex.done \in {c.done, c.done \union {n}}
    /\ c.failure => ex.failure
    /\ \A e \in g.edges : \/ ex.decided[e] = c.decided[e]
                          \/ /\ e[1] = n /\ n \in ex.done /\ c.decided[e] # "absent"
                             /\ ex.decided[e] \in {"taken", "not_taken"}
    /\ \A m \in 1..g.size : m # n => s[m] = cs[m]
    /\ s[n] = cs[n] \/ (s[n] # "running" /\ r \notin Waits)
    /\ s[n] = "running" => r \in Waits \union {"threw"}
    /\ n \in ex.done => /\ s[n] # "running" /\ r \notin Waits
                        /\ cs[n] = "running" => ex.failure \/ s[n] = "completed"

LEMMA NodeStep ==
    ASSUME WorkflowInv, NEW x \in Executions, NEW n \in 1..graph.size, flight[x][n] \in Waits,
           NEW ex \in Records(graph), NEW s \in [1..graph.size -> SessionStatuses],
           NEW r \in Flying,
           execs' = [execs EXCEPT ![x] = ex],
           sessions' = [sessions EXCEPT ![x] = s],
           flight' = [flight EXCEPT ![x][n] = r],
           UNCHANGED <<instance, row, canceledIds, overtaken>>,
           MovedBy(graph, n, execs[x], sessions[x], ex, s, r)
    PROVE  WorkflowInv'
<1>1. PICK ex0 \in Records(graph), s0 \in [1..graph.size -> SessionStatuses],
           f0 \in [1..graph.size -> Flying] :
              /\ ex0 = execs[x] /\ s0 = sessions[x] /\ f0 = flight[x]
              /\ ExecOK(graph, ex0, s0, f0)
  BY PartsOfExecution
<1>2. MovedBy(graph, n, ex0, s0, ex, s, r)
  BY <1>1
<1>3. IsGraph(graph)
  BY GraphOfRun DEF WorkflowInv
<1>4. n \in ex0.begun /\ n \in ex0.active /\ n \notin ex0.done /\ ex0.stage # "none"
  BY <1>1 DEF ExecOK, Waits
<1>5. PICK f \in [1..graph.size -> Flying] : f = [f0 EXCEPT ![n] = r]
  OBVIOUS
<1>6. flight' = [flight EXCEPT ![x] = f] /\ f[n] = r
      /\ \A m \in 1..graph.size : m # n => f[m] = f0[m]
  BY <1>1, <1>5
<1>7. ex.decided \in [graph.edges -> Decisions] /\ ex0.decided \in [graph.edges -> Decisions]
      /\ \A e \in graph.edges : ex0.decided[e] \in Decisions
  BY DEF Records
<1>8. Refines(graph, ex.decided, ex0.decided)
  <2> SUFFICES ASSUME NEW e \in graph.edges, ex.decided[e] # ex0.decided[e]
               PROVE  ex0.decided[e] = "pending" /\ ex.decided[e] \in {"taken", "not_taken"}
    BY DEF Refines
  <2>1. e[1] = n /\ ex0.decided[e] # "absent" /\ ex.decided[e] \in {"taken", "not_taken"}
    BY <1>2 DEF MovedBy
  <2>2. ex0.decided[e] \notin {"taken", "not_taken"}
    BY <1>1, <1>4, <2>1 DEF ExecOK
  <2> QED BY <1>7, <2>1, <2>2 DEF Decisions
<1>9. ExecOK(graph, ex, s, f)
  <2>1. ex.begun \subseteq ex.active /\ ex.done \subseteq ex.begun
    BY <1>1, <1>2, <1>4 DEF ExecOK, MovedBy
  <2>2. ASSUME NEW m \in 1..graph.size
        PROVE  /\ f[m] \in Waits => m \in ex.begun \ ex.done
               /\ s[m] # "none" => m \in ex.begun
               /\ m \in ex.done => s[m] # "running"
    <3>1. CASE m = n
      BY <1>1, <1>2, <1>4, <1>6, <3>1 DEF MovedBy
    <3>2. CASE m # n
      BY <1>1, <1>2, <1>6, <3>2 DEF ExecOK, MovedBy
    <3> QED BY <3>1, <3>2
  <2>3. ASSUME NEW e \in graph.edges, ex.decided[e] \in {"taken", "not_taken"}, e[1] \in ex.active
        PROVE  e[1] \in ex.done
    BY <1>1, <1>2, <2>3 DEF ExecOK, MovedBy
  <2>4. ex.stage # "none"
    BY <1>2, <1>4 DEF MovedBy
  <2> QED BY <2>1, <2>2, <2>3, <2>4 DEF ExecOK
<1>10. ASSUME ~overtaken, NEW m \in 1..graph.size PROVE Closing(ex, s, f, m, row)
  <2>1. Closing(ex0, s0, f0, m, row)
    BY <1>1, <1>10 DEF WorkflowInv, SoloInv
  <2>2. CASE m # n
    BY <1>1, <1>2, <1>6, <2>1, <2>2 DEF Closing, MovedBy
  <2>3. CASE m = n
    BY <1>1, <1>2, <1>6, <2>1, <2>3 DEF Closing, MovedBy, Waits
  <2> QED BY <2>2, <2>3
<1>11. ASSUME row = "running", IsLast(x) PROVE Follows(graph, ex, s, f)
  <2>1. Follows(graph, ex0, s0, f0)
    BY <1>1, <1>11 DEF WorkflowInv, FollowInv
  <2>2. /\ \A m \in 1..graph.size : f0[m] \in Waits =>
              s0[m] = "running" /\ Verdict(graph, ex.decided, m) = "ready"
        /\ \A m \in ex0.done : \/ ex0.failure
                               \/ s0[m] = "completed" /\ Verdict(graph, ex.decided, m) = "ready"
                               \/ s0[m] = "none" /\ Verdict(graph, ex.decided, m) = "skipped"
    BY <1>1, <1>3, <1>7, <1>8, <2>1, FollowsStable
  <2>3. s0[n] = "running" /\ Verdict(graph, ex.decided, n) = "ready"
    BY <1>1, <2>2
  <2>4. \A m \in 1..graph.size : f[m] \in Waits =>
           s[m] = "running" /\ Verdict(graph, ex.decided, m) = "ready"
    BY <1>2, <1>6, <2>2, <2>3 DEF MovedBy
  <2>5. ASSUME NEW m \in ex.done
        PROVE  \/ ex.failure
               \/ s[m] = "completed" /\ Verdict(graph, ex.decided, m) = "ready"
               \/ s[m] = "none" /\ Verdict(graph, ex.decided, m) = "skipped"
    <3>1. CASE m = n
      BY <1>2, <2>3, <2>5, <3>1 DEF MovedBy
    <3>2. CASE m # n
      <4>1. m \in ex0.done /\ m \in 1..graph.size
        BY <1>2, <2>5, <3>2 DEF Records, MovedBy
      <4> QED BY <1>2, <2>2, <3>2, <4>1 DEF MovedBy
    <3> QED BY <3>1, <3>2
  <2> QED BY <2>4, <2>5 DEF Follows
<1>12. ASSUME row = "completed", ~overtaken, IsLast(x) PROVE FALSE
  <2>1. Followed(graph, ex0, s0)
    BY <1>1, <1>12 DEF WorkflowInv, FollowInv
  <2> QED BY <1>4, <2>1 DEF Followed
<1>13. \A m \in 1..graph.size : s[m] = "running" => sessions[x][m] = "running" \/ row = "running"
  <2> TAKE m \in 1..graph.size
  <2> QED BY <1>1, <1>2 DEF MovedBy
<1>14. execs[x].stage # "none" /\ ex.stage # "none" /\ ex.stage = execs[x].stage
  BY <1>1, <1>2, <1>4 DEF MovedBy
<1> QED BY <1>6, <1>9, <1>10, <1>11, <1>12, <1>13, <1>14, ExecutionStep

\* What closing the session of a node leaves of its execution.
LEMMA SettledNode ==
    ASSUME WorkflowInv, NEW x \in Executions, NEW n \in 1..graph.size,
           NEW status \in SessionStatuses \ {"running"}, NEW r \in Flying,
           Settle(x, n, r, status)
    PROVE  \E s \in [1..graph.size -> SessionStatuses] :
              /\ sessions' = [sessions EXCEPT ![x] = s]
              /\ flight' = [flight EXCEPT ![x][n] = r]
              /\ \A m \in 1..graph.size : m # n => s[m] = sessions[x][m]
              /\ s[n] = IF sessions[x][n] = "running" THEN status ELSE sessions[x][n]
<1>1. PICK s0 \in [1..graph.size -> SessionStatuses] : s0 = sessions[x]
  BY DEF WorkflowInv, WorkflowTypes
<1>2. PICK s : s = [m \in 1..graph.size |->
                       IF m \in {n} /\ s0[m] = "running" THEN status ELSE s0[m]]
  OBVIOUS
<1>3. s \in [1..graph.size -> SessionStatuses]
  BY <1>2
<1>4. sessions' = [sessions EXCEPT ![x] = s] /\ flight' = [flight EXCEPT ![x][n] = r]
  BY <1>1, <1>2 DEF Settle, Close, Nodes
<1> QED BY <1>1, <1>2, <1>3, <1>4

\* A node only moves on, or its continuation ends.
LEMMA FlightStep ==
    ASSUME WorkflowInv, NEW x \in Executions, NEW n \in 1..graph.size, flight[x][n] \in Waits,
           NEW r \in Waits \union {"threw", "canceled"}, r = "canceled" => IsCanceled,
           flight' = [flight EXCEPT ![x][n] = r],
           UNCHANGED <<instance, row, canceledIds, overtaken, execs, sessions>>
    PROVE  WorkflowInv'
<1>1. PICK ex \in Records(graph), s \in [1..graph.size -> SessionStatuses],
           f \in [1..graph.size -> Flying] :
              /\ ex = execs[x] /\ s = sessions[x] /\ f = flight[x]
              /\ ExecOK(graph, ex, s, f)
  BY PartsOfExecution
<1>2. execs' = [execs EXCEPT ![x] = ex] /\ sessions' = [sessions EXCEPT ![x] = s]
  BY <1>1 DEF WorkflowInv, WorkflowTypes
<1>3. r \in Flying
  BY DEF Flying, Results, Fatal
<1>4. s[n] = "running" => r \in Waits \union {"threw"}
  BY <1>1 DEF WorkflowInv, StopInv, IsCanceled
<1>5. MovedBy(graph, n, execs[x], sessions[x], ex, s, r)
  BY <1>1, <1>4 DEF ExecOK, MovedBy
<1> QED BY <1>2, <1>3, <1>5, NodeStep

\* The continuation ends without a word on the edges.
LEMMA SettleStep ==
    ASSUME WorkflowInv, NEW x \in Executions, NEW n \in 1..graph.size, flight[x][n] \in Waits,
           NEW status \in SessionStatuses \ {"running"}, NEW r \in Results,
           Settle(x, n, r, status),
           UNCHANGED <<instance, row, canceledIds, overtaken, execs>>
    PROVE  WorkflowInv'
<1>1. PICK ex \in Records(graph), s0 \in [1..graph.size -> SessionStatuses],
           f \in [1..graph.size -> Flying] :
              /\ ex = execs[x] /\ s0 = sessions[x] /\ f = flight[x]
              /\ ExecOK(graph, ex, s0, f)
  BY PartsOfExecution
<1>2. r \in Flying /\ r \notin Waits
  BY DEF Flying, Results, Fatal, Waits
<1>3. PICK s \in [1..graph.size -> SessionStatuses] :
              /\ sessions' = [sessions EXCEPT ![x] = s]
              /\ flight' = [flight EXCEPT ![x][n] = r]
              /\ \A m \in 1..graph.size : m # n => s[m] = sessions[x][m]
              /\ s[n] = IF sessions[x][n] = "running" THEN status ELSE sessions[x][n]
  BY <1>2, SettledNode
<1>4. execs' = [execs EXCEPT ![x] = ex]
  BY <1>1 DEF WorkflowInv, WorkflowTypes
<1>5. MovedBy(graph, n, execs[x], sessions[x], ex, s, r)
  BY <1>1, <1>2, <1>3 DEF ExecOK, MovedBy
<1> QED BY <1>2, <1>3, <1>4, <1>5, NodeStep

\* The decisions that the end of a node makes.
LEMMA DecidedFacts ==
    ASSUME NEW x \in Executions, NEW n, NEW outcome, NEW d \in Decided(x, n, outcome)
    PROVE  /\ d \in [graph.edges -> Decisions]
           /\ \A e \in graph.edges : \/ d[e] = execs[x].decided[e]
                                     \/ /\ e[1] = n /\ execs[x].decided[e] # "absent"
                                        /\ d[e] \in {"taken", "not_taken"}
<1>1. \A e \in graph.edges : Route(e, outcome) \subseteq {"taken", "not_taken"}
  BY DEF Route
<1> QED BY <1>1 DEF Decided

\* What the end of node n makes of its execution.
EndedNode(g, n, c, ex, status) ==
    /\ ex.stage = c.stage /\ ex.active = c.active /\ ex.begun = c.begun
    /\ ex.done = c.done \union {n}
    /\ c.failure => ex.failure
    /\ status = "failed" => ex.failure
    /\ \A e \in g.edges : \/ ex.decided[e] = c.decided[e]
                          \/ /\ e[1] = n /\ c.decided[e] # "absent"
                             /\ ex.decided[e] \in {"taken", "not_taken"}

\* A node ends, and decides the edges out of it or has nothing to decide.
LEMMA EndStep ==
    ASSUME WorkflowInv, NEW x \in Executions, NEW n \in 1..graph.size, flight[x][n] \in Waits,
           NEW status \in {"completed", "failed"}, NEW r \in Results, Settle(x, n, r, status),
           NEW ex \in Records(graph), EndedNode(graph, n, execs[x], ex, status),
           execs' = [execs EXCEPT ![x] = ex],
           UNCHANGED <<instance, row, canceledIds, overtaken>>
    PROVE  WorkflowInv'
<1>1. r \in Flying /\ r \notin Waits
  BY DEF Flying, Results, Fatal, Waits
<1>2. status \in SessionStatuses \ {"running"}
  BY DEF SessionStatuses
<1>3. PICK s \in [1..graph.size -> SessionStatuses] :
              /\ sessions' = [sessions EXCEPT ![x] = s]
              /\ flight' = [flight EXCEPT ![x][n] = r]
              /\ \A m \in 1..graph.size : m # n => s[m] = sessions[x][m]
              /\ s[n] = IF sessions[x][n] = "running" THEN status ELSE sessions[x][n]
  BY <1>1, <1>2, SettledNode
<1>4. s[n] # "running" /\ (sessions[x][n] = "running" => ex.failure \/ s[n] = "completed")
  BY <1>3 DEF EndedNode
<1>5. MovedBy(graph, n, execs[x], sessions[x], ex, s, r)
  BY <1>1, <1>3, <1>4 DEF EndedNode, MovedBy
<1> QED BY <1>1, <1>3, <1>5, NodeStep

LEMMA NodeSucceedsKeeps ==
    ASSUME WorkflowInv, NEW x \in Executions, NEW n \in 1..graph.size, flight[x][n] \in Waits,
           NodeSucceeds(x, n), UNCHANGED <<instance, row, canceledIds, overtaken>>
    PROVE  WorkflowInv'
<1>1. CASE Recordable(x, n)
  <2>1. PICK d \in Decided(x, n, "success") :
           /\ Settle(x, n, "ok", "completed")
           /\ execs' = [execs EXCEPT ![x].done = @ \union {n}, ![x].decided = d]
    BY <1>1 DEF NodeSucceeds
  <2>2. PICK ex0 \in Records(graph) : ex0 = execs[x]
    BY PartsOfExecution
  <2>3. PICK ex : ex = [ex0 EXCEPT !.done = ex0.done \union {n}, !.decided = d]
    OBVIOUS
  <2>4. execs' = [execs EXCEPT ![x] = ex]
    BY <2>1, <2>2, <2>3 DEF WorkflowInv, WorkflowTypes
  <2>5. ex \in Records(graph)
    <3>1. d \in [graph.edges -> Decisions] /\ ex0.done \union {n} \in SUBSET (1..graph.size)
      BY DecidedFacts DEF Records
    <3> QED BY <2>3, <3>1 DEF Records
  <2>6. EndedNode(graph, n, execs[x], ex, "completed")
    BY <2>2, <2>3, DecidedFacts DEF EndedNode, Records
  <2>7. "ok" \in Results
    BY DEF Results
  <2> QED BY <2>1, <2>4, <2>5, <2>6, <2>7, EndStep
<1>2. CASE ~Recordable(x, n)
  BY <1>2, FlightStep DEF NodeSucceeds
<1> QED BY <1>1, <1>2

LEMMA MessageIsBuiltKeeps ==
    ASSUME WorkflowInv, NEW x \in Executions, NEW n \in 1..graph.size,
           MessageIsBuilt(x, n), UNCHANGED <<instance, row, canceledIds, overtaken>>
    PROVE  WorkflowInv'
<1>1. PICK r \in Waits \union {"threw", "canceled"} :
         r # "canceled" /\ flight' = [flight EXCEPT ![x][n] = r]
  BY DEF MessageIsBuilt, Waits
<1>2. flight[x][n] \in Waits /\ UNCHANGED <<execs, sessions>>
  BY DEF MessageIsBuilt, Waits
<1> QED BY <1>1, <1>2, FlightStep

LEMMA ChatRunFailsKeeps ==
    ASSUME WorkflowInv, NEW x \in Executions, NEW n \in 1..graph.size,
           ChatRunFails(x, n), UNCHANGED <<instance, row, canceledIds, overtaken>>
    PROVE  WorkflowInv'
<1>1. flight[x][n] \in Waits /\ {"canceled", "handled", "threw"} \subseteq Results
      /\ {"canceled", "failed"} \subseteq SessionStatuses \ {"running"}
  BY DEF ChatRunFails, Waits, Results, Fatal, SessionStatuses
<1>2. CASE IsCanceled
  <2>1. Settle(x, n, "canceled", "canceled") /\ UNCHANGED execs
    BY <1>2 DEF ChatRunFails
  <2> QED BY <1>1, <2>1, SettleStep
<1>3. CASE ~IsCanceled
  <2>1. PICK r \in Results : r = IF Recordable(x, n) THEN "handled" ELSE "threw"
    BY <1>1
  <2>2. PICK decided \in Decided(x, n, "failure") :
           /\ Settle(x, n, IF Recordable(x, n) THEN "handled" ELSE "threw", "failed")
           /\ execs' = [execs EXCEPT ![x].done = @ \union {n}, ![x].failure = TRUE,
                                     ![x].decided = IF Recordable(x, n) THEN decided ELSE @]
    BY <1>3 DEF ChatRunFails
  <2>3. PICK ex0 \in Records(graph) : ex0 = execs[x]
    BY PartsOfExecution
  <2>4. PICK d : d = IF Recordable(x, n) THEN decided ELSE ex0.decided
    OBVIOUS
  <2>5. PICK ex : ex = [ex0 EXCEPT !.done = ex0.done \union {n}, !.failure = TRUE, !.decided = d]
    OBVIOUS
  <2>6. execs' = [execs EXCEPT ![x] = ex]
    BY <2>2, <2>3, <2>4, <2>5 DEF WorkflowInv, WorkflowTypes
  <2>7. ex \in Records(graph)
    <3>1. d \in [graph.edges -> Decisions] /\ ex0.done \union {n} \in SUBSET (1..graph.size)
      BY <2>4, DecidedFacts DEF Records
    <3> QED BY <2>5, <3>1 DEF Records
  <2>8. EndedNode(graph, n, execs[x], ex, "failed")
    BY <2>3, <2>4, <2>5, DecidedFacts DEF EndedNode, Records
  <2>9. Settle(x, n, r, "failed")
    BY <2>1, <2>2
  <2> QED BY <1>1, <2>6, <2>7, <2>8, <2>9, EndStep
<1> QED BY <1>2, <1>3

LEMMA DeadlineIsFoundKeeps ==
    ASSUME WorkflowInv, NEW x \in Executions, NEW n \in 1..graph.size,
           DeadlineIsFound(x, n), UNCHANGED <<instance, row, canceledIds, overtaken>>
    PROVE  WorkflowInv'
<1>1. /\ flight[x][n] \in Waits /\ "deadline" \in Results
      /\ "failed" \in SessionStatuses \ {"running"}
      /\ Settle(x, n, "deadline", "failed") /\ UNCHANGED execs
  BY DEF DeadlineIsFound, Waits, Results, Fatal, SessionStatuses
<1> QED BY <1>1, SettleStep

LEMMA ChatRunSucceedsKeeps ==
    ASSUME WorkflowInv, NEW x \in Executions, NEW n \in 1..graph.size,
           ChatRunSucceeds(x, n), UNCHANGED <<instance, row, canceledIds, overtaken>>
    PROVE  WorkflowInv'
<1>1. flight[x][n] \in Waits /\ "approving" \in Waits
  BY DEF ChatRunSucceeds, Waits
<1>2. CASE IsCanceled
  BY <1>1, <1>2, FlightStep DEF ChatRunSucceeds
<1>3. CASE ~IsCanceled /\ n \in graph.approval
  BY <1>1, <1>3, FlightStep DEF ChatRunSucceeds
<1>4. CASE ~IsCanceled /\ n \notin graph.approval
  BY <1>1, <1>4, NodeSucceedsKeeps DEF ChatRunSucceeds
<1> QED BY <1>2, <1>3, <1>4

LEMMA ApproveKeeps ==
    ASSUME WorkflowInv, NEW x \in Executions, NEW n \in 1..graph.size,
           Approve(x, n), UNCHANGED <<instance, row, canceledIds, overtaken>>
    PROVE  WorkflowInv'
<1>1. flight[x][n] \in Waits
  BY DEF Approve, Waits
<1>2. CASE NodeSucceeds(x, n)
  BY <1>1, <1>2, NodeSucceedsKeeps
<1>3. CASE Settle(x, n, "rejected", "approval_rejected") /\ UNCHANGED execs
  <2>1. "rejected" \in Results /\ "approval_rejected" \in SessionStatuses \ {"running"}
    BY DEF Results, Fatal, SessionStatuses
  <2> QED BY <1>1, <1>3, <2>1, SettleStep
<1> QED BY <1>2, <1>3 DEF Approve

LEMMA NodeEventKeeps ==
    ASSUME WorkflowInv, NEW x \in Executions, NEW n \in Nodes, NodeEvent(x, n)
    PROVE  WorkflowInv'
<1>1. n \in 1..graph.size /\ UNCHANGED <<instance, row, canceledIds, overtaken>>
  BY DEF NodeEvent, Nodes
<1> QED BY <1>1, MessageIsBuiltKeeps, ChatRunFailsKeeps, DeadlineIsFoundKeeps,
           ChatRunSucceedsKeeps, ApproveKeeps DEF NodeEvent, Answer

-----------------------------------------------------------------------------
(* The scheduler.                                                            *)

\* The end of an execution.
LEMMA OverStep ==
    ASSUME WorkflowInv, NEW x \in Executions, NEW ex \in Records(graph),
           NEW s \in [1..graph.size -> SessionStatuses], NEW f \in [1..graph.size -> Flying],
           NEW status \in {"completed", "failed"},
           execs[x].stage \in Going, ex.stage \in Going, ExecOK(graph, ex, s, f),
           Over(x, ex), row' = IF row = "running" THEN status ELSE row,
           sessions' = [sessions EXCEPT ![x] = s],
           flight' = [flight EXCEPT ![x] = f],
           UNCHANGED <<instance, canceledIds, overtaken>>,
           \A n \in 1..graph.size : s[n] = "running" => sessions[x][n] = "running",
           ~overtaken => \A n \in 1..graph.size : s[n] = "running" => f[n] = "threw",
           status = "completed" /\ row = "running" /\ IsLast(x) => Followed(graph, ex, s)
    PROVE  WorkflowInv'
<1>1. PICK over : over = [ex EXCEPT !.stage = "done"]
  OBVIOUS
<1>2. /\ over \in Records(graph) /\ over.stage = "done" /\ over.active = ex.active
      /\ over.begun = ex.begun /\ over.done = ex.done /\ over.decided = ex.decided
      /\ over.failure = ex.failure
  BY <1>1 DEF Records, ExecStages
<1>3. execs' = [execs EXCEPT ![x] = over]
  BY <1>1 DEF Over
<1>4. ExecOK(graph, over, s, f)
  BY <1>2 DEF ExecOK, Going
<1>5. row' = row \/ (row = "running" /\ row' \in {"completed", "failed"})
  OBVIOUS
<1>6. row' # "running" /\ "none" \notin Going /\ "done" \notin Going
  BY DEF Going
<1>7. ~overtaken => \A n \in 1..graph.size : Closing(over, s, f, n, row')
  BY DEF Closing
<1>8. ASSUME row' = "completed", ~overtaken, IsLast(x) PROVE Followed(graph, over, s)
  <2>1. row = "running" /\ status = "completed"
    BY <1>8 DEF WorkflowInv, SoloInv
  <2> QED BY <1>2, <1>8, <2>1 DEF Followed
<1> QED BY <1>2, <1>3, <1>4, <1>5, <1>6, <1>7, <1>8, ExecutionStep

LEMMA EndingIsFailed ==
    ASSUME WorkflowInv
    PROVE  row = "running" => Ending = "failed"
BY DEF WorkflowInv, StopInv, Ending, IsCanceled

\* An error in the middle of an execution closes its sessions.
LEMMA CatchErrorStep ==
    ASSUME WorkflowInv, NEW x \in Executions, NEW ex \in Records(graph),
           NEW f \in [1..graph.size -> Flying],
           execs[x].stage \in Going, ex.stage \in Going,
           ExecOK(graph, ex, sessions[x], f), CatchError(x, ex),
           flight' = [flight EXCEPT ![x] = f],
           UNCHANGED <<instance, canceledIds, overtaken>>
    PROVE  WorkflowInv'
<1>1. PICK s0 \in [1..graph.size -> SessionStatuses] : s0 = sessions[x]
  BY PartsOfExecution
<1>2. Ending \in SessionStatuses \ {"running"}
  BY DEF Ending, SessionStatuses
<1>3. PICK s : s = [n \in 1..graph.size |->
                       IF n \in Nodes \ ex.done /\ s0[n] = "running" THEN Ending ELSE s0[n]]
  OBVIOUS
<1>4. s \in [1..graph.size -> SessionStatuses] /\ sessions' = [sessions EXCEPT ![x] = s]
  BY <1>1, <1>2, <1>3 DEF CatchError, Close, Nodes
<1>5. \A n \in 1..graph.size : s[n] # "running"
  BY <1>1, <1>2, <1>3 DEF ExecOK, Nodes
<1>6. \A n \in 1..graph.size : s[n] # "none" => s0[n] # "none"
  BY <1>3
<1>7. ExecOK(graph, ex, s, f)
  BY <1>1, <1>5, <1>6 DEF ExecOK, Going
<1>8. row' = IF row = "running" THEN "failed" ELSE row
  BY EndingIsFailed DEF CatchError, SetRow
<1>9. Over(x, ex)
  BY DEF CatchError
<1> QED BY <1>4, <1>5, <1>7, <1>8, <1>9, OverStep

\* The end of an execution leaves its sessions as they are.
LEMMA EndIsClosed ==
    ASSUME WorkflowInv, NEW x \in Executions, NEW ex \in Records(graph),
           execs[x].stage \in Going, ex.stage \in Going,
           ExecOK(graph, ex, sessions[x], flight[x]),
           NEW status \in {"completed", "failed"},
           Over(x, ex), row' = IF row = "running" THEN status ELSE row,
           UNCHANGED <<sessions, flight, instance, canceledIds, overtaken>>,
           ~overtaken => \A n \in 1..graph.size :
              sessions[x][n] = "running" => flight[x][n] = "threw",
           status = "completed" /\ row = "running" /\ IsLast(x) => Followed(graph, ex, sessions[x])
    PROVE  WorkflowInv'
<1>1. PICK s \in [1..graph.size -> SessionStatuses], f \in [1..graph.size -> Flying] :
              s = sessions[x] /\ f = flight[x]
  BY PartsOfExecution
<1>2. sessions' = [sessions EXCEPT ![x] = s] /\ flight' = [flight EXCEPT ![x] = f]
  BY <1>1 DEF WorkflowInv, WorkflowTypes
<1>3. \A n \in 1..graph.size : s[n] = "running" => sessions[x][n] = "running"
  BY <1>1
<1>4. ~overtaken => \A n \in 1..graph.size : s[n] = "running" => f[n] = "threw"
  BY <1>1
<1> QED BY <1>1, <1>2, <1>3, <1>4, OverStep

LEMMA DrainedKeeps ==
    ASSUME WorkflowInv, NEW x \in Executions, Drained(x),
           UNCHANGED <<instance, canceledIds, overtaken>>
    PROVE  WorkflowInv'
<1>1. PICK ex \in Records(graph), s \in [1..graph.size -> SessionStatuses],
           f \in [1..graph.size -> Flying] :
              /\ ex = execs[x] /\ s = sessions[x] /\ f = flight[x]
              /\ ExecOK(graph, ex, s, f)
  BY PartsOfExecution
<1>2. ex.stage \in Going /\ Over(x, ex) /\ UNCHANGED <<sessions, flight>>
  BY <1>1 DEF Drained, FailRun, Going
<1>3. row' = IF row = "running" THEN "failed" ELSE row
  BY EndingIsFailed DEF Drained, FailRun, SetRow
<1>4. \A n \in 1..graph.size : f[n] \notin Waits
  BY <1>1 DEF Drained, InFlight, Settled, Nodes, Waits, Results, Fatal
<1>5. ~overtaken => \A n \in 1..graph.size : s[n] = "running" => f[n] = "threw"
  BY <1>1, <1>4 DEF WorkflowInv, SoloInv, Closing
<1> QED BY <1>1, <1>2, <1>3, <1>5, EndIsClosed

LEMMA RaceKeeps ==
    ASSUME WorkflowInv, NEW x \in Executions, NEW n \in Nodes, Race(x, n),
           UNCHANGED <<instance, canceledIds, overtaken>>
    PROVE  WorkflowInv'
<1>1. PICK ex \in Records(graph), s \in [1..graph.size -> SessionStatuses],
           f0 \in [1..graph.size -> Flying] :
              /\ ex = execs[x] /\ s = sessions[x] /\ f0 = flight[x]
              /\ ExecOK(graph, ex, s, f0)
  BY PartsOfExecution
<1>2. ex.stage = "racing" /\ n \in 1..graph.size /\ f0[n] \in Results /\ "gone" \in Flying
  BY <1>1 DEF Race, Settled, Nodes, Flying
<1>3. PICK f \in [1..graph.size -> Flying] : f = [f0 EXCEPT ![n] = "gone"]
  BY <1>2
<1>4. f[n] = "gone" /\ \A m \in 1..graph.size : m # n => f[m] = f0[m]
  BY <1>2, <1>3
<1>5. flight' = [flight EXCEPT ![x] = f]
  BY <1>1, <1>3 DEF Race
<1>6. "gone" \notin Waits
  BY DEF Waits
<1>7. \A m \in 1..graph.size : f[m] \in Waits => f0[m] \in Waits
  BY <1>4, <1>6
<1>8. ExecOK(graph, ex, s, f)
  BY <1>1, <1>2, <1>7 DEF ExecOK
<1>9. CASE flight[x][n] = "threw"
  <2>1. CatchError(x, ex) /\ ex.stage \in Going
    BY <1>1, <1>2, <1>9 DEF Race, Going
  <2> QED BY <1>1, <1>5, <1>8, <2>1, CatchErrorStep
<1>10. CASE flight[x][n] # "threw"
  <2>1. PICK stage \in {"draining", "looping"} :
           execs' = [execs EXCEPT ![x].stage = stage]
    BY <1>10 DEF Race
  <2>2. PICK ex1 : ex1 = [ex EXCEPT !.stage = stage]
    OBVIOUS
  <2>3. /\ ex1 \in Records(graph) /\ ex1.stage = stage /\ ex1.active = ex.active
        /\ ex1.begun = ex.begun /\ ex1.done = ex.done /\ ex1.decided = ex.decided
        /\ ex1.failure = ex.failure
    BY <2>2 DEF Records, ExecStages
  <2>4. execs' = [execs EXCEPT ![x] = ex1]
    BY <1>1, <2>1, <2>2 DEF WorkflowInv, WorkflowTypes
  <2>5. sessions' = [sessions EXCEPT ![x] = s] /\ row' = row
    BY <1>1, <1>10 DEF Race, WorkflowInv, WorkflowTypes
  <2>6. ExecOK(graph, ex1, s, f)
    BY <1>8, <2>3 DEF ExecOK
  <2>7. stage \in Going /\ "none" \notin Going /\ "racing" \in Going
    BY DEF Going
  <2>8. ASSUME ~overtaken, NEW m \in 1..graph.size PROVE Closing(ex1, s, f, m, row')
    <3>1. Closing(ex, s, f0, m, row)
      BY <1>1, <2>8 DEF WorkflowInv, SoloInv
    <3>2. Results \cap Waits = {}
      BY DEF Results, Fatal, Waits
    <3> QED BY <1>1, <1>2, <1>4, <1>10, <2>3, <2>5, <2>7, <3>1, <3>2 DEF Closing
  <2>9. ASSUME row' = "running", IsLast(x) PROVE Follows(graph, ex1, s, f)
    <3>1. Follows(graph, ex, s, f0)
      BY <1>1, <2>5, <2>9 DEF WorkflowInv, FollowInv
    <3> QED BY <1>7, <2>3, <3>1 DEF Follows
  <2>10. ~(row' = "completed" /\ ~overtaken /\ IsLast(x))
    BY <1>1, <1>2, <2>5, <2>7 DEF WorkflowInv, SoloInv
  <2>11. /\ execs[x].stage # "none" /\ ex1.stage # "none"
         /\ execs[x].stage \in Going /\ ex1.stage \in Going
    BY <1>1, <1>2, <2>3, <2>7
  <2>12. \A m \in 1..graph.size : s[m] = "running" => sessions[x][m] = "running"
    BY <1>1
  <2> QED BY <1>5, <2>3, <2>4, <2>5, <2>6, <2>8, <2>9, <2>10, <2>11, <2>12, ExecutionStep
<1> QED BY <1>9, <1>10

\* The ready nodes are started, or report the deadline or that the run has ended.
LEMMA StartNodesStep ==
    ASSUME WorkflowInv, NEW x \in Executions, NEW ex \in Records(graph), NEW sk \in Records(graph),
           ex = execs[x], ex.stage = "looping", sk.stage = "looping",
           ExecOK(graph, sk, sessions[x], flight[x]),
           row = "running" /\ IsLast(x) => Follows(graph, sk, sessions[x], flight[x]),
           NEW ready, ready \subseteq sk.active \ sk.begun,
           \A n \in ready : Verdict(graph, sk.decided, n) = "ready",
           StartNodes(x, sk, ready),
           UNCHANGED <<instance, canceledIds, overtaken>>
    PROVE  WorkflowInv'
<1>1. PICK s0 \in [1..graph.size -> SessionStatuses], f0 \in [1..graph.size -> Flying] :
              s0 = sessions[x] /\ f0 = flight[x]
  BY PartsOfExecution
<1>2. PICK started \in Flying : started = IF sk.deadline = "passed" THEN "deadline"
                                          ELSE IF row # "running" THEN "threw" ELSE "building"
  BY DEF Flying, Waits, Results, Fatal
<1>3. ready \subseteq 1..graph.size /\ sk.begun \in SUBSET (1..graph.size)
      /\ sk.active \in SUBSET (1..graph.size) /\ sk.done \in SUBSET (1..graph.size)
  BY DEF Records
<1>4. PICK begun \in SUBSET (1..graph.size) :
         begun = IF started = "deadline" THEN sk.begun ELSE sk.begun \union ready
  BY <1>3
<1>5. PICK ex1 : ex1 = [sk EXCEPT !.stage = "racing", !.begun = begun]
  OBVIOUS
<1>6. /\ ex1.stage = "racing" /\ ex1.active = sk.active /\ ex1.begun = begun
      /\ ex1.done = sk.done /\ ex1.decided = sk.decided /\ ex1.failure = sk.failure
      /\ ex1 \in Records(graph)
  BY <1>5 DEF Records, ExecStages
<1>7. PICK f : f = [n \in 1..graph.size |-> IF n \in ready THEN started ELSE f0[n]]
  OBVIOUS
<1>8. PICK s : s = [n \in 1..graph.size |->
                       IF n \in ready /\ started = "building" THEN "running" ELSE s0[n]]
  OBVIOUS
<1>9. f \in [1..graph.size -> Flying] /\ s \in [1..graph.size -> SessionStatuses]
  BY <1>7, <1>8 DEF SessionStatuses
<1>10. /\ execs' = [execs EXCEPT ![x] = ex1]
       /\ flight' = [flight EXCEPT ![x] = f]
       /\ sessions' = [sessions EXCEPT ![x] = s]
       /\ row' = row
  <2>1. started = IF sk.deadline = "passed" THEN "deadline"
                  ELSE IF row # "running" THEN "threw" ELSE "building"
    BY <1>2
  <2>2. execs' = [execs EXCEPT ![x] =
                     [sk EXCEPT !.stage = "racing",
                                !.begun = IF started = "deadline" THEN sk.begun
                                          ELSE sk.begun \union ready]]
    BY <2>1 DEF StartNodes, Records
  <2>3. flight' = [flight EXCEPT ![x] = [n \in Nodes |->
                      IF n \in ready THEN started ELSE flight[x][n]]]
    BY <2>1 DEF StartNodes
  <2>4. sessions' = [sessions EXCEPT ![x] = [n \in Nodes |->
                        IF n \in ready /\ started = "building" THEN "running"
                        ELSE sessions[x][n]]]
    BY <2>1 DEF StartNodes
  <2>5. row' = row
    BY DEF StartNodes
  <2> QED BY <1>1, <1>4, <1>5, <1>7, <1>8, <2>2, <2>3, <2>4, <2>5 DEF Nodes
<1>11. started \in {"deadline", "threw", "building"} /\ (started = "building" => row = "running")
  BY <1>2
<1>12. {"looping", "racing"} \subseteq Going /\ "none" \notin Going
       /\ Waits \cap {"deadline", "threw"} = {} /\ "building" \in Waits
  BY DEF Going, Waits
<1>13. ASSUME NEW n \in 1..graph.size
       PROVE  /\ f[n] = IF n \in ready THEN started ELSE f0[n]
              /\ s[n] = IF n \in ready /\ started = "building" THEN "running" ELSE s0[n]
              /\ n \in ready => s0[n] = "none" /\ n \notin sk.done /\ n \notin sk.begun
  BY <1>1, <1>7, <1>8 DEF ExecOK
<1>14. ExecOK(graph, ex1, s, f)
  <2>1. ex1.begun \subseteq ex1.active /\ ex1.done \subseteq ex1.begun
    BY <1>4, <1>6 DEF ExecOK
  <2>2. ASSUME NEW n \in 1..graph.size
        PROVE  /\ f[n] \in Waits => n \in ex1.begun \ ex1.done
               /\ s[n] # "none" => n \in ex1.begun
               /\ n \in ex1.done => s[n] # "running"
    <3>1. CASE n \in ready
      <4>1. n \notin sk.done /\ s0[n] = "none" /\ f[n] = started
        BY <1>13, <3>1
      <4>2. started # "deadline" => n \in begun
        BY <1>4, <3>1
      <4>3. started = "deadline" => s[n] = "none"
        BY <1>13, <4>1
      <4>4. started = "threw" => s[n] = "none"
        BY <1>13, <4>1
      <4> QED BY <1>6, <1>11, <1>12, <4>1, <4>2, <4>3, <4>4
    <3>2. CASE n \notin ready
      <4>1. f[n] = f0[n] /\ s[n] = s0[n]
        BY <1>13, <3>2
      <4>2. sk.begun \subseteq begun
        BY <1>4
      <4> QED BY <1>1, <1>6, <4>1, <4>2 DEF ExecOK
    <3> QED BY <3>1, <3>2
  <2>3. \A e \in graph.edges :
           ex1.decided[e] \in {"taken", "not_taken"} /\ e[1] \in ex1.active => e[1] \in ex1.done
    BY <1>6 DEF ExecOK
  <2> QED BY <1>6, <2>1, <2>2, <2>3 DEF ExecOK
<1>15. ASSUME ~overtaken, NEW n \in 1..graph.size PROVE Closing(ex1, s, f, n, row)
  <2>1. Closing(ex, s0, f0, n, row)
    BY <1>1, <1>15 DEF WorkflowInv, SoloInv
  <2>2. CASE n \in ready
    BY <1>6, <1>11, <1>12, <1>13, <2>2 DEF Closing
  <2>3. CASE n \notin ready
    BY <1>6, <1>12, <1>13, <2>1, <2>3 DEF Closing
  <2> QED BY <2>2, <2>3
<1>16. ASSUME row = "running", IsLast(x) PROVE Follows(graph, ex1, s, f)
  <2>1. Follows(graph, sk, s0, f0)
    BY <1>1, <1>16
  <2>2. ASSUME NEW n \in 1..graph.size, f[n] \in Waits
        PROVE  s[n] = "running" /\ Verdict(graph, ex1.decided, n) = "ready"
    <3>1. CASE n \in ready
      BY <1>6, <1>11, <1>12, <1>13, <2>2, <3>1
    <3>2. CASE n \notin ready
      BY <1>6, <1>13, <2>1, <2>2, <3>2 DEF Follows
    <3> QED BY <3>1, <3>2
  <2>3. ASSUME NEW n \in ex1.done
        PROVE  \/ ex1.failure
               \/ s[n] = "completed" /\ Verdict(graph, ex1.decided, n) = "ready"
               \/ s[n] = "none" /\ Verdict(graph, ex1.decided, n) = "skipped"
    <3>1. n \in 1..graph.size /\ n \in sk.done
      BY <1>3, <1>6, <2>3
    <3>2. s[n] = s0[n]
      BY <1>13, <3>1
    <3> QED BY <1>6, <2>1, <3>1, <3>2 DEF Follows
  <2> QED BY <2>2, <2>3 DEF Follows
<1>17. ~(row = "completed" /\ ~overtaken /\ IsLast(x))
  BY <1>12 DEF WorkflowInv, SoloInv
<1>18. /\ execs[x].stage # "none" /\ ex1.stage # "none"
       /\ execs[x].stage \in Going /\ ex1.stage \in Going
  BY <1>6, <1>12
<1>19. \A n \in 1..graph.size : s[n] = "running" => sessions[x][n] = "running" \/ row = "running"
  BY <1>1, <1>11, <1>13
<1> QED BY <1>6, <1>9, <1>10, <1>14, <1>15, <1>16, <1>17, <1>18, <1>19, ExecutionStep

LEMMA IterateKeeps ==
    ASSUME WorkflowInv, NEW x \in Executions, execs[x].stage = "looping", Iterate(x),
           UNCHANGED <<instance, canceledIds, overtaken>>
    PROVE  WorkflowInv'
<1>1. PICK ex \in Records(graph), s \in [1..graph.size -> SessionStatuses],
           f \in [1..graph.size -> Flying] :
              /\ ex = execs[x] /\ s = sessions[x] /\ f = flight[x]
              /\ ExecOK(graph, ex, s, f)
  BY PartsOfExecution
<1>2. IsGraph(graph) /\ Nodes = 1..graph.size
  BY GraphOfRun DEF WorkflowInv
<1>3. PICK sk : sk = Skip(ex)
  OBVIOUS
<1>4. /\ sk \in Records(graph) /\ sk.stage = "looping" /\ sk.active = ex.active
      /\ sk.failure = ex.failure
      /\ ExecOK(graph, sk, s, f)
      /\ Refines(graph, sk.decided, ex.decided)
      /\ \A n \in sk.done \ ex.done : s[n] = "none" /\ Verdict(graph, sk.decided, n) = "skipped"
  BY <1>1, <1>2, <1>3, SkipFacts
<1>5. ASSUME row = "running", IsLast(x) PROVE Follows(graph, sk, s, f)
  <2>1. Follows(graph, ex, s, f)
    BY <1>1, <1>5 DEF WorkflowInv, FollowInv
  <2>2. sk.decided \in [graph.edges -> Decisions]
    BY <1>4 DEF Records
  <2>3. /\ \A n \in 1..graph.size : f[n] \in Waits =>
              s[n] = "running" /\ Verdict(graph, sk.decided, n) = "ready"
        /\ \A n \in ex.done : \/ ex.failure
                              \/ s[n] = "completed" /\ Verdict(graph, sk.decided, n) = "ready"
                              \/ s[n] = "none" /\ Verdict(graph, sk.decided, n) = "skipped"
    BY <1>1, <1>2, <1>4, <2>1, <2>2, FollowsStable
  <2> QED BY <1>4, <2>3 DEF Follows
<1>6. "looping" \in Going
  BY DEF Going
<1>7. PICK ready : ready = {n \in sk.active \ sk.begun: Joined(sk.decided, n) = "ready"}
  OBVIOUS
<1>8. /\ ready \subseteq sk.active \ sk.begun
      /\ \A n \in ready : Verdict(graph, sk.decided, n) = "ready"
  BY <1>7, VerdictIsJoined
<1>9. \/ CatchError(x, sk) /\ UNCHANGED flight
      \/ sk.done = sk.active /\ sk.failure /\ FailRun(x, sk) /\ UNCHANGED flight
      \/ sk.done = sk.active /\ ~sk.failure /\ Complete(x, sk) /\ UNCHANGED flight
      \/ StartNodes(x, sk, ready)
  BY <1>1, <1>3, <1>7 DEF Iterate
<1>10. CASE CatchError(x, sk) /\ UNCHANGED flight
  <2>1. flight' = [flight EXCEPT ![x] = f]
    BY <1>1, <1>10 DEF WorkflowInv, WorkflowTypes
  <2> QED BY <1>1, <1>4, <1>6, <1>10, <2>1, CatchErrorStep
<1>11. ASSUME sk.done = sk.active, NEW n \in 1..graph.size PROVE s[n] # "running"
  BY <1>4, <1>11 DEF ExecOK
<1>12. CASE sk.done = sk.active /\ sk.failure /\ FailRun(x, sk) /\ UNCHANGED flight
  <2>1. row' = IF row = "running" THEN "failed" ELSE row
    BY <1>12, EndingIsFailed DEF FailRun, SetRow
  <2>2. Over(x, sk) /\ UNCHANGED <<sessions, flight>>
    BY <1>12 DEF FailRun
  <2> QED BY <1>1, <1>4, <1>6, <1>11, <1>12, <2>1, <2>2, EndIsClosed
<1>13. CASE sk.done = sk.active /\ ~sk.failure /\ Complete(x, sk) /\ UNCHANGED flight
  <2>1. row' = IF row = "running" THEN "completed" ELSE row
    BY <1>13 DEF Complete, SetRow
  <2>2. Over(x, sk) /\ UNCHANGED <<sessions, flight>>
    BY <1>13 DEF Complete
  <2>3. ASSUME row = "running", IsLast(x) PROVE Followed(graph, sk, s)
    BY <1>5, <1>13, <2>3 DEF Follows, Followed
  <2> QED BY <1>1, <1>4, <1>6, <1>11, <1>13, <2>1, <2>2, <2>3, EndIsClosed
<1>14. CASE StartNodes(x, sk, ready)
  BY <1>1, <1>4, <1>5, <1>8, <1>14, StartNodesStep
<1> QED BY <1>9, <1>10, <1>12, <1>13, <1>14

LEMMA ScheduleKeeps ==
    ASSUME WorkflowInv, NEW x \in Executions, Schedule(x)
    PROVE  WorkflowInv'
BY IterateKeeps, RaceKeeps, DrainedKeeps DEF Schedule

-----------------------------------------------------------------------------
(* The requests.                                                             *)

LEMMA InitKeeps ==
    ASSUME WorkflowInit
    PROVE  WorkflowInv
<1>1. IsGraph(graph) /\ instance \in Instances
  BY WorkflowAssumption DEF WorkflowInit, graph
<1>2. NoExecution \in Records(graph)
  BY DEF NoExecution, Records, ExecStages, Decisions
<1>3. \A x \in Executions : /\ execs[x] = NoExecution
                            /\ \A n \in 1..graph.size :
                                  sessions[x][n] = "none" /\ flight[x][n] = "none"
  BY DEF WorkflowInit, Nodes
<1>4. WorkflowTypes
  BY <1>1, <1>2 DEF WorkflowInit, WorkflowTypes, RowStatuses, SessionStatuses, Nodes, Flying
<1>5. /\ NoExecution.stage = "none" /\ NoExecution.begun = {} /\ NoExecution.done = {}
      /\ \A e \in graph.edges : NoExecution.decided[e] = "absent"
  BY DEF NoExecution
<1>6. ExecInv
  BY <1>3, <1>5 DEF ExecInv, ExecOK, Waits
<1>7. LaunchInv /\ StopInv /\ FollowInv
  BY <1>3, <1>5 DEF WorkflowInit, LaunchInv, StopInv, FollowInv
<1>8. SoloInv
  BY <1>3, <1>5 DEF SoloInv, Closing, Going
<1> QED BY <1>4, <1>6, <1>7, <1>8 DEF WorkflowInv

LEMMA LaunchStep ==
    ASSUME WorkflowInv, NEW x \in Executions, execs[x].stage = "none",
           \A y \in 1..(x - 1) : execs[y].stage # "none",
           NEW active, active \subseteq Nodes, NEW boundary, NEW deadline \in {"none", "ahead"},
           \A e \in DOMAIN boundary : e[1] \notin active /\ boundary[e] \in {"taken", "not_taken"},
           Launch(x, active, boundary, deadline),
           UNCHANGED <<instance, sessions, flight>>,
           overtaken' = (overtaken \/ \E y \in Executions : Executing(y))
    PROVE  WorkflowInv'
<1> USE DEF WorkflowInv
<1>1. IsGraph(graph) /\ graph' = graph /\ Nodes = 1..graph.size
  BY GraphOfRun DEF graph
<1>2. PICK decided : decided = [e \in graph.edges |->
                         IF e[1] \in active /\ e[2] \in active THEN "pending"
                         ELSE IF e \in DOMAIN boundary THEN boundary[e] ELSE "absent"]
  OBVIOUS
<1>3. decided \in [graph.edges -> Decisions]
  BY <1>2 DEF Decisions
<1>4. PICK ex : ex = [NoExecution EXCEPT !.stage = "looping", !.active = active,
                                         !.deadline = deadline, !.decided = decided]
  OBVIOUS
<1>5. /\ ex.stage = "looping" /\ ex.active = active /\ ex.decided = decided
      /\ ex.begun = {} /\ ex.done = {}
  BY <1>4 DEF NoExecution
<1>6. ex \in Records(graph)
  BY <1>1, <1>3, <1>4 DEF NoExecution, Records, ExecStages
<1>7. execs' = [execs EXCEPT ![x] = ex] /\ row' = "running" /\ canceledIds' = FALSE
  BY <1>2, <1>4 DEF Launch
<1>8. execs'[x] = ex /\ \A y \in Executions : y # x => execs'[y] = execs[y]
  BY <1>7 DEF WorkflowTypes
<1>9. /\ \A n \in 1..graph.size : sessions[x][n] = "none" /\ flight[x][n] = "none"
      /\ "none" \notin Waits /\ "looping" \in Going /\ "none" \notin Going
  BY DEF ExecInv, ExecOK, Waits, Going
<1>10. \A y \in Executions : execs[y].stage # "none" => y < x
  <2> SUFFICES ASSUME NEW y \in Executions, execs[y].stage # "none", ~(y < x) PROVE FALSE
    OBVIOUS
  <2>1. x # y
    OBVIOUS
  <2>2. x \in 1..(y - 1)
    BY <2>1 DEF Executions
  <2> QED BY <2>2 DEF LaunchInv
<1>11. \A y \in Executions : IsLast(y)' <=> y = x
  <2>1. \A y \in Executions : execs'[y].stage # "none" => y <= x
    BY <1>8, <1>10 DEF Executions
  <2>2. IsLast(x)'
    BY <1>5, <1>8, <2>1 DEF IsLast
  <2>3. ASSUME NEW y \in Executions, IsLast(y)' PROVE y = x
    <3>1. execs'[x].stage # "none" /\ execs'[y].stage # "none"
      BY <2>2, <2>3 DEF IsLast
    <3>2. x <= y /\ y <= x
      BY <2>1, <2>3, <3>1 DEF IsLast
    <3> QED BY <3>2 DEF Executions
  <2> QED BY <2>2, <2>3
<1>12. WorkflowTypes'
  <2>1. execs' \in [Executions -> Records(graph)]
    BY <1>6, <1>7 DEF WorkflowTypes
  <2>2. overtaken' \in BOOLEAN
    BY DEF WorkflowTypes
  <2> QED BY <1>1, <1>7, <2>1, <2>2 DEF WorkflowTypes, RowStatuses
<1>13. ExecInv'
  <2>1. ExecOK(graph, ex, sessions[x], flight[x])
    <3>1. \A e \in graph.edges : ex.decided[e] \in {"taken", "not_taken"} => e[1] \notin ex.active
      BY <1>2, <1>5
    <3> QED BY <1>5, <1>9, <3>1 DEF ExecOK
  <2> QED BY <1>1, <1>8, <2>1 DEF ExecInv
<1>14. LaunchInv'
  <2>1. \A y \in Executions :
           execs'[y].stage # "none" => \A z \in 1..(y - 1) : execs'[z].stage # "none"
    <3> SUFFICES ASSUME NEW y \in Executions, NEW z \in 1..(y - 1), execs'[y].stage # "none"
                 PROVE  execs'[z].stage # "none"
      OBVIOUS
    <3>1. z \in Executions
      BY WorkflowAssumption DEF Executions
    <3>2. CASE z = x
      BY <1>5, <1>8, <3>2
    <3>3. CASE z # x
      <4>1. execs[z].stage # "none"
        <5>1. CASE y = x
          BY <5>1
        <5>2. CASE y # x
          BY <1>8, <5>2 DEF LaunchInv
        <5> QED BY <5>1, <5>2
      <4> QED BY <1>8, <3>1, <3>3, <4>1
    <3> QED BY <3>2, <3>3
  <2> QED BY <1>5, <1>7, <1>8, <1>9, <1>11, <2>1 DEF LaunchInv
<1>15. StopInv'
  BY <1>7 DEF StopInv
<1>16. SoloInv'
  <2> SUFFICES ASSUME ~overtaken, \A y \in Executions : execs[y].stage \notin Going
               PROVE  /\ \A y \in Executions : execs'[y].stage \in Going =>
                            IsLast(y)' /\ row' \in {"running", "canceled", "deleted"}
                      /\ \A y \in Executions, n \in 1..graph.size :
                            Closing(execs'[y], sessions[y], flight[y], n, row')
    BY <1>1 DEF SoloInv, Executing, Going
  <2>1. \A y \in Executions : execs'[y].stage \in Going => y = x
    BY <1>8
  <2>2. ASSUME NEW y \in Executions, NEW n \in 1..graph.size
        PROVE  Closing(execs'[y], sessions[y], flight[y], n, row')
    <3>1. CASE y = x
      BY <1>9, <3>1 DEF Closing
    <3>2. CASE y # x
      BY <3>2 DEF SoloInv, Closing
    <3> QED BY <3>1, <3>2
  <2> QED BY <1>7, <1>11, <2>1, <2>2
<1>17. FollowInv'
  <2>1. Follows(graph, ex, sessions[x], flight[x])
    BY <1>5, <1>9 DEF Follows
  <2> QED BY <1>1, <1>7, <1>8, <1>11, <2>1 DEF FollowInv
<1> QED BY <1>12, <1>13, <1>14, <1>15, <1>16, <1>17

LEMMA RunNowKeeps ==
    ASSUME WorkflowInv, RunNow
    PROVE  WorkflowInv'
<1>1. 1 \in Executions
  BY WorkflowAssumption DEF Executions
<1>2. \A y \in Executions : execs[y].stage = "none"
  BY DEF RunNow, WorkflowInv, LaunchInv
<1>3. PICK deadline \in {"none", "ahead"} :
         Launch(1, ReachableFrom(graph.start), [e \in {} |-> "absent"], deadline)
  BY DEF RunNow
<1>4. PICK active : active = ReachableFrom(graph.start)
  OBVIOUS
<1>5. active \subseteq Nodes
  BY <1>4 DEF ReachableFrom
<1>6. PICK boundary : boundary = [e \in {} |-> "absent"]
  OBVIOUS
<1>7. DOMAIN boundary = {}
  BY <1>6
<1>8. Launch(1, active, boundary, deadline)
  BY <1>3, <1>4, <1>6
<1>9. overtaken' = (overtaken \/ \E y \in Executions : Executing(y))
  <2>1. ~ \E y \in Executions : Executing(y)
    BY <1>2 DEF Executing
  <2>2. overtaken' = overtaken /\ overtaken \in BOOLEAN
    BY DEF RunNow, WorkflowInv, WorkflowTypes
  <2> QED BY <2>1, <2>2
<1>10. UNCHANGED <<instance, sessions, flight>> /\ \A y \in 1..(1 - 1) : FALSE
  BY DEF RunNow
<1>11. \A y \in 1..(1 - 1) : execs[y].stage # "none"
  BY <1>10
<1> QED BY <1>1, <1>2, <1>5, <1>7, <1>8, <1>9, <1>10, <1>11, LaunchStep

LEMMA RerunKeeps ==
    ASSUME WorkflowInv, NEW x \in Executions, NEW n \in Nodes, NEW preserve \in BOOLEAN,
           Rerun(x, n, preserve)
    PROVE  WorkflowInv'
<1>1. PICK active : active = Activated(n, preserve)
  OBVIOUS
<1>2. active \subseteq Nodes
  BY <1>1 DEF Activated
<1>3. PICK bound : bound = Boundary(n, preserve, active)
  OBVIOUS
<1>4. PICK boundary : boundary = [e \in bound |-> Evidence(e)]
  OBVIOUS
<1>5. \A e \in bound : e[1] \notin active
  BY <1>3 DEF Boundary
<1>6. \A e \in bound : HasEvidence(e)
  BY <1>1, <1>3 DEF Rerun
<1>7. PICK deadline \in {"none", "ahead"} : Launch(x, active, boundary, deadline)
  BY <1>1, <1>3, <1>4 DEF Rerun
<1>8. \A e \in DOMAIN boundary : e[1] \notin active /\ boundary[e] \in {"taken", "not_taken"}
  BY <1>4, <1>5, <1>6 DEF HasEvidence
<1>9. /\ execs[x].stage = "none" /\ \A y \in 1..(x - 1) : execs[y].stage # "none"
      /\ UNCHANGED <<instance, sessions, flight>>
      /\ overtaken' = (overtaken \/ \E y \in Executions : Executing(y))
  BY DEF Rerun
<1> QED BY <1>2, <1>7, <1>8, <1>9, LaunchStep

LEMMA HaltKeeps ==
    ASSUME WorkflowInv, Halt, UNCHANGED <<instance, execs, overtaken>>
    PROVE  WorkflowInv'
<1> USE DEF WorkflowInv
<1>1. graph' = graph /\ Nodes = 1..graph.size /\ row' = "canceled" /\ canceledIds' = TRUE
      /\ row = "running"
  BY GraphOfRun DEF Halt, graph
<1>2. \A x \in Executions, n \in 1..graph.size :
         /\ sessions'[x][n] = IF sessions[x][n] = "running" THEN "canceled" ELSE sessions[x][n]
         /\ flight'[x][n] = IF flight[x][n] = "approving" THEN "canceled" ELSE flight[x][n]
  BY <1>1 DEF Halt
<1>3. WorkflowTypes'
  <2>1. sessions' \in [Executions -> [1..graph.size -> SessionStatuses]]
    BY <1>1 DEF Halt, WorkflowTypes, SessionStatuses
  <2>2. flight' \in [Executions -> [1..graph.size -> Flying]]
    BY <1>1 DEF Halt, WorkflowTypes, Flying, Results, Fatal
  <2> QED BY <1>1, <2>1, <2>2 DEF WorkflowTypes, RowStatuses
<1>4. ASSUME NEW x \in Executions PROVE ExecOK(graph, execs[x], sessions'[x], flight'[x])
  <2>1. ExecOK(graph, execs[x], sessions[x], flight[x])
    BY DEF ExecInv
  <2>2. "canceled" \notin Waits
    BY DEF Waits
  <2>3. \A n \in 1..graph.size : /\ flight'[x][n] \in Waits => n \in execs[x].begun \ execs[x].done
                                 /\ sessions'[x][n] # "none" => n \in execs[x].begun
                                 /\ n \in execs[x].done => sessions'[x][n] # "running"
    BY <1>2, <2>1, <2>2 DEF ExecOK
  <2>4. execs[x].stage = "none" =>
           \A n \in 1..graph.size : flight'[x][n] = "none" /\ sessions'[x][n] = "none"
    BY <1>2, <2>1 DEF ExecOK
  <2> QED BY <2>1, <2>3, <2>4 DEF ExecOK
<1>5. ExecInv'
  BY <1>1, <1>4 DEF ExecInv
<1>6. LaunchInv'
  BY <1>1 DEF LaunchInv, IsLast
<1>7. StopInv'
  BY <1>1, <1>2 DEF StopInv
<1>8. SoloInv'
  BY <1>1, <1>2 DEF SoloInv, IsLast, Closing
<1>9. FollowInv'
  BY <1>1 DEF FollowInv
<1> QED BY <1>3, <1>5, <1>6, <1>7, <1>8, <1>9

\* A step that changes neither the run nor its executions.
LEMMA NothingHappens ==
    ASSUME WorkflowInv,
           UNCHANGED <<instance, row, canceledIds, sessions, execs, flight, overtaken>>
    PROVE  WorkflowInv'
<1>1. graph' = graph
  BY DEF graph
<1> QED BY <1>1 DEF WorkflowInv, WorkflowTypes, ExecInv, LaunchInv, IsLast, StopInv, SoloInv,
           FollowInv

LEMMA DeleteRunKeeps ==
    ASSUME WorkflowInv, DeleteRun
    PROVE  WorkflowInv'
<1>1. CASE row = "running"
  BY <1>1, HaltKeeps DEF DeleteRun
<1>2. CASE row # "running"
  BY <1>2, NothingHappens DEF DeleteRun
<1> QED BY <1>1, <1>2

LEMMA DeletionEndsKeeps ==
    ASSUME WorkflowInv, DeletionEnds
    PROVE  WorkflowInv'
<1> USE DEF WorkflowInv
<1>1. /\ graph' = graph /\ Nodes = 1..graph.size /\ row' = "deleted" /\ canceledIds' = FALSE
      /\ UNCHANGED <<instance, execs, flight, overtaken>>
  BY GraphOfRun DEF DeletionEnds, graph
<1>2. \A x \in Executions, n \in 1..graph.size : sessions'[x][n] = "none"
  BY <1>1 DEF DeletionEnds
<1>3. WorkflowTypes'
  <2>1. sessions' \in [Executions -> [1..graph.size -> SessionStatuses]]
    BY <1>1 DEF DeletionEnds, SessionStatuses
  <2> QED BY <1>1, <2>1 DEF WorkflowTypes, RowStatuses
<1>4. ExecInv'
  BY <1>1, <1>2 DEF ExecInv, ExecOK
<1>5. LaunchInv'
  BY <1>1 DEF LaunchInv, IsLast
<1>6. StopInv'
  BY <1>1, <1>2 DEF StopInv
<1>7. SoloInv'
  BY <1>1, <1>2 DEF SoloInv, IsLast, Closing
<1>8. FollowInv'
  BY <1>1 DEF FollowInv
<1> QED BY <1>3, <1>4, <1>5, <1>6, <1>7, <1>8

LEMMA RestartServerKeeps ==
    ASSUME WorkflowInv, RestartServer
    PROVE  WorkflowInv'
<1> USE DEF WorkflowInv
<1>1. /\ graph' = graph /\ Nodes = 1..graph.size /\ canceledIds' = FALSE
      /\ row' = IF row = "running" THEN "failed" ELSE row
      /\ UNCHANGED <<instance, overtaken>>
  BY GraphOfRun DEF RestartServer, SetRow, graph
<1>2. ASSUME NEW x \in Executions, NEW n \in 1..graph.size
      PROVE  /\ sessions'[x][n] = IF row = "running" /\ sessions[x][n] = "running" THEN "failed"
                                  ELSE sessions[x][n]
             /\ flight'[x][n] = IF flight[x][n] \in Waits THEN "none" ELSE flight[x][n]
  BY <1>1 DEF RestartServer
<1>3. ASSUME NEW x \in Executions
      PROVE  /\ execs'[x].stage \in {"none", "done"}
             /\ execs'[x].stage = "none" <=> execs[x].stage = "none"
             /\ execs'[x].active = execs[x].active /\ execs'[x].begun = execs[x].begun
             /\ execs'[x].done = execs[x].done /\ execs'[x].decided = execs[x].decided
             /\ execs'[x] \in Records(graph)
  <2>1. execs[x] \in Records(graph)
    BY DEF WorkflowTypes
  <2>2. execs'[x] = IF Executing(x) THEN [execs[x] EXCEPT !.stage = "done"] ELSE execs[x]
    BY DEF RestartServer
  <2>3. CASE Executing(x)
    BY <2>1, <2>2, <2>3 DEF Executing, Records, ExecStages
  <2>4. CASE ~Executing(x)
    BY <2>1, <2>2, <2>4 DEF Executing, Records, ExecStages
  <2> QED BY <2>3, <2>4
<1>4. \A x \in Executions : IsLast(x)' <=> IsLast(x)
  BY <1>3 DEF IsLast
<1>5. WorkflowTypes'
  <2>1. sessions' \in [Executions -> [1..graph.size -> SessionStatuses]]
    BY <1>1 DEF RestartServer, WorkflowTypes, SessionStatuses
  <2>2. flight' \in [Executions -> [1..graph.size -> Flying]]
    BY <1>1 DEF RestartServer, WorkflowTypes, Flying
  <2>3. execs' \in [Executions -> Records(graph)]
    <3>1. execs' = [x \in Executions |->
              IF Executing(x) THEN [execs[x] EXCEPT !.stage = "done"] ELSE execs[x]]
      BY DEF RestartServer
    <3> QED BY <1>3, <3>1
  <2> QED BY <1>1, <2>1, <2>2, <2>3 DEF WorkflowTypes, RowStatuses
<1>6. ASSUME NEW x \in Executions PROVE ExecOK(graph, execs'[x], sessions'[x], flight'[x])
  <2>1. ExecOK(graph, execs[x], sessions[x], flight[x])
    BY DEF ExecInv
  <2>2. "none" \notin Waits
    BY DEF Waits
  <2>3. \A n \in 1..graph.size : /\ flight'[x][n] \in Waits => n \in execs'[x].begun \ execs'[x].done
                                 /\ sessions'[x][n] # "none" => n \in execs'[x].begun
                                 /\ n \in execs'[x].done => sessions'[x][n] # "running"
    BY <1>2, <1>3, <2>1, <2>2 DEF ExecOK
  <2>4. execs'[x].stage = "none" =>
           \A n \in 1..graph.size : flight'[x][n] = "none" /\ sessions'[x][n] = "none"
    BY <1>2, <1>3, <2>1 DEF ExecOK
  <2>5. /\ execs'[x].begun \subseteq execs'[x].active /\ execs'[x].done \subseteq execs'[x].begun
        /\ \A e \in graph.edges :
              execs'[x].decided[e] \in {"taken", "not_taken"} /\ e[1] \in execs'[x].active
                 => e[1] \in execs'[x].done
    BY <1>3, <2>1 DEF ExecOK
  <2> QED BY <2>3, <2>4, <2>5 DEF ExecOK
<1>7. ExecInv'
  BY <1>1, <1>6 DEF ExecInv
<1>8. LaunchInv'
  <2>1. \A x \in Executions :
           execs'[x].stage # "none" => \A y \in 1..(x - 1) : execs'[y].stage # "none"
    <3> SUFFICES ASSUME NEW x \in Executions, NEW y \in 1..(x - 1), execs'[x].stage # "none"
                 PROVE  execs'[y].stage # "none"
      OBVIOUS
    <3>1. y \in Executions
      BY WorkflowAssumption DEF Executions
    <3> QED BY <1>3, <3>1 DEF LaunchInv
  <2> QED BY <1>1, <1>3, <1>4, <2>1 DEF LaunchInv
<1>9. StopInv'
  BY <1>1, <1>2 DEF StopInv
<1>10. SoloInv'
  <2> SUFFICES ASSUME ~overtaken
               PROVE  /\ \A x \in Executions : execs'[x].stage \notin Going
                      /\ \A x \in Executions, n \in 1..graph.size :
                            Closing(execs'[x], sessions'[x], flight'[x], n, row')
    BY <1>1 DEF SoloInv
  <2>1. \A x \in Executions : execs'[x].stage \notin Going
    BY <1>3 DEF Going
  <2>2. ASSUME NEW x \in Executions, NEW n \in 1..graph.size
        PROVE  Closing(execs'[x], sessions'[x], flight'[x], n, row')
    <3>1. Closing(execs[x], sessions[x], flight[x], n, row) /\ "threw" \notin Waits
      BY DEF SoloInv, Waits
    <3>2. sessions'[x][n] = "running" => row # "running" /\ sessions[x][n] = "running"
      BY <1>2
    <3> QED BY <1>2, <3>1, <3>2 DEF Closing
  <2> QED BY <2>1, <2>2
<1>11. FollowInv'
  <2>1. row' # "running" /\ (row' = "completed" => row = "completed")
    BY <1>1
  <2>2. ASSUME row = "completed", ~overtaken, NEW x \in Executions, IsLast(x)
        PROVE  Followed(graph, execs'[x], sessions'[x])
    <3>1. Followed(graph, execs[x], sessions[x])
      BY <2>2 DEF FollowInv
    <3>2. \A n \in execs[x].active : sessions'[x][n] = sessions[x][n]
      <4>1. execs[x].active \subseteq 1..graph.size
        BY DEF WorkflowTypes, Records
      <4> QED BY <1>2, <2>2, <4>1
    <3> QED BY <1>3, <3>1, <3>2 DEF Followed
  <2> QED BY <1>1, <1>4, <2>1, <2>2 DEF FollowInv
<1> QED BY <1>5, <1>7, <1>8, <1>9, <1>10, <1>11

LEMMA DeadlinePassesKeeps ==
    ASSUME WorkflowInv, NEW x \in Executions, DeadlinePasses(x)
    PROVE  WorkflowInv'
<1>1. PICK ex0 \in Records(graph), s \in [1..graph.size -> SessionStatuses],
           f \in [1..graph.size -> Flying] :
              /\ ex0 = execs[x] /\ s = sessions[x] /\ f = flight[x]
              /\ ExecOK(graph, ex0, s, f)
  BY PartsOfExecution
<1>2. PICK ex : ex = [ex0 EXCEPT !.deadline = "passed"]
  OBVIOUS
<1>3. /\ ex \in Records(graph) /\ ex.stage = ex0.stage /\ ex.active = ex0.active
      /\ ex.begun = ex0.begun /\ ex.done = ex0.done /\ ex.decided = ex0.decided
      /\ ex.failure = ex0.failure
  BY <1>2 DEF Records
<1>4. execs' = [execs EXCEPT ![x] = ex]
  BY <1>1, <1>2 DEF DeadlinePasses, WorkflowInv, WorkflowTypes
<1>5. sessions' = [sessions EXCEPT ![x] = s] /\ flight' = [flight EXCEPT ![x] = f] /\ row' = row
      /\ UNCHANGED <<instance, canceledIds, overtaken>>
  BY <1>1 DEF DeadlinePasses, WorkflowInv, WorkflowTypes
<1>6. ExecOK(graph, ex, s, f)
  BY <1>1, <1>3 DEF ExecOK
<1>7. execs[x].stage \in Going /\ "none" \notin Going
  BY DEF DeadlinePasses, Executing, Going
<1>8. ~overtaken => \A n \in 1..graph.size : Closing(ex, s, f, n, row')
  BY <1>1, <1>3, <1>5 DEF WorkflowInv, SoloInv, Closing
<1>9. row' = "running" /\ IsLast(x) => Follows(graph, ex, s, f)
  BY <1>1, <1>3, <1>5 DEF WorkflowInv, FollowInv, Follows
<1>10. row' = "completed" /\ ~overtaken /\ IsLast(x) => Followed(graph, ex, s)
  BY <1>1, <1>3, <1>5 DEF WorkflowInv, FollowInv, Followed
<1>11. \A n \in 1..graph.size : s[n] = "running" => sessions[x][n] = "running"
  BY <1>1
<1> QED BY <1>1, <1>3, <1>4, <1>5, <1>6, <1>7, <1>8, <1>9, <1>10, <1>11, ExecutionStep

LEMMA NextKeeps ==
    ASSUME WorkflowInv, [WorkflowNext]_workflowVars
    PROVE  WorkflowInv'
<1>1. CASE UNCHANGED workflowVars
  BY <1>1, NothingHappens DEF workflowVars
<1>2. CASE \E x \in Executions: Schedule(x) \/ DeadlinePasses(x) \/ \E n \in Nodes: NodeEvent(x, n)
  BY <1>2, ScheduleKeeps, DeadlinePassesKeeps, NodeEventKeeps
<1>3. CASE Request
  <2>1. CASE RunNow
    BY <2>1, RunNowKeeps
  <2>2. CASE \E x \in Executions, n \in Nodes, preserve \in BOOLEAN: Rerun(x, n, preserve)
    BY <2>2, RerunKeeps
  <2>3. CASE Stop
    BY <2>3, HaltKeeps DEF Stop
  <2>4. CASE DeleteRun
    BY <2>4, DeleteRunKeeps
  <2>5. CASE RestartServer
    BY <2>5, RestartServerKeeps
  <2> QED BY <1>3, <2>1, <2>2, <2>3, <2>4, <2>5 DEF Request
<1>4. CASE DeletionEnds
  BY <1>4, DeletionEndsKeeps
<1> QED BY <1>1, <1>2, <1>3, <1>4 DEF WorkflowNext

-----------------------------------------------------------------------------
(* The theorems.                                                             *)

\* The inductive invariant: what every execution, its node sessions and its continuations
\* make of each other, whatever the graph, the order of the events and the requests between.
THEOREM WorkflowSpecInv == WorkflowSpec => []WorkflowInv
BY InitKeeps, NextKeeps, PTL DEF WorkflowSpec

LEMMA InvImpliesTypes ==
    ASSUME WorkflowInv
    PROVE  WorkflowTypeOK
<1>1. Nodes = 1..graph.size
  BY DEF Nodes
<1>2. ASSUME NEW x \in Executions
      PROVE  /\ execs[x].stage \in {"none", "looping", "racing", "draining", "done"}
             /\ execs[x].active \subseteq Nodes
             /\ execs[x].begun \subseteq execs[x].active
             /\ execs[x].done \subseteq execs[x].begun
             /\ execs[x].decided \in [graph.edges -> Decisions]
  BY <1>1, PartsOfExecution DEF ExecOK, Records, ExecStages
<1>3. /\ row \in RowStatuses /\ canceledIds \in BOOLEAN
      /\ sessions \in [Executions -> [Nodes -> SessionStatuses]]
      /\ flight \in [Executions -> [Nodes -> Waits \union Results \union {"none", "gone"}]]
  BY <1>1 DEF WorkflowInv, WorkflowTypes, Flying
<1> QED BY <1>2, <1>3 DEF WorkflowTypeOK

\* The variables of the workflow manager, of its schedulers and of the store keep their
\* types, and a scheduler begins and ends active nodes only.
THEOREM WorkflowTypeCorrect == WorkflowSpec => []WorkflowTypeOK
BY WorkflowSpecInv, InvImpliesTypes, PTL

LEMMA LastIsLast ==
    ASSUME NEW x \in Executions, IsLast(x)
    PROVE  Last = x
<1>1. \A y \in Executions : IsLast(y) <=> y = x
  BY OneIsLast
<1> QED BY <1>1 DEF Last, IsLast

LEMMA InvImpliesFollowed ==
    ASSUME WorkflowInv
    PROVE  CompletedRunFollowsItsGraph
<1> SUFFICES ASSUME row = "completed", ~overtaken, NEW n \in execs[Last].active
             PROVE  /\ flight[Last][n] \notin Waits
                    /\ Joined(execs[Last].decided, n) =
                         (IF sessions[Last][n] = "completed" THEN "ready" ELSE "skipped")
  BY DEF CompletedRunFollowsItsGraph
<1>1. PICK x \in Executions : IsLast(x)
  BY DEF WorkflowInv, LaunchInv
<1>2. Last = x
  BY <1>1, LastIsLast
<1>3. Followed(graph, execs[x], sessions[x])
  BY <1>1 DEF WorkflowInv, FollowInv
<1>4. n \in execs[x].done /\ Verdict(graph, execs[x].decided, n)
                                = IF sessions[x][n] = "completed" THEN "ready" ELSE "skipped"
  BY <1>2, <1>3 DEF Followed
<1>5. n \in 1..graph.size
  BY <1>2 DEF WorkflowInv, WorkflowTypes, Records
<1>6. flight[x][n] \notin Waits
  BY <1>4, <1>5 DEF WorkflowInv, ExecInv, ExecOK
<1> QED BY <1>2, <1>4, <1>6, VerdictIsJoined

\* A completed run has done what its graph says, for every graph without loops, every
\* outcome of its nodes and every order in which they end: what a join decided early, on
\* some of its edges, is what it decides on all of them.
THEOREM RunFollowsItsGraph == WorkflowSpec => []CompletedRunFollowsItsGraph
BY WorkflowSpecInv, InvImpliesFollowed, PTL

LEMMA InvImpliesClosed ==
    ASSUME WorkflowInv
    PROVE  EndedRunIsClosed
<1> SUFFICES ASSUME row # "none", \A x \in Executions : ~Executing(x)
             PROVE  /\ row # "running"
                    /\ \A x \in Executions, n \in Nodes :
                          sessions[x][n] # "running" \/ flight[x][n] = "threw" \/ overtaken
  BY DEF EndedRunIsClosed
<1>1. \A x \in Executions : execs[x].stage \notin Going
  BY DEF Executing, Going
<1>2. row # "running"
  BY <1>1 DEF WorkflowInv, LaunchInv
<1>3. ASSUME NEW x \in Executions, NEW n \in Nodes
      PROVE  sessions[x][n] # "running" \/ flight[x][n] = "threw" \/ overtaken
  BY <1>1 DEF WorkflowInv, SoloInv, Closing, Nodes
<1> QED BY <1>2, <1>3

\* When every scheduler of a run has ended, its row is terminal and its sessions are closed,
\* whatever ended it: the row runs only while the last execution does, and a session runs
\* only for a continuation that it waits for.
THEOREM EndedIsClosed == WorkflowSpec => []EndedRunIsClosed
BY WorkflowSpecInv, InvImpliesClosed, PTL

-----------------------------------------------------------------------------
(* A scheduler is never stuck.  The inductive invariant above, and:          *)

\* While an execution loops or races, what has begun is in flight until it is done, and an
\* edge that is pending leaves an active node that is not done, unless recording it failed.
Moving(g, ex, f) ==
    /\ \A n \in ex.begun \ ex.done : f[n] \in Waits \union Results
    /\ \A n \in 1..g.size : f[n] \in {"ok", "handled"} => n \in ex.done
    /\ \A e \in g.edges : ex.decided[e] = "pending" =>
          e[1] \in ex.active /\ (e[1] \in ex.done => f[e[1]] = "threw")

MovingInv ==
    \A x \in Executions : execs[x].stage \in {"looping", "racing"} =>
        Moving(graph, execs[x], flight[x])

\* The error "workflow graph contains a cycle or blocked dependency" of a scheduler that has
\* active nodes left, nothing in flight and no node to start.
NeverBlocked ==
    \A x \in Executions : execs[x].stage = "looping" =>
        LET ex == Skip(execs[x])
        IN  ex.done # ex.active =>
              \/ InFlight(x) # {}
              \/ \E n \in ex.active \ ex.begun : Joined(ex.decided, n) = "ready"

\* A step that changes one execution.
LEMMA MovingStep ==
    ASSUME WorkflowInv, MovingInv, NEW x \in Executions, NEW ex, NEW f,
           execs' = [execs EXCEPT ![x] = ex], flight' = [flight EXCEPT ![x] = f],
           UNCHANGED instance,
           ex.stage \in {"looping", "racing"} => Moving(graph, ex, f)
    PROVE  MovingInv'
<1>1. graph' = graph
  BY DEF graph
<1>2. \A y \in Executions : /\ execs'[y] = IF y = x THEN ex ELSE execs[y]
                            /\ flight'[y] = IF y = x THEN f ELSE flight[y]
  BY DEF WorkflowInv, WorkflowTypes
<1> QED BY <1>1, <1>2 DEF MovingInv

\* An event of a node that is in flight: it waits on or has ended without a word on the
\* edges, or it is done and has decided its edges or thrown.
LEMMA MovingNode ==
    ASSUME WorkflowInv, MovingInv, NEW x \in Executions, NEW n \in 1..graph.size,
           flight[x][n] \in Waits, NEW ex, NEW r \in Waits \union Results,
           execs' = [execs EXCEPT ![x] = ex], flight' = [flight EXCEPT ![x][n] = r],
           UNCHANGED instance,
           ex.stage = execs[x].stage, ex.active = execs[x].active, ex.begun = execs[x].begun,
           \/ ex = execs[x] /\ r \notin {"ok", "handled"}
           \/ /\ ex.done = execs[x].done \union {n}
              /\ \A e \in graph.edges : ex.decided[e] = "pending" =>
                    execs[x].decided[e] = "pending" /\ (e[1] = n => r = "threw")
    PROVE  MovingInv'
<1>1. PICK ex0 \in Records(graph), s \in [1..graph.size -> SessionStatuses],
           f0 \in [1..graph.size -> Flying] :
              /\ ex0 = execs[x] /\ s = sessions[x] /\ f0 = flight[x]
              /\ ExecOK(graph, ex0, s, f0)
  BY PartsOfExecution
<1>2. PICK f : f = [f0 EXCEPT ![n] = r]
  OBVIOUS
<1>3. flight' = [flight EXCEPT ![x] = f] /\ f[n] = r
      /\ \A m \in 1..graph.size : m # n => f[m] = f0[m]
  BY <1>1, <1>2
<1>4. n \in ex0.begun \ ex0.done
  BY <1>1 DEF ExecOK
<1>5. \A e \in graph.edges : e[1] \in 1..graph.size
  BY GraphOfRun, EdgeFacts DEF WorkflowInv
<1>6. ASSUME ex.stage \in {"looping", "racing"} PROVE Moving(graph, ex, f)
  <2>1. Moving(graph, ex0, f0)
    BY <1>1, <1>6 DEF MovingInv
  <2>2. CASE ex = ex0 /\ r \notin {"ok", "handled"}
    <3>1. \A m \in ex.begun \ ex.done : f[m] \in Waits \union Results
      BY <1>1, <1>3, <2>1, <2>2 DEF Moving, Records
    <3>2. \A m \in 1..graph.size : f[m] \in {"ok", "handled"} => m \in ex.done
      BY <1>3, <2>1, <2>2 DEF Moving
    <3>3. \A e \in graph.edges : ex.decided[e] = "pending" =>
             e[1] \in ex.active /\ (e[1] \in ex.done => f[e[1]] = "threw")
      BY <1>3, <1>4, <1>5, <2>1, <2>2 DEF Moving
    <3> QED BY <3>1, <3>2, <3>3 DEF Moving
  <2>3. CASE /\ ex.done = ex0.done \union {n}
             /\ \A e \in graph.edges : ex.decided[e] = "pending" =>
                   ex0.decided[e] = "pending" /\ (e[1] = n => r = "threw")
    <3>1. \A m \in ex.begun \ ex.done : f[m] \in Waits \union Results
      BY <1>1, <1>3, <2>1, <2>3 DEF Moving, Records
    <3>2. \A m \in 1..graph.size : f[m] \in {"ok", "handled"} => m \in ex.done
      BY <1>3, <2>1, <2>3 DEF Moving
    <3>3. ASSUME NEW e \in graph.edges, ex.decided[e] = "pending"
          PROVE  e[1] \in ex.active /\ (e[1] \in ex.done => f[e[1]] = "threw")
      BY <1>1, <1>3, <1>5, <2>1, <2>3, <3>3 DEF Moving
    <3> QED BY <3>1, <3>2, <3>3 DEF Moving
  <2> QED BY <1>1, <2>2, <2>3
<1> QED BY <1>3, <1>6, MovingStep

LEMMA MovingFlight ==
    ASSUME WorkflowInv, MovingInv, NEW x \in Executions, NEW n \in 1..graph.size,
           flight[x][n] \in Waits, NEW r \in Waits \union Results, r \notin {"ok", "handled"},
           flight' = [flight EXCEPT ![x][n] = r], UNCHANGED <<instance, execs>>
    PROVE  MovingInv'
<1>1. PICK ex : ex = execs[x]
  OBVIOUS
<1>2. execs' = [execs EXCEPT ![x] = ex]
  BY <1>1 DEF WorkflowInv, WorkflowTypes
<1> QED BY <1>1, <1>2, MovingNode

\* An end that is recorded leaves no edge out of the node pending.
LEMMA PendingFacts ==
    ASSUME NEW x \in Executions, NEW n, NEW outcome, NEW d \in Decided(x, n, outcome)
    PROVE  \A e \in graph.edges : d[e] = "pending" => execs[x].decided[e] = "pending" /\ e[1] # n
<1>1. \A e \in graph.edges : Route(e, outcome) \subseteq {"taken", "not_taken"}
  BY DEF Route
<1>2. ASSUME NEW e \in graph.edges
      PROVE  \/ e[1] = n /\ execs[x].decided[e] # "absent" /\ d[e] \in {"taken", "not_taken"}
             \/ (e[1] # n \/ execs[x].decided[e] = "absent") /\ d[e] = execs[x].decided[e]
  BY <1>1 DEF Decided
<1> QED BY <1>2

LEMMA MovingSucceeds ==
    ASSUME WorkflowInv, MovingInv, NEW x \in Executions, NEW n \in 1..graph.size,
           flight[x][n] \in Waits, NodeSucceeds(x, n), UNCHANGED instance
    PROVE  MovingInv'
<1>1. {"ok", "threw"} \subseteq Waits \union Results
  BY DEF Results
<1>2. CASE Recordable(x, n)
  <2>1. PICK d \in Decided(x, n, "success") :
           /\ Settle(x, n, "ok", "completed")
           /\ execs' = [execs EXCEPT ![x].done = @ \union {n}, ![x].decided = d]
    BY <1>2 DEF NodeSucceeds
  <2>2. PICK ex0 \in Records(graph) : ex0 = execs[x]
    BY PartsOfExecution
  <2>3. PICK ex : ex = [ex0 EXCEPT !.done = ex0.done \union {n}, !.decided = d]
    OBVIOUS
  <2>4. execs' = [execs EXCEPT ![x] = ex]
    BY <2>1, <2>2, <2>3 DEF WorkflowInv, WorkflowTypes
  <2>5. /\ ex.stage = execs[x].stage /\ ex.active = execs[x].active /\ ex.begun = execs[x].begun
        /\ ex.done = execs[x].done \union {n} /\ ex.decided = d
    BY <2>2, <2>3 DEF Records
  <2>6. \A e \in graph.edges : ex.decided[e] = "pending" =>
           execs[x].decided[e] = "pending" /\ e[1] # n
    BY <2>5, PendingFacts
  <2>7. flight' = [flight EXCEPT ![x][n] = "ok"]
    BY <2>1 DEF Settle
  <2> QED BY <1>1, <2>4, <2>5, <2>6, <2>7, MovingNode
<1>3. CASE ~Recordable(x, n)
  BY <1>1, <1>3, MovingFlight DEF NodeSucceeds
<1> QED BY <1>2, <1>3

LEMMA MovingFails ==
    ASSUME WorkflowInv, MovingInv, NEW x \in Executions, NEW n \in 1..graph.size,
           ChatRunFails(x, n), UNCHANGED instance
    PROVE  MovingInv'
<1>1. flight[x][n] \in Waits /\ {"canceled", "handled", "threw"} \subseteq Waits \union Results
  BY DEF ChatRunFails, Waits, Results, Fatal
<1>2. CASE IsCanceled
  BY <1>1, <1>2, MovingFlight DEF ChatRunFails, Settle
<1>3. CASE ~IsCanceled
  <2>1. PICK r \in Waits \union Results : r = IF Recordable(x, n) THEN "handled" ELSE "threw"
    BY <1>1
  <2>2. PICK decided \in Decided(x, n, "failure") :
           /\ Settle(x, n, IF Recordable(x, n) THEN "handled" ELSE "threw", "failed")
           /\ execs' = [execs EXCEPT ![x].done = @ \union {n}, ![x].failure = TRUE,
                                     ![x].decided = IF Recordable(x, n) THEN decided ELSE @]
    BY <1>3 DEF ChatRunFails
  <2>3. PICK ex0 \in Records(graph) : ex0 = execs[x]
    BY PartsOfExecution
  <2>4. PICK d : d = IF Recordable(x, n) THEN decided ELSE ex0.decided
    OBVIOUS
  <2>5. PICK ex : ex = [ex0 EXCEPT !.done = ex0.done \union {n}, !.failure = TRUE, !.decided = d]
    OBVIOUS
  <2>6. execs' = [execs EXCEPT ![x] = ex]
    BY <2>2, <2>3, <2>4, <2>5 DEF WorkflowInv, WorkflowTypes
  <2>7. /\ ex.stage = execs[x].stage /\ ex.active = execs[x].active /\ ex.begun = execs[x].begun
        /\ ex.done = execs[x].done \union {n} /\ ex.decided = d
    BY <2>3, <2>5 DEF Records
  <2>8. ASSUME NEW e \in graph.edges, ex.decided[e] = "pending"
        PROVE  execs[x].decided[e] = "pending" /\ (e[1] = n => r = "threw")
    <3>1. CASE Recordable(x, n)
      BY <2>4, <2>7, <2>8, <3>1, PendingFacts
    <3>2. CASE ~Recordable(x, n)
      BY <2>1, <2>3, <2>4, <2>7, <2>8, <3>2
    <3> QED BY <3>1, <3>2
  <2>9. flight' = [flight EXCEPT ![x][n] = r]
    BY <2>1, <2>2 DEF Settle
  <2> QED BY <1>1, <2>6, <2>7, <2>8, <2>9, MovingNode
<1> QED BY <1>2, <1>3

LEMMA MovingNodeEvent ==
    ASSUME WorkflowInv, MovingInv, NEW x \in Executions, NEW n \in Nodes, NodeEvent(x, n)
    PROVE  MovingInv'
<1>1. n \in 1..graph.size /\ UNCHANGED instance
  BY DEF NodeEvent, Nodes
<1>2. {"asking", "building", "approving"} = Waits
      /\ {"deadline", "canceled", "rejected", "threw"} \subseteq Results
  BY DEF Waits, Results, Fatal
<1>3. CASE MessageIsBuilt(x, n)
  BY <1>1, <1>2, <1>3, MovingFlight DEF MessageIsBuilt
<1>4. CASE ChatRunFails(x, n)
  BY <1>1, <1>4, MovingFails
<1>5. CASE ChatRunSucceeds(x, n)
  <2>1. flight[x][n] \in Waits
    BY <1>2, <1>5 DEF ChatRunSucceeds
  <2> QED BY <1>1, <1>2, <1>5, <2>1, MovingFlight, MovingSucceeds DEF ChatRunSucceeds
<1>6. CASE DeadlineIsFound(x, n)
  BY <1>1, <1>2, <1>6, MovingFlight DEF DeadlineIsFound, Settle
<1>7. CASE Approve(x, n)
  <2>1. flight[x][n] \in Waits
    BY <1>2, <1>7 DEF Approve
  <2> QED BY <1>1, <1>2, <1>7, <2>1, MovingFlight, MovingSucceeds DEF Approve, Settle
<1> QED BY <1>3, <1>4, <1>5, <1>6, <1>7 DEF NodeEvent, Answer

LEMMA MovingOver ==
    ASSUME WorkflowInv, MovingInv, NEW x \in Executions, NEW ex \in Records(graph), NEW f,
           Over(x, ex), flight' = [flight EXCEPT ![x] = f], UNCHANGED instance
    PROVE  MovingInv'
<1>1. PICK over : over = [ex EXCEPT !.stage = "done"]
  OBVIOUS
<1>2. over.stage = "done" /\ execs' = [execs EXCEPT ![x] = over]
  BY <1>1 DEF Over, Records
<1> QED BY <1>2, MovingStep

LEMMA MovingRace ==
    ASSUME WorkflowInv, MovingInv, NEW x \in Executions, NEW n \in Nodes, Race(x, n),
           UNCHANGED instance
    PROVE  MovingInv'
<1>1. PICK ex \in Records(graph), s \in [1..graph.size -> SessionStatuses],
           f0 \in [1..graph.size -> Flying] :
              /\ ex = execs[x] /\ s = sessions[x] /\ f0 = flight[x]
              /\ ExecOK(graph, ex, s, f0)
  BY PartsOfExecution
<1>2. ex.stage = "racing" /\ n \in 1..graph.size /\ f0[n] \in Results
  BY <1>1 DEF Race, Settled, Nodes
<1>3. PICK f : f = [f0 EXCEPT ![n] = "gone"]
  OBVIOUS
<1>4. /\ flight' = [flight EXCEPT ![x] = f] /\ f[n] = "gone"
      /\ \A m \in 1..graph.size : m # n => f[m] = f0[m]
  BY <1>1, <1>2, <1>3 DEF Race
<1>5. CASE flight[x][n] = "threw"
  BY <1>1, <1>4, <1>5, MovingOver DEF Race, CatchError
<1>6. CASE flight[x][n] # "threw"
  <2>1. PICK stage \in {"draining", "looping"} :
           /\ execs' = [execs EXCEPT ![x].stage = stage]
           /\ stage = IF f0[n] \in Fatal THEN "draining" ELSE "looping"
    BY <1>1, <1>6 DEF Race
  <2>2. PICK ex1 : ex1 = [ex EXCEPT !.stage = stage]
    OBVIOUS
  <2>3. /\ ex1.stage = stage /\ ex1.active = ex.active /\ ex1.begun = ex.begun
        /\ ex1.done = ex.done /\ ex1.decided = ex.decided
    BY <2>2 DEF Records
  <2>4. execs' = [execs EXCEPT ![x] = ex1]
    BY <1>1, <2>1, <2>2 DEF WorkflowInv, WorkflowTypes
  <2>5. ASSUME ex1.stage \in {"looping", "racing"} PROVE Moving(graph, ex1, f)
    <3>1. Moving(graph, ex, f0)
      BY <1>1, <1>2 DEF MovingInv
    <3>2. f0[n] \in {"ok", "handled"}
      BY <1>1, <1>2, <1>6, <2>1, <2>3, <2>5 DEF Results
    <3>3. n \in ex.done
      BY <1>2, <3>1, <3>2 DEF Moving
    <3>4. \A m \in ex1.begun \ ex1.done : f[m] \in Waits \union Results
      BY <1>4, <2>3, <3>1, <3>3 DEF Moving, Records
    <3>5. \A m \in 1..graph.size : f[m] \in {"ok", "handled"} => m \in ex1.done
      BY <1>4, <2>3, <3>1 DEF Moving
    <3>6. ASSUME NEW e \in graph.edges, ex1.decided[e] = "pending"
          PROVE  e[1] \in ex1.active /\ (e[1] \in ex1.done => f[e[1]] = "threw")
      <4>1. e[1] \in 1..graph.size
        BY GraphOfRun, EdgeFacts DEF WorkflowInv
      <4>2. e[1] \in ex.active /\ (e[1] \in ex.done => f0[e[1]] = "threw")
        BY <2>3, <3>1, <3>6 DEF Moving
      <4>3. e[1] \in ex.done => e[1] # n
        BY <3>2, <4>2
      <4> QED BY <1>4, <2>3, <4>1, <4>2, <4>3
    <3> QED BY <3>4, <3>5, <3>6 DEF Moving
  <2> QED BY <1>4, <2>4, <2>5, MovingStep
<1> QED BY <1>5, <1>6

LEMMA MovingStart ==
    ASSUME WorkflowInv, MovingInv, NEW x \in Executions, NEW sk \in Records(graph),
           NEW f0 \in [1..graph.size -> Flying], f0 = flight[x],
           Moving(graph, sk, f0), sk.done \subseteq sk.begun,
           NEW ready, ready \subseteq sk.active \ sk.begun, StartNodes(x, sk, ready),
           UNCHANGED instance
    PROVE  MovingInv'
<1>1. PICK started : started = IF sk.deadline = "passed" THEN "deadline"
                               ELSE IF row # "running" THEN "threw" ELSE "building"
  OBVIOUS
<1>2. started \in Waits \union Results /\ started \notin {"ok", "handled"}
  BY <1>1 DEF Waits, Results, Fatal
<1>3. PICK begun : begun = IF started = "deadline" THEN sk.begun ELSE sk.begun \union ready
  OBVIOUS
<1>4. PICK ex1 : ex1 = [sk EXCEPT !.stage = "racing", !.begun = begun]
  OBVIOUS
<1>5. PICK f : f = [n \in 1..graph.size |-> IF n \in ready THEN started ELSE f0[n]]
  OBVIOUS
<1>6. ex1.active = sk.active /\ ex1.begun = begun /\ ex1.done = sk.done /\ ex1.decided = sk.decided
  BY <1>4 DEF Records
<1>7. execs' = [execs EXCEPT ![x] = ex1] /\ flight' = [flight EXCEPT ![x] = f]
  <2>1. execs' = [execs EXCEPT ![x] =
                     [sk EXCEPT !.stage = "racing",
                                !.begun = IF started = "deadline" THEN sk.begun
                                          ELSE sk.begun \union ready]]
    BY <1>1 DEF StartNodes, Records
  <2>2. flight' = [flight EXCEPT ![x] = [n \in Nodes |->
                      IF n \in ready THEN started ELSE flight[x][n]]]
    BY <1>1 DEF StartNodes
  <2> QED BY <1>3, <1>4, <1>5, <2>1, <2>2 DEF Nodes
<1>8. Moving(graph, ex1, f)
  <2>1. ASSUME NEW n \in ex1.begun \ ex1.done PROVE f[n] \in Waits \union Results
    <3>1. n \in 1..graph.size
      BY <1>3, <1>6 DEF Records
    <3>2. n \in ready \/ n \in sk.begun \ sk.done
      BY <1>3, <1>6
    <3> QED BY <1>2, <1>5, <3>1, <3>2 DEF Moving
  <2>2. \A n \in 1..graph.size : f[n] \in {"ok", "handled"} => n \in ex1.done
    BY <1>2, <1>5, <1>6 DEF Moving
  <2>3. ASSUME NEW e \in graph.edges, ex1.decided[e] = "pending"
        PROVE  e[1] \in ex1.active /\ (e[1] \in ex1.done => f[e[1]] = "threw")
    <3>1. e[1] \in 1..graph.size
      BY GraphOfRun, EdgeFacts DEF WorkflowInv
    <3>2. e[1] \in sk.active /\ (e[1] \in sk.done => f0[e[1]] = "threw")
      BY <1>6, <2>3 DEF Moving
    <3>3. e[1] \in sk.done => e[1] \notin ready
      OBVIOUS
    <3> QED BY <1>5, <1>6, <3>1, <3>2, <3>3
  <2> QED BY <2>1, <2>2, <2>3 DEF Moving
<1> QED BY <1>7, <1>8, MovingStep

\* Skipping keeps a scheduler moving.
LEMMA MovingSkip ==
    ASSUME WorkflowInv, MovingInv, NEW x \in Executions, execs[x].stage = "looping",
           NEW sk, sk = Skip(execs[x])
    PROVE  /\ sk \in Records(graph) /\ Moving(graph, sk, flight[x])
           /\ sk.done \subseteq sk.begun /\ sk.begun \subseteq sk.active
           /\ \A n \in sk.active \ sk.begun : Verdict(graph, sk.decided, n) # "skipped"
<1>1. PICK ex \in Records(graph), s \in [1..graph.size -> SessionStatuses],
           f \in [1..graph.size -> Flying] :
              /\ ex = execs[x] /\ s = sessions[x] /\ f = flight[x]
              /\ ExecOK(graph, ex, s, f)
  BY PartsOfExecution
<1>2. IsGraph(graph) /\ sk = Skip(ex)
  BY <1>1, GraphOfRun DEF WorkflowInv
<1>3. /\ sk \in Records(graph) /\ sk.active = ex.active
      /\ ExecOK(graph, sk, s, f)
      /\ ex.done \subseteq sk.done
      /\ \A n \in sk.active \ sk.begun : Verdict(graph, sk.decided, n) # "skipped"
      /\ sk.begun \ sk.done = ex.begun \ ex.done
      /\ \A e \in graph.edges : sk.decided[e] = "pending" =>
            ex.decided[e] = "pending" /\ (e[1] \in sk.done => e[1] \in ex.done)
  BY <1>1, <1>2, SkipFacts
<1>4. Moving(graph, ex, f)
  BY <1>1 DEF MovingInv
<1>5. Moving(graph, sk, f)
  BY <1>3, <1>4 DEF Moving
<1> QED BY <1>1, <1>3, <1>5 DEF ExecOK

LEMMA MovingSchedule ==
    ASSUME WorkflowInv, MovingInv, NEW x \in Executions, Schedule(x)
    PROVE  MovingInv'
<1>1. PICK ex \in Records(graph), s \in [1..graph.size -> SessionStatuses],
           f \in [1..graph.size -> Flying] :
              /\ ex = execs[x] /\ s = sessions[x] /\ f = flight[x]
              /\ ExecOK(graph, ex, s, f)
  BY PartsOfExecution
<1>2. UNCHANGED flight => flight' = [flight EXCEPT ![x] = f]
  BY <1>1 DEF WorkflowInv, WorkflowTypes
<1>3. UNCHANGED instance
  BY DEF Schedule
<1>4. CASE execs[x].stage = "looping" /\ Iterate(x)
  <2>1. PICK sk : sk = Skip(execs[x])
    OBVIOUS
  <2>2. /\ sk \in Records(graph) /\ Moving(graph, sk, flight[x])
        /\ sk.done \subseteq sk.begun
    BY <1>4, <2>1, MovingSkip
  <2>3. PICK ready : ready = {n \in sk.active \ sk.begun: Joined(sk.decided, n) = "ready"}
    OBVIOUS
  <2>4. \/ Over(x, sk) /\ UNCHANGED flight
        \/ StartNodes(x, sk, ready)
    BY <1>4, <2>1, <2>3 DEF Iterate, CatchError, FailRun, Complete
  <2> QED BY <1>1, <1>2, <1>3, <2>2, <2>3, <2>4, MovingOver, MovingStart
<1>5. CASE \E n \in Nodes : Race(x, n)
  BY <1>3, <1>5, MovingRace
<1>6. CASE Drained(x)
  BY <1>1, <1>2, <1>3, <1>6, MovingOver DEF Drained, FailRun
<1> QED BY <1>4, <1>5, <1>6 DEF Schedule

LEMMA MovingLaunch ==
    ASSUME WorkflowInv, MovingInv, NEW x \in Executions, execs[x].stage = "none",
           NEW active, active \subseteq Nodes, NEW boundary, NEW deadline,
           \A e \in DOMAIN boundary : boundary[e] \in {"taken", "not_taken"},
           Launch(x, active, boundary, deadline), UNCHANGED <<instance, flight>>
    PROVE  MovingInv'
<1>1. PICK decided : decided = [e \in graph.edges |->
                         IF e[1] \in active /\ e[2] \in active THEN "pending"
                         ELSE IF e \in DOMAIN boundary THEN boundary[e] ELSE "absent"]
  OBVIOUS
<1>2. PICK ex : ex = [NoExecution EXCEPT !.stage = "looping", !.active = active,
                                         !.deadline = deadline, !.decided = decided]
  OBVIOUS
<1>3. ex.active = active /\ ex.decided = decided /\ ex.begun = {} /\ ex.done = {}
  BY <1>2 DEF NoExecution
<1>4. execs' = [execs EXCEPT ![x] = ex]
  BY <1>1, <1>2 DEF Launch
<1>5. PICK f \in [1..graph.size -> Flying] : f = flight[x]
  BY PartsOfExecution
<1>6. flight' = [flight EXCEPT ![x] = f]
  BY <1>5 DEF WorkflowInv, WorkflowTypes
<1>7. \A n \in 1..graph.size : f[n] = "none"
  BY <1>5 DEF WorkflowInv, ExecInv, ExecOK
<1>8. \A e \in graph.edges : decided[e] = "pending" => e[1] \in active
  BY <1>1
<1>9. Moving(graph, ex, f)
  BY <1>3, <1>7, <1>8 DEF Moving
<1> QED BY <1>4, <1>6, <1>9, MovingStep

LEMMA MovingRunNow ==
    ASSUME WorkflowInv, MovingInv, RunNow
    PROVE  MovingInv'
<1>1. 1 \in Executions
  BY WorkflowAssumption DEF Executions
<1>2. execs[1].stage = "none" /\ UNCHANGED <<instance, flight>>
  BY <1>1 DEF RunNow, WorkflowInv, LaunchInv
<1>3. PICK deadline : Launch(1, ReachableFrom(graph.start), [e \in {} |-> "absent"], deadline)
  BY DEF RunNow
<1>4. PICK active : active = ReachableFrom(graph.start) /\ active \subseteq Nodes
  BY DEF ReachableFrom
<1>5. PICK boundary : boundary = [e \in {} |-> "absent"] /\ DOMAIN boundary = {}
  OBVIOUS
<1>6. Launch(1, active, boundary, deadline)
  BY <1>3, <1>4, <1>5
<1> QED BY <1>1, <1>2, <1>4, <1>5, <1>6, MovingLaunch

LEMMA MovingRerun ==
    ASSUME WorkflowInv, MovingInv, NEW x \in Executions, NEW n \in Nodes,
           NEW preserve \in BOOLEAN, Rerun(x, n, preserve)
    PROVE  MovingInv'
<1>1. PICK active : active = Activated(n, preserve) /\ active \subseteq Nodes
  BY DEF Activated
<1>2. PICK bound : bound = Boundary(n, preserve, active)
  OBVIOUS
<1>3. PICK boundary : boundary = [e \in bound |-> Evidence(e)]
  OBVIOUS
<1>4. \A e \in bound : HasEvidence(e)
  BY <1>1, <1>2 DEF Rerun
<1>5. PICK deadline : Launch(x, active, boundary, deadline)
  BY <1>1, <1>2, <1>3 DEF Rerun
<1>6. \A e \in DOMAIN boundary : boundary[e] \in {"taken", "not_taken"}
  BY <1>3, <1>4 DEF HasEvidence
<1>7. execs[x].stage = "none" /\ UNCHANGED <<instance, flight>>
  BY DEF Rerun
<1> QED BY <1>1, <1>5, <1>6, <1>7, MovingLaunch

LEMMA MovingHalt ==
    ASSUME WorkflowInv, MovingInv, Halt, UNCHANGED <<instance, execs>>
    PROVE  MovingInv'
<1>1. graph' = graph /\ Nodes = 1..graph.size
  BY GraphOfRun DEF graph, WorkflowInv
<1>2. \A x \in Executions, n \in 1..graph.size :
         flight'[x][n] = IF flight[x][n] = "approving" THEN "canceled" ELSE flight[x][n]
  BY <1>1 DEF Halt
<1>3. ASSUME NEW x \in Executions, execs[x].stage \in {"looping", "racing"}
      PROVE  Moving(graph, execs[x], flight'[x])
  <2>1. Moving(graph, execs[x], flight[x])
    BY <1>3 DEF MovingInv
  <2>2. "canceled" \in Results
    BY DEF Results, Fatal
  <2>3. execs[x].begun \subseteq 1..graph.size
    BY DEF WorkflowInv, WorkflowTypes, Records
  <2>4. \A n \in execs[x].begun \ execs[x].done : flight'[x][n] \in Waits \union Results
    BY <1>2, <2>1, <2>2, <2>3 DEF Moving
  <2>5. \A n \in 1..graph.size : flight'[x][n] \in {"ok", "handled"} => n \in execs[x].done
    BY <1>2, <2>1 DEF Moving
  <2>6. \A e \in graph.edges : e[1] \in 1..graph.size
    BY GraphOfRun, EdgeFacts DEF WorkflowInv
  <2>7. \A e \in graph.edges : execs[x].decided[e] = "pending" =>
           e[1] \in execs[x].active /\ (e[1] \in execs[x].done => flight'[x][e[1]] = "threw")
    BY <1>2, <2>1, <2>6 DEF Moving
  <2> QED BY <2>4, <2>5, <2>7 DEF Moving
<1> QED BY <1>1, <1>3 DEF MovingInv

LEMMA MovingSame ==
    ASSUME MovingInv, UNCHANGED <<instance, execs, flight>>
    PROVE  MovingInv'
<1>1. graph' = graph
  BY DEF graph
<1> QED BY <1>1 DEF MovingInv

LEMMA MovingNext ==
    ASSUME WorkflowInv, MovingInv, [WorkflowNext]_workflowVars
    PROVE  MovingInv'
<1>1. CASE UNCHANGED workflowVars
  BY <1>1, MovingSame DEF workflowVars
<1>2. ASSUME NEW x \in Executions, Schedule(x) PROVE MovingInv'
  BY <1>2, MovingSchedule
<1>3. ASSUME NEW x \in Executions, DeadlinePasses(x) PROVE MovingInv'
  <2>1. PICK ex0 \in Records(graph), f \in [1..graph.size -> Flying] :
           ex0 = execs[x] /\ f = flight[x]
    BY PartsOfExecution
  <2>2. PICK ex : ex = [ex0 EXCEPT !.deadline = "passed"]
    OBVIOUS
  <2>3. /\ ex.stage = ex0.stage /\ ex.active = ex0.active /\ ex.begun = ex0.begun
        /\ ex.done = ex0.done /\ ex.decided = ex0.decided
    BY <2>2 DEF Records
  <2>4. /\ execs' = [execs EXCEPT ![x] = ex] /\ flight' = [flight EXCEPT ![x] = f]
        /\ UNCHANGED instance
    BY <1>3, <2>1, <2>2 DEF DeadlinePasses, WorkflowInv, WorkflowTypes
  <2>5. ex.stage \in {"looping", "racing"} => Moving(graph, ex, f)
    BY <2>1, <2>3 DEF MovingInv, Moving
  <2> QED BY <2>4, <2>5, MovingStep
<1>4. ASSUME NEW x \in Executions, NEW n \in Nodes, NodeEvent(x, n) PROVE MovingInv'
  BY <1>4, MovingNodeEvent
<1>5. CASE RunNow
  BY <1>5, MovingRunNow
<1>6. ASSUME NEW x \in Executions, NEW n \in Nodes, NEW preserve \in BOOLEAN, Rerun(x, n, preserve)
      PROVE  MovingInv'
  BY <1>6, MovingRerun
<1>7. CASE Stop
  BY <1>7, MovingHalt DEF Stop
<1>8. CASE DeleteRun
  BY <1>8, MovingHalt, MovingSame DEF DeleteRun
<1>9. CASE RestartServer
  <2>1. \A x \in Executions : execs'[x].stage \notin {"looping", "racing"}
    <3>1. \A x \in Executions : execs'[x] = IF Executing(x) THEN [execs[x] EXCEPT !.stage = "done"]
                                            ELSE execs[x]
      BY <1>9 DEF RestartServer
    <3>2. \A x \in Executions : execs[x] \in Records(graph)
      BY DEF WorkflowInv, WorkflowTypes
    <3> QED BY <3>1, <3>2 DEF Executing, Records
  <2> QED BY <2>1 DEF MovingInv
<1>10. CASE DeletionEnds
  BY <1>10, MovingSame DEF DeletionEnds
<1>11. CASE Request
  BY <1>5, <1>6, <1>7, <1>8, <1>9, <1>11 DEF Request
<1> QED BY <1>1, <1>2, <1>3, <1>4, <1>10, <1>11 DEF WorkflowNext

LEMMA MovingInit ==
    ASSUME WorkflowInit
    PROVE  MovingInv
BY DEF WorkflowInit, NoExecution, MovingInv

LEMMA MovingIsNotBlocked ==
    ASSUME WorkflowInv, MovingInv
    PROVE  NeverBlocked
<1> SUFFICES ASSUME NEW x \in Executions, execs[x].stage = "looping", NEW ex, ex = Skip(execs[x]),
                    ex.done # ex.active, InFlight(x) = {},
                    \A n \in ex.active \ ex.begun : Joined(ex.decided, n) # "ready"
             PROVE  FALSE
  BY DEF NeverBlocked
<1>1. /\ ex \in Records(graph) /\ Moving(graph, ex, flight[x])
      /\ ex.done \subseteq ex.begun /\ ex.begun \subseteq ex.active
      /\ \A n \in ex.active \ ex.begun : Verdict(graph, ex.decided, n) # "skipped"
  BY MovingSkip
<1>2. /\ graph.size \in Nat /\ Nodes = 1..graph.size
      /\ \A e \in graph.edges : e[1] \in 1..graph.size /\ e[1] < e[2]
  BY GraphOfRun, EdgeFacts DEF WorkflowInv
<1>3. \A n \in 1..graph.size : flight[x][n] \notin Waits \union Results
  BY <1>2 DEF InFlight
<1>4. /\ ex.active \ ex.done \in SUBSET Nat /\ ex.active \ ex.done # {}
      /\ ex.active \subseteq 1..graph.size
  <2>1. ex.active \subseteq 1..graph.size /\ ex.done \subseteq ex.active
    BY <1>1 DEF Records
  <2>2. \A m \in 1..graph.size : m \in Nat
    BY <1>2
  <2> QED BY <2>1, <2>2
<1>5. PICK n \in ex.active \ ex.done : \A m \in ex.active \ ex.done : n <= m
  BY <1>4, LeastNumber
<1>6. n \notin ex.begun
  BY <1>1, <1>3, <1>4, <1>5 DEF Moving
<1>7. Verdict(graph, ex.decided, n) \notin {"ready", "skipped"}
  BY <1>1, <1>5, <1>6, VerdictIsJoined
<1>8. PICK e \in graph.edges : e[2] = n /\ ex.decided[e] = "pending"
  BY <1>7 DEF Verdict, Join
<1>9. e[1] \in ex.active /\ (e[1] \in ex.done => flight[x][e[1]] = "threw")
  BY <1>1, <1>8 DEF Moving
<1>10. e[1] \in ex.done
  <2>1. ~(n <= e[1])
    BY <1>2, <1>4, <1>5, <1>8
  <2> QED BY <1>5, <1>9, <2>1
<1>11. "threw" \in Results
  BY DEF Results
<1> QED BY <1>2, <1>3, <1>8, <1>9, <1>10, <1>11

\* A scheduler never finds itself with active nodes left, none in flight and none to start:
\* in a graph without loops the error "workflow graph contains a cycle or blocked
\* dependency" is not reached, by a first execution or by a rerun, whatever is decided.
THEOREM SchedulerIsNeverBlocked == WorkflowSpec => []NeverBlocked
<1>1. WorkflowInit => MovingInv
  BY MovingInit
<1>2. WorkflowInv /\ MovingInv /\ [WorkflowNext]_workflowVars => MovingInv'
  BY MovingNext
<1>3. WorkflowInv /\ MovingInv => NeverBlocked
  BY MovingIsNotBlocked
<1> QED BY <1>1, <1>2, <1>3, WorkflowSpecInv, PTL DEF WorkflowSpec
=============================================================================
