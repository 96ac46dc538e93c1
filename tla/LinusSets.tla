----------------------------- MODULE LinusSets -----------------------------
(***************************************************************************)
(* What the application Linus computes (apps/linus.h): the projects and    *)
(* the users within some degrees of one user.  The commits are spread over *)
(* the nodes.  Every node keeps the sets of all projects and users tagged  *)
(* so far and scans only its own commits; the nodes trade only what is     *)
(* new, through frames of the store that node 0 merges.                    *)
(*                                                                         *)
(* A frame is here all or nothing and get_and_wait() blocks until it is    *)
(* there: the modules Apps and KVStore are about how that comes about.     *)
(***************************************************************************)
EXTENDS Naturals, FiniteSets

CONSTANTS
  NumNodes,  \* arg.num_nodes
  NumProjects, \* projects->nrows(): the capacity of a set of projects
  NumUsers,  \* users->nrows(): the capacity of a set of users
  Linus,     \* Linus::LINUS
  Degrees,   \* Linus::DEGREES
  Commits,   \* the rows of the commits' frame, [pid, uid]
  Nil

ASSUME NumNodesAssumption == NumNodes \in Nat \ {0}
ASSUME DegreesAssumption == Degrees \in Nat

Nodes == 0 .. NumNodes - 1
Master == 0
Names == {"projects", "users"}
FrameKeys == Names \X (0 .. Degrees) \X Nodes

VARIABLES
  local,   \* node |-> the commits in chunks stored on it
  frames,  \* key |-> the set in the frame put under it, or Nil
  stage,   \* node |-> the degrees it has completed
  at,      \* node |-> "read" the new users, "tag" what is new, or "merge" it
  name,    \* node |-> what it tags or merges
  next,    \* node |-> how far it is in merge()
  delta,   \* node |-> the users added in the previous round
  found,   \* node |-> ptagger.newProjects and utagger.newUsers
  known    \* node |-> pSet and uSet

vars == <<local, frames, stage, at, name, next, delta, found, known>>

Nothing == [x \in Names |-> {}]

\* readInput(): the commits are spread over the nodes anyhow.
Init ==
  /\ \E place \in [Commits -> Nodes] :
       local = [n \in Nodes |-> {c \in Commits : place[c] = n}]
  /\ frames = [k \in FrameKeys |-> IF k = <<"users", 0, Master>> THEN {Linus} ELSE Nil]
  /\ stage = [n \in Nodes |-> 0]
  /\ at = [n \in Nodes |-> "read"]
  /\ name = [n \in Nodes |-> "projects"]
  /\ next = [n \in Nodes |-> 1]
  /\ delta = [n \in Nodes |-> {}]
  /\ found = [n \in Nodes |-> Nothing]
  /\ known = [n \in Nodes |-> Nothing]

-----------------------------------------------------------------------------
\* step()

Capacity == [projects |-> NumProjects, users |-> NumUsers]

\* Set::set() ignores what is out of bounds, and Set::test() does not find it.
InBounds(x, S) == {i \in S : i < Capacity[x]}

ReadDelta(n) ==
  LET k == <<"users", stage[n], Master>>
  IN  /\ at[n] = "read"
      /\ stage[n] < Degrees
      /\ frames[k] # Nil
      /\ delta' = [delta EXCEPT ![n] = InBounds("users", frames[k])]
      /\ found' = [found EXCEPT ![n] = Nothing]
      /\ at' = [at EXCEPT ![n] = "tag"]
      /\ UNCHANGED <<local, frames, stage, name, next, known>>

\* ProjectsTagger and UsersTagger
Tagged(n) ==
  IF name[n] = "projects"
  THEN InBounds("projects", {c.pid : c \in {d \in local[n] : d.uid \in delta[n]}})
         \ known[n]["projects"]
  ELSE InBounds("users", {c.uid : c \in {d \in local[n] : d.pid \in found[n]["projects"]}})
         \ known[n]["users"]

Tag(n) ==
  /\ at[n] = "tag"
  /\ found' = [found EXCEPT ![n][name[n]] = Tagged(n)]
  /\ known' = [known EXCEPT ![n][name[n]] = @ \cup Tagged(n)]
  /\ at' = [at EXCEPT ![n] = "merge"]
  /\ next' = [next EXCEPT ![n] = 1]
  /\ UNCHANGED <<local, frames, stage, name, delta>>

\* What follows merge(): the union with the node's own set, then the users or the
\* next degree.
AfterMerge(n, set) ==
  /\ found' = [found EXCEPT ![n][name[n]] = set]
  /\ known' = [known EXCEPT ![n][name[n]] = @ \cup set]
  /\ IF name[n] = "projects"
       THEN /\ name' = [name EXCEPT ![n] = "users"]
            /\ at' = [at EXCEPT ![n] = "tag"]
            /\ UNCHANGED stage
       ELSE /\ name' = [name EXCEPT ![n] = "projects"]
            /\ at' = [at EXCEPT ![n] = "read"]
            /\ stage' = [stage EXCEPT ![n] = @ + 1]

-----------------------------------------------------------------------------
\* merge()

\* Mutation: the users of a round are put under the number of that round.
MergeKeyOfStage(n, i) == <<name[n], stage[n], i>>

\* The frame of node i in the merge that node n is in.
MergeKey(n, i) == <<name[n], IF name[n] = "users" THEN stage[n] + 1 ELSE stage[n], i>>

\* The master adds the sets of the other nodes, in order,
Gather ==
  LET k == MergeKey(Master, next[Master])
  IN  /\ at[Master] = "merge"
      /\ next[Master] < NumNodes
      /\ frames[k] # Nil
      /\ found' = [found EXCEPT ![Master][name[Master]] = @ \cup frames[k]]
      /\ next' = [next EXCEPT ![Master] = @ + 1]
      /\ UNCHANGED <<local, frames, stage, at, name, delta, known>>

\* and puts the union.
PutUnion ==
  /\ at[Master] = "merge"
  /\ next[Master] = NumNodes
  /\ frames' = [frames EXCEPT ![MergeKey(Master, Master)] = found[Master][name[Master]]]
  /\ AfterMerge(Master, found[Master][name[Master]])
  /\ UNCHANGED <<local, next, delta>>

\* Mutation: a node puts its set when it has seen the union.
PutDeltaLate(n) ==
  /\ n # Master
  /\ at[n] = "merge"
  /\ next[n] = 1
  /\ frames[MergeKey(n, Master)] # Nil
  /\ frames' = [frames EXCEPT ![MergeKey(n, n)] = found[n][name[n]]]
  /\ next' = [next EXCEPT ![n] = 2]
  /\ UNCHANGED <<local, stage, at, name, delta, found, known>>

\* The others put their set
PutDelta(n) ==
  /\ n # Master
  /\ at[n] = "merge"
  /\ next[n] = 1
  /\ frames' = [frames EXCEPT ![MergeKey(n, n)] = found[n][name[n]]]
  /\ next' = [next EXCEPT ![n] = 2]
  /\ UNCHANGED <<local, stage, at, name, delta, found, known>>

\* Mutation: the union is not copied into the set that merge() was given.
KeepOwnSet(n) ==
  /\ n # Master
  /\ at[n] = "merge"
  /\ next[n] = 2
  /\ frames[MergeKey(n, Master)] # Nil
  /\ AfterMerge(n, found[n][name[n]])
  /\ UNCHANGED <<local, frames, next, delta>>

\* and wait for the union.
GetUnion(n) ==
  /\ n # Master
  /\ at[n] = "merge"
  /\ next[n] = 2
  /\ frames[MergeKey(n, Master)] # Nil
  /\ AfterMerge(n, found[n][name[n]] \cup frames[MergeKey(n, Master)])
  /\ UNCHANGED <<local, frames, next, delta>>

-----------------------------------------------------------------------------
Step(n) ==
  \/ ReadDelta(n) \/ Tag(n)
  \/ n = Master /\ (Gather \/ PutUnion)
  \/ PutDelta(n) \/ GetUnion(n)

Next == \E n \in Nodes : Step(n)

\* Every node's application runs on.
Fairness == \A n \in Nodes : WF_vars(Step(n))

Spec == Init /\ [][Next]_vars /\ Fairness

-----------------------------------------------------------------------------
\* The definition: s times from users to all their projects and from projects to
\* all their users, over all the commits at once and without deltas.  Only the rows
\* of the projects' and of the users' frame are projects and users.
ProjectsOf(us) == InBounds("projects", {c.pid : c \in {d \in Commits : d.uid \in us}})
UsersOf(ps) == InBounds("users", {c.uid : c \in {d \in Commits : d.pid \in ps}})

Reached[s \in 0 .. Degrees] ==
  IF s = 0 THEN Nothing
  ELSE LET ps == ProjectsOf(Reached[s - 1]["users"] \cup InBounds("users", {Linus}))
       IN  [x \in Names |-> IF x = "projects" THEN ps ELSE UsersOf(ps)]

\* Trading deltas gives every node, after each degree, all the projects and users
\* of that degree, wherever the commits are.
DegreesOfLinus == \A n \in Nodes : at[n] = "read" => known[n] = Reached[stage[n]]

\* A frame is never put twice under one key: a reader cannot find the set of
\* another round.
FramesWrittenOnce == [][\A k \in FrameKeys : frames[k] # Nil => frames'[k] = frames[k]]_vars

\* No merge makes nodes wait for each other: every node completes all degrees.
AllDegreesDone == <>(\A n \in Nodes : stage[n] = Degrees)

=============================================================================
