-------------------------- MODULE LinusSetsProofs --------------------------
(***************************************************************************)
(* Proofs about LinusSets for any number of nodes and degrees, any users   *)
(* and commits, and however the commits are spread over the nodes.         *)
(***************************************************************************)
EXTENDS LinusSets, WellOrdering

USE NumNodesAssumption, DegreesAssumption DEF Nodes, Master, Names

-----------------------------------------------------------------------------
\* The definition Reached, by its equations.

\* One degree further than the sets v.
Further(v) ==
  [x \in Names |->
     LET ps == ProjectsOf(v["users"] \cup InBounds("users", {Linus}))
     IN  IF x = "projects" THEN ps ELSE UsersOf(ps)]

\* f lists the sets of the first n degrees.
Lists(f, n) == f = [s \in 0 .. n |-> IF s = 0 THEN Nothing ELSE Further(f[s - 1])]

LEMMA ListsExist == \A n \in Nat : \E f : Lists(f, n)
<1> DEFINE S == {n \in Nat : \E f : Lists(f, n)}
<1>1. 0 \in S
  <2> DEFINE f == [s \in 0 .. 0 |-> Nothing]
  <2>1. Lists(f, 0)
    BY DEF Lists
  <2> QED
    BY <2>1
<1>2. ASSUME NEW n \in Nat, n \in S PROVE n + 1 \in S
  <2>1. PICK f : Lists(f, n)
    BY <1>2
  <2> DEFINE g == [s \in 0 .. n + 1 |-> IF s = n + 1 THEN Further(f[n]) ELSE f[s]]
  <2>2. \A s \in 0 .. n + 1 : g[s] = IF s = 0 THEN Nothing ELSE Further(g[s - 1])
    BY <2>1 DEF Lists
  <2>3. Lists(g, n + 1)
    BY <2>2 DEF Lists
  <2> QED
    BY <2>3
<1> HIDE DEF S
<1>3. Nat \subseteq S
  BY <1>1, <1>2, SetInduction
<1> QED
  BY <1>3 DEF S

LEMMA ReachedEquations ==
  /\ Reached[0] = Nothing
  /\ \A s \in 1 .. Degrees : Reached[s] = Further(Reached[s - 1])
<1> DEFINE R == CHOOSE f : Lists(f, Degrees)
<1>1. Lists(R, Degrees)
  BY ListsExist
<1>2. Reached = R
  BY DEF Reached, Lists, Further
<1>3. Lists(Reached, Degrees)
  BY <1>1, <1>2
<1> QED
  BY <1>3 DEF Lists

\* The projects and the users within t degrees.
P(t) == Reached[t]["projects"]
U(t) == Reached[t]["users"]

LEMMA ReachedSets ==
  /\ Reached[0] = Nothing /\ P(0) = {} /\ U(0) = {}
  /\ \A t \in 0 .. Degrees - 1 :
       /\ P(t + 1) = ProjectsOf(U(t) \cup InBounds("users", {Linus}))
       /\ U(t + 1) = UsersOf(P(t + 1))
       /\ Reached[t + 1] = Further(Reached[t])
<1>1. Reached[0] = Nothing /\ P(0) = {} /\ U(0) = {}
  BY ReachedEquations DEF Nothing, P, U
<1>2. ASSUME NEW t \in 0 .. Degrees - 1
      PROVE  /\ P(t + 1) = ProjectsOf(U(t) \cup InBounds("users", {Linus}))
             /\ U(t + 1) = UsersOf(P(t + 1))
             /\ Reached[t + 1] = Further(Reached[t])
  <2>1. t + 1 \in 1 .. Degrees /\ t + 1 - 1 = t
    OBVIOUS
  <2>2. Reached[t + 1] = Further(Reached[t])
    BY <2>1, ReachedEquations
  <2> QED
    BY <2>2 DEF Further, P, U
<1> QED
  BY <1>1, <1>2

\* A degree loses nothing of the one before.
LEMMA ReachedGrows ==
  \A t \in 0 .. Degrees - 1 : P(t) \subseteq P(t + 1) /\ U(t) \subseteq U(t + 1)
<1> DEFINE Grows(t) == P(t) \subseteq P(t + 1) /\ U(t) \subseteq U(t + 1)
           S == {t \in Nat : t < Degrees => Grows(t)}
<1>1. 0 \in S
  BY ReachedSets
<1>2. ASSUME NEW t \in Nat, t \in S PROVE t + 1 \in S
  <2> SUFFICES ASSUME t + 1 < Degrees PROVE Grows(t + 1)
    OBVIOUS
  <2>1. t \in 0 .. Degrees - 1 /\ t + 1 \in 0 .. Degrees - 1
    OBVIOUS
  <2>2. U(t) \subseteq U(t + 1)
    BY <1>2, <2>1
  <2>3. P(t + 1) \subseteq P(t + 1 + 1)
    <3>1. P(t + 1) = ProjectsOf(U(t) \cup InBounds("users", {Linus}))
      BY <2>1, ReachedSets
    <3>2. P(t + 1 + 1) = ProjectsOf(U(t + 1) \cup InBounds("users", {Linus}))
      BY <2>1, ReachedSets
    <3> QED
      BY <2>2, <3>1, <3>2 DEF ProjectsOf, InBounds
  <2>4. U(t + 1) \subseteq U(t + 1 + 1)
    <3>1. U(t + 1) = UsersOf(P(t + 1)) /\ U(t + 1 + 1) = UsersOf(P(t + 1 + 1))
      BY <2>1, ReachedSets
    <3> QED
      BY <2>3, <3>1 DEF UsersOf, InBounds
  <2> QED
    BY <2>3, <2>4
<1> HIDE DEF S
<1>3. Nat \subseteq S
  BY <1>1, <1>2, SetInduction
<1> QED
  BY <1>3 DEF S

-----------------------------------------------------------------------------
\* What is new in a degree.  Projects are found in round t, users in the round
\* before degree t; Linus is where the first round begins.
NewProjects(t) == P(t + 1) \ P(t)
NewUsers(t) == IF t = 0 THEN {Linus} ELSE U(t) \ U(t - 1)

\* What node n contributes to that.
OwnProjects(n, t) ==
  InBounds("projects", {c.pid : c \in {d \in local[n] : d.uid \in InBounds("users", NewUsers(t))}})
    \ P(t)
OwnUsers(n, t) ==
  InBounds("users", {c.uid : c \in {d \in local[n] : d.pid \in NewProjects(t - 1)}}) \ U(t - 1)

New(x, t) == IF x = "projects" THEN NewProjects(t) ELSE NewUsers(t)
Own(n, x, t) == IF x = "projects" THEN OwnProjects(n, t) ELSE OwnUsers(n, t)

CommitsPlaced == Commits = UNION {local[n] : n \in Nodes}

\* It is enough to follow the users of the last degree: the others' projects are
\* known.
LEMMA ProjectsOfNewUsers ==
  ASSUME NEW t \in 0 .. Degrees - 1
  PROVE  NewProjects(t) = ProjectsOf(InBounds("users", NewUsers(t))) \ P(t)
<1>1. CASE t = 0
  BY <1>1, ReachedSets DEF NewProjects, NewUsers
<1>2. CASE t # 0
  <2>1. t - 1 \in 0 .. Degrees - 1 /\ t - 1 + 1 = t
    BY <1>2
  <2>2. P(t) = ProjectsOf(U(t - 1) \cup InBounds("users", {Linus}))
    BY <2>1, ReachedSets
  <2>3. P(t + 1) = ProjectsOf(U(t) \cup InBounds("users", {Linus}))
    BY ReachedSets
  <2>4. U(t) = UsersOf(P(t))
    BY <2>1, ReachedSets
  <2>5. InBounds("users", NewUsers(t)) = U(t) \ U(t - 1)
    BY <1>2, <2>4 DEF NewUsers, InBounds, UsersOf
  <2> QED
    BY <2>2, <2>3, <2>5 DEF NewProjects, ProjectsOf, InBounds
<1> QED
  BY <1>1, <1>2

LEMMA UsersOfNewProjects ==
  ASSUME NEW t \in 0 .. Degrees - 1
  PROVE  NewUsers(t + 1) = UsersOf(NewProjects(t)) \ U(t)
<1>1. NewUsers(t + 1) = U(t + 1) \ U(t)
  BY DEF NewUsers
<1>2. U(t + 1) = UsersOf(P(t + 1))
  BY ReachedSets
<1>3. P(t) \subseteq P(t + 1)
  BY ReachedGrows
<1>4. UsersOf(P(t)) = U(t)
  <2>1. CASE t = 0
    BY <2>1, ReachedSets DEF UsersOf, InBounds
  <2>2. CASE t # 0
    <3>1. t - 1 \in 0 .. Degrees - 1 /\ t - 1 + 1 = t
      BY <2>2
    <3> QED
      BY <3>1, ReachedSets
  <2> QED
    BY <2>1, <2>2
<1> QED
  BY <1>1, <1>2, <1>3, <1>4 DEF NewProjects, UsersOf, InBounds

\* The nodes together find what is new, wherever the commits are.
LEMMA NodesFindAll ==
  ASSUME CommitsPlaced, NEW t \in 0 .. Degrees - 1
  PROVE  /\ NewProjects(t) = UNION {OwnProjects(n, t) : n \in Nodes}
         /\ NewUsers(t + 1) = UNION {OwnUsers(n, t + 1) : n \in Nodes}
<1>1. NewProjects(t) = UNION {OwnProjects(n, t) : n \in Nodes}
  BY ProjectsOfNewUsers DEF CommitsPlaced, OwnProjects, ProjectsOf, InBounds
<1>2. t + 1 - 1 = t
  OBVIOUS
<1>3. NewUsers(t + 1) = UNION {OwnUsers(n, t + 1) : n \in Nodes}
  BY <1>2, UsersOfNewProjects DEF CommitsPlaced, OwnUsers, UsersOf, InBounds
<1> QED
  BY <1>1, <1>3

-----------------------------------------------------------------------------
\* The invariant.  Every frame holds what belongs under its key, and what a node
\* knows depends only on how far it is.

Items == {Linus} \cup {c.pid : c \in Commits} \cup {c.uid : c \in Commits}

Types ==
  /\ local \in [Nodes -> SUBSET Commits]
  /\ frames \in [FrameKeys -> (SUBSET Items) \cup {Nil}]
  /\ stage \in [Nodes -> 0 .. Degrees]
  /\ at \in [Nodes -> {"read", "tag", "merge"}]
  /\ name \in [Nodes -> Names]
  /\ next \in [Nodes -> Nat]
  /\ delta \in [Nodes -> SUBSET Items]
  /\ found \in [Nodes -> [Names -> SUBSET Items]]
  /\ known \in [Nodes -> [Names -> SUBSET Items]]

\* The master puts the union, the others what they found.
FramesRight ==
  \A x \in Names, t \in 0 .. Degrees, n \in Nodes :
    frames[<<x, t, n>>] # Nil =>
      frames[<<x, t, n>>] = IF n = Master THEN New(x, t) ELSE Own(n, x, t)

\* The round of the key that n merges under.
Round(n) == IF name[n] = "users" THEN stage[n] + 1 ELSE stage[n]

\* What a node has found on its own, and the master from the nodes so far.
Heard(n) == IF n = Master THEN {Master} \cup 1 .. next[Master] - 1 ELSE {n}
Gathered(n) == UNION {Own(i, name[n], Round(n)) : i \in Heard(n)}

Knows(n, ps, us) == known[n]["projects"] = ps /\ known[n]["users"] = us

Reading(n) == name[n] = "projects" /\ known[n] = Reached[stage[n]]
Tagging(n) ==
  /\ stage[n] < Degrees
  /\ IF name[n] = "projects"
       THEN /\ delta[n] = InBounds("users", NewUsers(stage[n]))
            /\ Knows(n, P(stage[n]), U(stage[n]))
       ELSE /\ found[n]["projects"] = NewProjects(stage[n])
            /\ Knows(n, P(stage[n] + 1), U(stage[n]))
Merging(n) ==
  /\ stage[n] < Degrees
  /\ found[n][name[n]] = Gathered(n)
  /\ LET own == Own(n, name[n], Round(n))
     IN  IF name[n] = "projects"
         THEN Knows(n, P(stage[n]) \cup own, U(stage[n]))
         ELSE Knows(n, P(stage[n] + 1), U(stage[n]) \cup own)
  /\ n = Master => next[n] \in 1 .. NumNodes

InStep(n) ==
  /\ at[n] = "read" => Reading(n)
  /\ at[n] = "tag" => Tagging(n)
  /\ at[n] = "merge" => Merging(n)

NodesInStep == \A n \in Nodes : InStep(n)

IInv == Types /\ CommitsPlaced /\ FramesRight /\ NodesInStep

\* Nobody has done anything yet.
LEMMA InitInv == Init => IInv
<1> SUFFICES ASSUME Init PROVE IInv
  OBVIOUS
<1>1. PICK place \in [Commits -> Nodes] :
        local = [n \in Nodes |-> {c \in Commits : place[c] = n}]
  BY DEF Init
<1>2. Types
  BY <1>1 DEF Init, Types, FrameKeys, Items, Nothing
<1>3. CommitsPlaced
  BY <1>1 DEF CommitsPlaced
<1>4. FramesRight
  <2> SUFFICES ASSUME NEW x \in Names, NEW t \in 0 .. Degrees, NEW n \in Nodes,
                      frames[<<x, t, n>>] # Nil
               PROVE  frames[<<x, t, n>>] = IF n = Master THEN New(x, t) ELSE Own(n, x, t)
    BY DEF FramesRight
  <2>1. <<x, t, n>> \in FrameKeys
    BY DEF FrameKeys
  <2>2. frames[<<x, t, n>>] = IF <<x, t, n>> = <<"users", 0, Master>> THEN {Linus} ELSE Nil
    BY <2>1, Zenon DEF Init
  <2>3. x = "users" /\ t = 0 /\ n = Master /\ frames[<<x, t, n>>] = {Linus}
    BY <2>2
  <2> QED
    BY <2>3 DEF New, NewUsers
<1>5. NodesInStep
  BY ReachedSets DEF Init, NodesInStep, InStep, Reading
<1> QED
  BY <1>2, <1>3, <1>4, <1>5 DEF IInv

\* The sets that are written are sets of projects and users.
LEMMA TaggedType ==
  ASSUME Types, NEW n \in Nodes
  PROVE  Tagged(n) \subseteq Items
<1>1. local[n] \subseteq Commits
  BY DEF Types
<1>2. CASE name[n] = "projects"
  <2>1. Tagged(n) \subseteq {c.pid : c \in Commits}
    BY <1>1, <1>2 DEF Tagged, InBounds
  <2> QED
    BY <2>1 DEF Items
<1>3. CASE name[n] # "projects"
  <2>1. Tagged(n) \subseteq {c.uid : c \in Commits}
    BY <1>1, <1>3 DEF Tagged, InBounds
  <2> QED
    BY <2>1 DEF Items
<1> QED
  BY <1>2, <1>3

\* What a node works on, and which round it is in.
LEMMA RoundType ==
  ASSUME Types, NEW n \in Nodes
  PROVE  /\ name[n] \in Names
         /\ stage[n] < Degrees => stage[n] \in 0 .. Degrees - 1 /\ stage[n] + 1 \in 1 .. Degrees
<1>1. name[n] \in Names /\ stage[n] \in 0 .. Degrees
  BY DEF Types
<1> QED
  BY <1>1

LEMMA KeysExist ==
  ASSUME Types, NEW n \in Nodes, stage[n] < Degrees
  PROVE  /\ <<"users", stage[n], Master>> \in FrameKeys
         /\ Round(n) \in 0 .. Degrees
         /\ \A i \in Nodes : MergeKey(n, i) = <<name[n], Round(n), i>> /\ MergeKey(n, i) \in FrameKeys
<1>1. name[n] \in Names /\ stage[n] \in 0 .. Degrees - 1 /\ stage[n] + 1 \in 1 .. Degrees
  BY RoundType
<1>2. stage[n] \in 0 .. Degrees /\ Round(n) \in 0 .. Degrees
  BY <1>1 DEF Round
<1>3. \A i \in Nodes : MergeKey(n, i) = <<name[n], Round(n), i>>
  BY DEF Round, MergeKey
<1> QED
  BY <1>1, <1>2, <1>3 DEF FrameKeys

\* Changing one set of one node.
LEMMA ChangedSet ==
  ASSUME NEW f \in [Nodes -> [Names -> SUBSET Items]], NEW n \in Nodes, NEW x \in Names,
         NEW v \in SUBSET Items, NEW g, g = [f EXCEPT ![n][x] = v]
  PROVE  /\ g \in [Nodes -> [Names -> SUBSET Items]]
         /\ g[n][x] = v
         /\ \A m \in Nodes, y \in Names : m # n \/ y # x => g[m][y] = f[m][y]
<1>1. [f[n] EXCEPT ![x] = v] \in [Names -> SUBSET Items]
  OBVIOUS
<1> QED
  BY <1>1

\* AfterMerge() keeps the types.
LEMMA AfterMergeType ==
  ASSUME Types, NEW n \in Nodes, stage[n] < Degrees, NEW set \in SUBSET Items,
         AfterMerge(n, set)
  PROVE  /\ stage' \in [Nodes -> 0 .. Degrees]
         /\ at' \in [Nodes -> {"read", "tag", "merge"}]
         /\ name' \in [Nodes -> Names]
         /\ found' \in [Nodes -> [Names -> SUBSET Items]]
         /\ known' \in [Nodes -> [Names -> SUBSET Items]]
<1>1. /\ name[n] \in Names /\ known[n][name[n]] \cup set \in SUBSET Items
      /\ found \in [Nodes -> [Names -> SUBSET Items]]
      /\ known \in [Nodes -> [Names -> SUBSET Items]]
  BY DEF Types
<1>2. found' \in [Nodes -> [Names -> SUBSET Items]]
  BY <1>1, ChangedSet DEF AfterMerge
<1>3. known' = [known EXCEPT ![n][name[n]] = known[n][name[n]] \cup set]
  BY DEF AfterMerge
<1>4. known' \in [Nodes -> [Names -> SUBSET Items]]
  BY <1>1, <1>3, ChangedSet
<1>5. /\ stage' \in [Nodes -> 0 .. Degrees]
      /\ at' \in [Nodes -> {"read", "tag", "merge"}]
      /\ name' \in [Nodes -> Names]
  <2> DEFINE Then(z, y, s) == /\ name' = [name EXCEPT ![n] = z]
                              /\ at' = [at EXCEPT ![n] = y]
                              /\ stage' = s
  <2>1. CASE name[n] = "projects"
    <3>1. Then("users", "tag", stage)
      BY <2>1, Zenon DEF AfterMerge
    <3> QED
      BY <3>1 DEF Types
  <2>2. CASE name[n] # "projects"
    <3>1. Then("projects", "read", [stage EXCEPT ![n] = stage[n] + 1])
      BY <2>2 DEF AfterMerge
    <3> QED
      BY <3>1 DEF Types
  <2> QED
    BY <2>1, <2>2
<1> QED
  BY <1>2, <1>4, <1>5

\* What a node has found, and what it reads in a frame.
LEMMA SetTypes ==
  ASSUME Types
  PROVE  /\ \A n \in Nodes : /\ name[n] \in Names
                             /\ \A x \in Names : found[n][x] \in SUBSET Items
                             /\ \A x \in Names : known[n][x] \in SUBSET Items
         /\ \A k \in FrameKeys : frames[k] # Nil => frames[k] \in SUBSET Items
<1>1. ASSUME NEW n \in Nodes
      PROVE  /\ name[n] \in Names
             /\ found[n] \in [Names -> SUBSET Items] /\ known[n] \in [Names -> SUBSET Items]
  BY DEF Types
<1>2. \A k \in FrameKeys : frames[k] # Nil => frames[k] \in SUBSET Items
  BY DEF Types
<1> QED
  BY <1>1, <1>2

LEMMA NextType == IInv /\ [Next]_vars => Types'
<1> SUFFICES ASSUME IInv, [Next]_vars PROVE Types'
  OBVIOUS
<1>a. Types
  BY DEF IInv
<1>b. \A n \in Nodes : at[n] # "read" => stage[n] < Degrees
  BY DEF IInv, NodesInStep, InStep, Tagging, Merging, Types
<1>1. CASE UNCHANGED vars
  BY <1>1, <1>a DEF Types, vars
<1>2. ASSUME NEW n \in Nodes, ReadDelta(n) PROVE Types'
  <2>1. frames[<<"users", stage[n], Master>>] \in SUBSET Items
    BY <1>a, <1>2, KeysExist, SetTypes DEF ReadDelta
  <2>2. Nothing \in [Names -> SUBSET Items]
    BY DEF Nothing
  <2>3. found' \in [Nodes -> [Names -> SUBSET Items]]
    BY <1>a, <1>2, <2>2 DEF ReadDelta, Types
  <2>4. delta' \in [Nodes -> SUBSET Items]
    BY <1>a, <1>2, <2>1 DEF ReadDelta, Types, InBounds
  <2>5. at' \in [Nodes -> {"read", "tag", "merge"}]
    BY <1>a, <1>2 DEF ReadDelta, Types
  <2> QED
    BY <1>a, <1>2, <2>3, <2>4, <2>5 DEF ReadDelta, Types
<1>3. ASSUME NEW n \in Nodes, Tag(n) PROVE Types'
  <2>1. /\ name[n] \in Names /\ Tagged(n) \in SUBSET Items
        /\ known[n][name[n]] \cup Tagged(n) \in SUBSET Items
        /\ found \in [Nodes -> [Names -> SUBSET Items]]
        /\ known \in [Nodes -> [Names -> SUBSET Items]]
    BY <1>a, TaggedType, SetTypes DEF Types
  <2>2. found' \in [Nodes -> [Names -> SUBSET Items]]
    BY <1>3, <2>1, ChangedSet DEF Tag
  <2>3. known' = [known EXCEPT ![n][name[n]] = known[n][name[n]] \cup Tagged(n)]
    BY <1>3 DEF Tag
  <2>4. known' \in [Nodes -> [Names -> SUBSET Items]]
    BY <2>1, <2>3, ChangedSet
  <2>5. /\ at' \in [Nodes -> {"read", "tag", "merge"}]
        /\ next' \in [Nodes -> Nat]
    BY <1>a, <1>3 DEF Tag, Types
  <2> QED
    BY <1>a, <1>3, <2>2, <2>4, <2>5 DEF Tag, Types
<1>4. CASE Gather
  <2>1. next[Master] \in Nodes /\ Master \in Nodes
    BY <1>4 DEF Gather, IInv, Types, NodesInStep, InStep, Merging
  <2>2. frames[MergeKey(Master, next[Master])] \in SUBSET Items
    BY <1>a, <1>b, <1>4, <2>1, KeysExist, SetTypes DEF Gather
  <2> DEFINE heard == found[Master][name[Master]] \cup frames[MergeKey(Master, next[Master])]
  <2>3. /\ name[Master] \in Names /\ heard \in SUBSET Items
        /\ found \in [Nodes -> [Names -> SUBSET Items]]
    BY <1>a, <2>1, <2>2, SetTypes DEF Types
  <2>4. found' = [found EXCEPT ![Master][name[Master]] = heard]
    BY <1>4 DEF Gather
  <2>5. found' \in [Nodes -> [Names -> SUBSET Items]]
    BY <2>1, <2>3, <2>4, ChangedSet
  <2>6. next' \in [Nodes -> Nat]
    BY <1>a, <1>4, <2>1 DEF Gather, Types
  <2> QED
    BY <1>a, <1>4, <2>5, <2>6 DEF Gather, Types
<1>5. CASE PutUnion
  <2>1. Master \in Nodes /\ stage[Master] < Degrees
    BY <1>b, <1>5 DEF PutUnion
  <2>2. found[Master][name[Master]] \in SUBSET Items
    BY <1>a, <2>1, SetTypes
  <2>3. frames' \in [FrameKeys -> (SUBSET Items) \cup {Nil}]
    BY <1>a, <1>5, <2>1, <2>2, KeysExist DEF PutUnion, Types
  <2> QED
    BY <1>a, <1>5, <2>1, <2>2, <2>3, AfterMergeType DEF PutUnion, Types
<1>6. ASSUME NEW n \in Nodes, PutDelta(n) PROVE Types'
  <2>1. stage[n] < Degrees
    BY <1>b, <1>6 DEF PutDelta
  <2>2. found[n][name[n]] \in SUBSET Items
    BY <1>a, SetTypes
  <2>3. frames' \in [FrameKeys -> (SUBSET Items) \cup {Nil}]
    BY <1>a, <1>6, <2>1, <2>2, KeysExist DEF PutDelta, Types
  <2>4. next' \in [Nodes -> Nat]
    BY <1>a, <1>6 DEF PutDelta, Types
  <2> QED
    BY <1>a, <1>6, <2>3, <2>4 DEF PutDelta, Types
<1>7. ASSUME NEW n \in Nodes, GetUnion(n) PROVE Types'
  <2>1. stage[n] < Degrees /\ Master \in Nodes
    BY <1>b, <1>7 DEF GetUnion
  <2>2. found[n][name[n]] \cup frames[MergeKey(n, Master)] \in SUBSET Items
    <3>1. MergeKey(n, Master) \in FrameKeys
      BY <1>a, <2>1, KeysExist
    <3>2. frames[MergeKey(n, Master)] \in SUBSET Items
      BY <1>a, <1>7, <3>1, SetTypes DEF GetUnion
    <3>3. found[n][name[n]] \in SUBSET Items
      BY <1>a, SetTypes
    <3> QED
      BY <3>2, <3>3
  <2> QED
    BY <1>a, <1>7, <2>1, <2>2, AfterMergeType DEF GetUnion, Types
<1> QED
  BY <1>1, <1>2, <1>3, <1>4, <1>5, <1>6, <1>7 DEF Next, Step

-----------------------------------------------------------------------------
\* The steps of a node.

\* The sets that the nodes find in the merge that n is in make up what is new.
LEMMA RoundComplete ==
  ASSUME Types, CommitsPlaced, NEW n \in Nodes, stage[n] < Degrees
  PROVE  New(name[n], Round(n)) = UNION {Own(i, name[n], Round(n)) : i \in Nodes}
<1>1. stage[n] \in 0 .. Degrees - 1 /\ name[n] \in Names
  BY DEF Types
<1>2. CASE name[n] = "projects"
  BY <1>1, <1>2, NodesFindAll DEF New, Own, Round
<1>3. CASE name[n] = "users"
  BY <1>1, <1>3, NodesFindAll DEF New, Own, Round
<1> QED
  BY <1>1, <1>2, <1>3

\* No step changes the commits, nor anything of another node.
Same(m) ==
  /\ local' = local
  /\ stage'[m] = stage[m] /\ at'[m] = at[m] /\ name'[m] = name[m] /\ next'[m] = next[m]
  /\ delta'[m] = delta[m] /\ found'[m] = found[m] /\ known'[m] = known[m]

LEMMA AfterMergeSame ==
  ASSUME NEW n, NEW set, AfterMerge(n, set), Types, NEW m \in Nodes, m # n
  PROVE  /\ stage'[m] = stage[m] /\ at'[m] = at[m] /\ name'[m] = name[m]
         /\ found'[m] = found[m] /\ known'[m] = known[m]
<1>1. found'[m] = found[m] /\ known'[m] = known[m]
  BY DEF AfterMerge, Types
<1>2. CASE name[n] = "projects"
  BY <1>2 DEF AfterMerge, Types
<1>3. CASE name[n] # "projects"
  BY <1>3 DEF AfterMerge, Types
<1> QED
  BY <1>1, <1>2, <1>3

LEMMA OthersSame ==
  ASSUME Types, NEW n \in Nodes, Step(n), NEW m \in Nodes, m # n
  PROVE  Same(m)
<1>1. CASE ReadDelta(n)
  BY <1>1 DEF ReadDelta, Types, Same
<1>2. CASE Tag(n)
  BY <1>2 DEF Tag, Types, Same
<1>3. CASE n = Master /\ Gather
  BY <1>3 DEF Gather, Types, Same
<1>4. CASE n = Master /\ PutUnion
  BY <1>4, AfterMergeSame DEF PutUnion, Same
<1>5. CASE PutDelta(n)
  BY <1>5 DEF PutDelta, Types, Same
<1>6. CASE GetUnion(n)
  BY <1>6, AfterMergeSame DEF GetUnion, Same
<1> QED
  BY <1>1, <1>2, <1>3, <1>4, <1>5, <1>6 DEF Step

LEMMA SameInStep ==
  ASSUME NEW m \in Nodes, InStep(m), Same(m)
  PROVE  InStep(m)'
<1>1. \A i, x, t : Own(i, x, t)' = Own(i, x, t)
  BY DEF Same, Own, OwnProjects, OwnUsers
<1>2. Round(m)' = Round(m) /\ Heard(m)' = Heard(m)
  BY DEF Same, Round, Heard
<1>3. Gathered(m)' = Gathered(m)
  BY <1>1, <1>2 DEF Same, Gathered
<1>4. Reading(m)' = Reading(m)
  BY DEF Same, Reading
<1>5. Tagging(m)' = Tagging(m)
  BY DEF Same, Tagging, Knows
<1>6. Merging(m)' = Merging(m)
  BY <1>1, <1>2, <1>3 DEF Same, Merging, Knows
<1> QED
  BY <1>4, <1>5, <1>6 DEF Same, InStep

\* One lemma per step, about the node that takes it.
LEMMA ReadDeltaInStep ==
  ASSUME IInv, NEW n \in Nodes, ReadDelta(n)
  PROVE  InStep(n)'
<1>1. Types /\ stage[n] \in 0 .. Degrees - 1
  <2>1. Types /\ stage[n] < Degrees
    BY DEF IInv, ReadDelta
  <2> QED
    BY <2>1, RoundType
<1>2. Reading(n) /\ name[n] = "projects"
  BY DEF IInv, NodesInStep, InStep, ReadDelta, Reading
<1>3. frames[<<"users", stage[n], Master>>] = NewUsers(stage[n])
  BY <1>1 DEF IInv, FramesRight, ReadDelta, New
<1>4. delta'[n] = InBounds("users", NewUsers(stage[n])) /\ at'[n] = "tag"
  BY <1>1, <1>3 DEF ReadDelta, Types
<1>5. Knows(n, P(stage[n]), U(stage[n]))'
  BY <1>2 DEF ReadDelta, Reading, Knows, P, U
<1>6. Tagging(n)'
  BY <1>1, <1>2, <1>4, <1>5 DEF ReadDelta, Tagging
<1> QED
  BY <1>4, <1>6 DEF InStep

LEMMA TagInStep ==
  ASSUME IInv, NEW n \in Nodes, Tag(n)
  PROVE  InStep(n)'
<1> DEFINE own == Own(n, name[n], Round(n))
<1>1. /\ Types /\ Tagging(n) /\ name[n] \in Names /\ stage[n] \in 0 .. Degrees - 1
  <2>1. Types /\ Tagging(n)
    BY DEF IInv, NodesInStep, InStep, Tag
  <2>2. stage[n] < Degrees
    BY <2>1 DEF Tagging
  <2> QED
    BY <2>1, <2>2, RoundType
<1>2. Tagged(n) = own
  <2>1. CASE name[n] = "projects"
    BY <1>1, <2>1 DEF Tagging, Tagged, Own, OwnProjects, Round, Knows
  <2>2. CASE name[n] = "users"
    <3>1. PICK t : t = stage[n] + 1 /\ t - 1 = stage[n]
      BY <1>1
    <3>2. own = OwnUsers(n, t)
      BY <2>2, <3>1 DEF Own, Round
    <3>3. found[n]["projects"] = NewProjects(stage[n]) /\ known[n]["users"] = U(stage[n])
      BY <1>1, <2>2 DEF Tagging, Knows
    <3> DEFINE mine(ps) == InBounds("users", {c.uid : c \in {d \in local[n] : d.pid \in ps}})
    <3>4. own = mine(NewProjects(t - 1)) \ U(t - 1)
      BY <3>2 DEF OwnUsers
    <3>5. Tagged(n) = mine(found[n]["projects"]) \ known[n]["users"]
      BY <2>2 DEF Tagged
    <3> QED
      BY <3>1, <3>3, <3>4, <3>5
  <2> QED
    BY <1>1, <2>1, <2>2
<1>3. /\ Tagged(n) \in SUBSET Items /\ known[n][name[n]] \cup Tagged(n) \in SUBSET Items
      /\ found \in [Nodes -> [Names -> SUBSET Items]]
      /\ known \in [Nodes -> [Names -> SUBSET Items]]
  BY <1>1, TaggedType, SetTypes DEF Types
<1>4. found'[n][name[n]] = own
  BY <1>1, <1>2, <1>3, ChangedSet DEF Tag
<1>5. known' = [known EXCEPT ![n][name[n]] = known[n][name[n]] \cup Tagged(n)]
  BY DEF Tag
<1>6. /\ known'[n][name[n]] = known[n][name[n]] \cup own
      /\ \A y \in Names : y # name[n] => known'[n][y] = known[n][y]
  BY <1>1, <1>2, <1>3, <1>5, ChangedSet
<1>7. at'[n] = "merge" /\ next'[n] = 1 /\ name' = name /\ stage' = stage /\ local' = local
  BY <1>1 DEF Tag, Types
<1>8. Own(n, name[n], Round(n))' = own
  BY <1>7 DEF Own, OwnProjects, OwnUsers, Round
<1>9. Gathered(n)' = own
  <2>1. Heard(n)' = {n}
    BY <1>7 DEF Heard
  <2>2. Gathered(n)' = UNION {Own(i, name[n], Round(n))' : i \in {n}}
    BY <2>1 DEF Gathered
  <2> QED
    BY <1>8, <2>2
<1>10. IF name[n] = "projects"
       THEN Knows(n, P(stage[n]) \cup own, U(stage[n]))'
       ELSE Knows(n, P(stage[n] + 1), U(stage[n]) \cup own)'
  BY <1>1, <1>6, <1>7, <1>8 DEF Tagging, Knows
<1>11. Merging(n)'
  BY <1>1, <1>4, <1>7, <1>8, <1>9, <1>10 DEF Merging
<1> QED
  BY <1>7, <1>11 DEF InStep

\* Both the master and the others end a merge with all that is new.
LEMMA AfterMergeInStep ==
  ASSUME IInv, NEW n \in Nodes, Merging(n), local' = local,
         AfterMerge(n, New(name[n], Round(n))), New(name[n], Round(n)) \in SUBSET Items
  PROVE  InStep(n)'
<1> DEFINE own == Own(n, name[n], Round(n))
           new == New(name[n], Round(n))
<1>1. /\ Types /\ name[n] \in Names /\ stage[n] \in 0 .. Degrees - 1
      /\ stage[n] + 1 \in 1 .. Degrees
  <2>1. Types /\ stage[n] < Degrees
    BY DEF IInv, Merging
  <2> QED
    BY <2>1, RoundType
<1>2. own \subseteq new
  BY <1>1, RoundComplete DEF IInv
<1>3. /\ found \in [Nodes -> [Names -> SUBSET Items]]
      /\ known \in [Nodes -> [Names -> SUBSET Items]]
      /\ known[n][name[n]] \cup new \in SUBSET Items
  BY <1>1, SetTypes DEF Types
<1>4. found'[n][name[n]] = new
  BY <1>1, <1>3, ChangedSet DEF AfterMerge
<1>5. known' = [known EXCEPT ![n][name[n]] = known[n][name[n]] \cup new]
  BY DEF AfterMerge
<1>6. /\ known'[n] \in [Names -> SUBSET Items]
      /\ known'[n][name[n]] = known[n][name[n]] \cup new
      /\ \A y \in Names : y # name[n] => known'[n][y] = known[n][y]
  BY <1>1, <1>3, <1>5, ChangedSet
<1>7. CASE name[n] = "projects"
  <2>1. own = OwnProjects(n, stage[n]) /\ new = NewProjects(stage[n])
    BY <1>7 DEF Own, New, Round
  <2>2. at'[n] = "tag" /\ name'[n] = "users" /\ stage'[n] = stage[n]
    BY <1>1, <1>7 DEF AfterMerge, Types
  <2>3. P(stage[n]) \cup own \cup new = P(stage[n] + 1)
    BY <1>1, <1>2, <2>1, ReachedGrows DEF NewProjects
  <2>4. Knows(n, P(stage[n] + 1), U(stage[n]))'
    BY <1>6, <1>7, <2>2, <2>3 DEF Merging, Knows
  <2>5. Tagging(n)'
    BY <1>1, <1>4, <1>7, <2>1, <2>2, <2>4 DEF Tagging
  <2> QED
    BY <2>2, <2>5 DEF InStep
<1>8. CASE name[n] = "users"
  <2>1. own = OwnUsers(n, stage[n] + 1) /\ new = U(stage[n] + 1) \ U(stage[n])
    BY <1>1, <1>8 DEF Own, New, Round, NewUsers
  <2>2. at'[n] = "read" /\ name'[n] = "projects" /\ stage'[n] = stage[n] + 1
    BY <1>1, <1>8 DEF AfterMerge, Types
  <2>3. U(stage[n]) \cup own \cup new = U(stage[n] + 1)
    BY <1>1, <1>2, <2>1, ReachedGrows
  <2>4. known'[n]["projects"] = P(stage[n] + 1) /\ known'[n]["users"] = U(stage[n] + 1)
    BY <1>6, <1>8, <2>3 DEF Merging, Knows
  <2>5. Reached[stage[n] + 1] = Further(Reached[stage[n]])
    BY <1>1, ReachedSets
  <2>6. known'[n] = Reached[stage[n] + 1]
    BY <1>6, <2>4, <2>5 DEF Further, P, U
  <2>7. Reading(n)'
    BY <2>2, <2>6 DEF Reading, Reached
  <2> QED
    BY <2>2, <2>7 DEF InStep
<1> QED
  BY <1>1, <1>7, <1>8

LEMMA GatherInStep ==
  ASSUME IInv, Gather
  PROVE  InStep(Master)'
<1> DEFINE i == next[Master]
           k == MergeKey(Master, i)
           heard == found[Master][name[Master]] \cup frames[k]
<1>1. Types /\ Merging(Master) /\ Master \in Nodes
  BY DEF IInv, NodesInStep, InStep, Gather
<1>2. /\ name[Master] \in Names /\ stage[Master] < Degrees
      /\ i \in 1 .. NumNodes - 1 /\ i \in Nodes /\ i # Master
  BY <1>1 DEF Types, Merging, Gather
<1>3. k = <<name[Master], Round(Master), i>> /\ Round(Master) \in 0 .. Degrees /\ k \in FrameKeys
  BY <1>1, <1>2, KeysExist
<1>4. frames[k] = Own(i, name[Master], Round(Master))
  BY <1>2, <1>3 DEF IInv, FramesRight, Gather
<1>5. /\ heard \in SUBSET Items /\ found \in [Nodes -> [Names -> SUBSET Items]]
      /\ found' = [found EXCEPT ![Master][name[Master]] = heard]
  <2>1. frames[k] \in SUBSET Items
    BY <1>1, <1>3, SetTypes DEF Gather
  <2>2. found[Master][name[Master]] \in SUBSET Items
    BY <1>1, <1>2, SetTypes
  <2> QED
    BY <1>1, <2>1, <2>2 DEF Gather, Types
<1>6. found'[Master][name[Master]] = heard
  BY <1>1, <1>2, <1>5, ChangedSet
<1>7. /\ next'[Master] = i + 1 /\ at'[Master] = "merge"
      /\ local' = local /\ stage' = stage /\ name' = name /\ known' = known
  BY <1>1 DEF Gather, Types
<1>8. \A m, x, t : Own(m, x, t)' = Own(m, x, t)
  BY <1>7 DEF Own, OwnProjects, OwnUsers
<1>9. Round(Master)' = Round(Master)
  BY <1>7 DEF Round
<1>10. Heard(Master)' = Heard(Master) \cup {i}
  BY <1>2, <1>7 DEF Heard
<1>11. Gathered(Master)' = Gathered(Master) \cup Own(i, name[Master], Round(Master))
  BY <1>7, <1>8, <1>9, <1>10 DEF Gathered
<1>12. found'[Master][name'[Master]] = Gathered(Master)'
  BY <1>1, <1>4, <1>6, <1>7, <1>11 DEF Merging
<1>13. next'[Master] \in 1 .. NumNodes
  BY <1>2, <1>7
<1>14. Merging(Master)'
  BY <1>1, <1>7, <1>8, <1>9, <1>12, <1>13 DEF Merging, Knows
<1> QED
  BY <1>7, <1>14 DEF InStep

\* The union that the master puts is all that is new,
LEMMA UnionIsNew ==
  ASSUME IInv, PutUnion
  PROVE  /\ Merging(Master) /\ MergeKey(Master, Master) = <<name[Master], Round(Master), Master>>
         /\ found[Master][name[Master]] = New(name[Master], Round(Master))
         /\ New(name[Master], Round(Master)) \in SUBSET Items
<1>1. Types /\ Merging(Master) /\ Master \in Nodes
  BY DEF IInv, NodesInStep, InStep, PutUnion
<1>2. stage[Master] < Degrees /\ Heard(Master) = Nodes
  BY <1>1 DEF Merging, PutUnion, Heard
<1>3. found[Master][name[Master]] = New(name[Master], Round(Master))
  BY <1>1, <1>2, RoundComplete DEF IInv, Merging, Gathered
<1>4. found[Master][name[Master]] \in SUBSET Items
  BY <1>1, SetTypes
<1> QED
  BY <1>1, <1>2, <1>3, <1>4, KeysExist

\* a node puts what it found on its own,
LEMMA DeltaIsOwn ==
  ASSUME IInv, NEW n \in Nodes, PutDelta(n)
  PROVE  /\ Merging(n) /\ MergeKey(n, n) = <<name[n], Round(n), n>>
         /\ found[n][name[n]] = Own(n, name[n], Round(n))
<1>1. Types /\ Merging(n)
  BY DEF IInv, NodesInStep, InStep, PutDelta
<1>2. stage[n] < Degrees /\ Heard(n) = {n}
  BY <1>1 DEF Merging, PutDelta, Heard
<1>3. Gathered(n) = Own(n, name[n], Round(n))
  BY <1>2 DEF Gathered
<1> QED
  BY <1>1, <1>2, <1>3, KeysExist DEF Merging

\* and with the union it has all that is new.
LEMMA UnionArrives ==
  ASSUME IInv, NEW n \in Nodes, GetUnion(n)
  PROVE  /\ Merging(n)
         /\ found[n][name[n]] \cup frames[MergeKey(n, Master)] = New(name[n], Round(n))
         /\ New(name[n], Round(n)) \in SUBSET Items
<1>1. Types /\ Merging(n) /\ Master \in Nodes /\ name[n] \in Names
  BY DEF IInv, Types, NodesInStep, InStep, GetUnion
<1>2. stage[n] < Degrees /\ Heard(n) = {n}
  BY <1>1 DEF Merging, GetUnion, Heard
<1>3. Gathered(n) = Own(n, name[n], Round(n))
  BY <1>2 DEF Gathered
<1>4. /\ MergeKey(n, Master) = <<name[n], Round(n), Master>> /\ MergeKey(n, Master) \in FrameKeys
      /\ Round(n) \in 0 .. Degrees
  BY <1>1, <1>2, KeysExist
<1>5. frames[MergeKey(n, Master)] = New(name[n], Round(n))
  BY <1>1, <1>4 DEF IInv, FramesRight, GetUnion
<1>6. frames[MergeKey(n, Master)] \in SUBSET Items
  BY <1>1, <1>4, SetTypes DEF GetUnion
<1>7. Own(n, name[n], Round(n)) \subseteq New(name[n], Round(n))
  BY <1>1, <1>2, RoundComplete DEF IInv
<1> QED
  BY <1>1, <1>3, <1>5, <1>6, <1>7 DEF Merging

LEMMA StepInStep ==
  ASSUME IInv, NEW n \in Nodes, Step(n)
  PROVE  InStep(n)'
<1>1. CASE n = Master /\ PutUnion
  <2>1. AfterMerge(Master, New(name[Master], Round(Master)))
    BY <1>1, UnionIsNew DEF PutUnion
  <2> QED
    BY <1>1, <2>1, UnionIsNew, AfterMergeInStep DEF PutUnion
<1>2. CASE PutDelta(n)
  <2>1. Merging(n) /\ at'[n] = "merge" /\ n # Master
    BY <1>2, DeltaIsOwn DEF PutDelta
  <2>2. \A m, x, t : Own(m, x, t)' = Own(m, x, t)
    BY <1>2 DEF PutDelta, Own, OwnProjects, OwnUsers
  <2>3. Round(n)' = Round(n) /\ Heard(n)' = Heard(n)
    BY <1>2 DEF PutDelta, Round, Heard
  <2>4. Gathered(n)' = Gathered(n)
    BY <1>2, <2>2, <2>3 DEF PutDelta, Gathered
  <2>5. Merging(n)'
    BY <1>2, <2>1, <2>2, <2>3, <2>4 DEF PutDelta, Merging, Knows
  <2> QED
    BY <2>1, <2>5 DEF InStep
<1>3. CASE GetUnion(n)
  <2>1. AfterMerge(n, New(name[n], Round(n)))
    BY <1>3, UnionArrives DEF GetUnion
  <2> QED
    BY <1>3, <2>1, UnionArrives, AfterMergeInStep DEF GetUnion
<1> QED
  BY <1>1, <1>2, <1>3, ReadDeltaInStep, TagInStep, GatherInStep DEF Step

-----------------------------------------------------------------------------
\* Every step preserves the invariant.

LEMMA LocalStays == [Next]_vars => local' = local
BY DEF Next, Step, ReadDelta, Tag, Gather, PutUnion, PutDelta, GetUnion, vars

\* A step leaves the frames alone or puts under one key what belongs there.
RightPut(x, t, n) ==
  frames' = [frames EXCEPT ![<<x, t, n>>] = IF n = Master THEN New(x, t) ELSE Own(n, x, t)]

LEMMA PutsRight ==
  ASSUME IInv, [Next]_vars
  PROVE  \/ frames' = frames
         \/ \E x \in Names, t \in 0 .. Degrees, n \in Nodes : RightPut(x, t, n)
<1>1. CASE PutUnion
  <2>1. RightPut(name[Master], Round(Master), Master)
    BY <1>1, UnionIsNew DEF PutUnion, RightPut
  <2>2. Types /\ Master \in Nodes /\ stage[Master] < Degrees
    BY <1>1, UnionIsNew DEF IInv, Merging
  <2>3. name[Master] \in Names /\ Round(Master) \in 0 .. Degrees
    BY <2>2, KeysExist, SetTypes
  <2> QED
    BY <2>1, <2>2, <2>3
<1>2. ASSUME NEW n \in Nodes, PutDelta(n)
      PROVE  \E x \in Names, t \in 0 .. Degrees : RightPut(x, t, n)
  <2>1. RightPut(name[n], Round(n), n)
    BY <1>2, DeltaIsOwn DEF PutDelta, RightPut
  <2>2. name[n] \in Names /\ Round(n) \in 0 .. Degrees
    BY <1>2, DeltaIsOwn, KeysExist, SetTypes DEF IInv, Merging
  <2> QED
    BY <2>1, <2>2
<1> QED
  BY <1>1, <1>2 DEF Next, Step, ReadDelta, Tag, Gather, GetUnion, vars

LEMMA FramesStayRight == IInv /\ [Next]_vars => FramesRight'
<1> SUFFICES ASSUME IInv, [Next]_vars PROVE FramesRight'
  OBVIOUS
<1> DEFINE right(x, t, n) == IF n = Master THEN New(x, t) ELSE Own(n, x, t)
<1>1. \A x, t, n : right(x, t, n)' = right(x, t, n)
  BY LocalStays DEF Own, OwnProjects, OwnUsers
<1> SUFFICES ASSUME NEW x \in Names, NEW t \in 0 .. Degrees, NEW n \in Nodes,
                    frames'[<<x, t, n>>] # Nil
             PROVE  frames'[<<x, t, n>>] = right(x, t, n)
  BY <1>1 DEF FramesRight
<1>2. <<x, t, n>> \in FrameKeys /\ frames[<<x, t, n>>] \in {Nil, right(x, t, n)}
  BY DEF IInv, FramesRight, FrameKeys
<1>3. CASE frames' = frames
  BY <1>2, <1>3
<1>4. ASSUME NEW y \in Names, NEW u \in 0 .. Degrees, NEW m \in Nodes, RightPut(y, u, m)
      PROVE  frames'[<<x, t, n>>] = right(x, t, n)
  <2>1. CASE <<y, u, m>> = <<x, t, n>>
    BY <1>2, <1>4, <2>1 DEF RightPut, IInv, Types
  <2>2. CASE <<y, u, m>> # <<x, t, n>>
    <3>1. frames'[<<x, t, n>>] = frames[<<x, t, n>>]
      BY <1>2, <1>4, <2>2 DEF RightPut, IInv, Types
    <3> QED
      BY <1>2, <3>1
  <2> QED
    BY <2>1, <2>2
<1> QED
  BY <1>3, <1>4, PutsRight

LEMMA NextInv == IInv /\ [Next]_vars => IInv'
<1> SUFFICES ASSUME IInv, [Next]_vars PROVE IInv'
  OBVIOUS
<1>1. Types'
  BY NextType
<1>2. CommitsPlaced'
  BY LocalStays DEF IInv, CommitsPlaced
<1>3. FramesRight'
  BY FramesStayRight
<1>4. NodesInStep'
  <2> SUFFICES ASSUME NEW m \in Nodes PROVE InStep(m)'
    BY DEF NodesInStep
  <2>1. InStep(m) /\ Types
    BY DEF IInv, NodesInStep
  <2>2. CASE UNCHANGED vars
    BY <2>1, <2>2, SameInStep DEF vars, Same
  <2>3. ASSUME NEW n \in Nodes, Step(n) PROVE InStep(m)'
    BY <2>1, <2>3, OthersSame, SameInStep, StepInStep
  <2> QED
    BY <2>2, <2>3 DEF Next
<1> QED
  BY <1>1, <1>2, <1>3, <1>4 DEF IInv

THEOREM Invariance == Spec => []IInv
BY InitInv, NextInv, PTL DEF Spec

\* For any number of nodes and however the commits are spread over them, the sets
\* that a node of Linus has after each degree are those of that degree, computed from
\* all the commits at once: merge() with only what is new loses nothing.
THEOREM DegreesCorrect == Spec => []DegreesOfLinus
<1>1. IInv => DegreesOfLinus
  BY DEF IInv, NodesInStep, InStep, Reading, DegreesOfLinus
<1> QED
  BY <1>1, Invariance, PTL

\* A set that a node of Linus has put in the store is never replaced: every round puts
\* under keys of its own, and what belongs under a key does not change.
THEOREM FramesWrittenOnceCorrect == Spec => FramesWrittenOnce
<1> DEFINE Once == \A k \in FrameKeys : frames[k] # Nil => frames'[k] = frames[k]
<1>1. ASSUME IInv, [Next]_vars PROVE Once
  <2> SUFFICES ASSUME NEW k \in FrameKeys, frames[k] # Nil PROVE frames'[k] = frames[k]
    OBVIOUS
  <2>1. PICK x \in Names, t \in 0 .. Degrees, n \in Nodes : k = <<x, t, n>>
    BY DEF FrameKeys
  <2>2. frames[k] = IF n = Master THEN New(x, t) ELSE Own(n, x, t)
    BY <1>1, <2>1 DEF IInv, FramesRight
  <2>3. ASSUME NEW y \in Names, NEW u \in 0 .. Degrees, NEW m \in Nodes, RightPut(y, u, m)
        PROVE  frames'[k] = frames[k]
    <3>1. CASE <<y, u, m>> = <<x, t, n>>
      BY <1>1, <2>1, <2>2, <2>3, <3>1 DEF RightPut, IInv, Types
    <3>2. CASE <<y, u, m>> # <<x, t, n>>
      BY <1>1, <2>1, <2>3, <3>2 DEF RightPut, IInv, Types
    <3> QED
      BY <3>1, <3>2
  <2> QED
    BY <1>1, <2>3, PutsRight
<1>2. IInv /\ [Next]_vars => [Once]_vars
  BY <1>1
<1> QED
  BY <1>2, Invariance, PTL DEF Spec, FramesWrittenOnce

=============================================================================
