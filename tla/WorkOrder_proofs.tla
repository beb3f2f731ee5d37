--------------------------- MODULE WorkOrder_proofs ---------------------------
(***************************************************************************)
(* The order of the work: the graph of dependencies that requests build,   *)
(* kept free of cycles for any number of nodes and whatever is deleted     *)
(* while a request walks; the placement of features, for any number of     *)
(* epics and features and any set of projects; and the levelling           *)
(* simulation after it, for any roles and workloads, any length of a week  *)
(* and any horizon.                                                        *)
(***************************************************************************)
EXTENDS BacklogDependencies, LevelledSchedule, FiniteSetTheorems, SequenceTheorems, TLAPS

----------------------------------------------------------------------------
(* BacklogDependencies.                                                    *)

(* What a search knows: the nodes it has read lead only to nodes it has    *)
(* read or will read, but for the dependencies that other requests have    *)
(* inserted meanwhile, and the dependent is not among those it has read.   *)
Walk(r) ==
  pc[r] = "search" =>
    /\ To(r) \in visited[r] \cup stack[r]
    /\ From(r) \notin visited[r]
    /\ \A e \in searched \ unseen[r] :
         e[1] \in visited[r] => e[2] \in visited[r] \cup stack[r]

GraphInv == GraphTyped /\ NoCycle /\ \A r \in Request : Walk(r)

LEMMA NoEdgeTyped == NoEdge \in Node \X Node
<1> PICK n \in Node : TRUE
  BY ConstantsAssumption
<1>1. <<n, n>> \in Node \X Node
  OBVIOUS
<1>2. QED
  BY <1>1 DEF NoEdge

LEMMA GraphTypeInit == GraphInit => GraphTyped
BY NoEdgeTyped DEF GraphInit, GraphTyped

LEMMA GraphTypeStep == GraphTyped /\ [GraphNext]_graphVars => GraphTyped'
<1> SUFFICES ASSUME GraphTyped, [GraphNext]_graphVars PROVE GraphTyped'
  OBVIOUS
<1> USE ConstantsAssumption DEF GraphTyped, searchVars, histVars
<1>1. ASSUME NEW r \in Request, NEW n \in Node, NEW m \in Node, Begin(r, n, m) PROVE GraphTyped'
  BY <1>1 DEF Begin
<1>2. ASSUME NEW r \in Request, Visit(r) PROVE GraphTyped'
  BY <1>2 DEF Visit, Successors
<1>3. ASSUME NEW r \in Request, Reject(r) PROVE GraphTyped'
  BY <1>3, NoEdgeTyped DEF Reject, Answer
<1>4. ASSUME NEW r \in Request, InsertNew(r) PROVE GraphTyped'
  <2>1. edge[r] = <<From(r), To(r)>>
    BY DEF From, To
  <2>2. nodes' \subseteq Node /\ deps' \subseteq nodes' \X nodes' /\ searched' \subseteq deps'
    BY <1>4, <2>1 DEF InsertNew, CanInsert, Answer
  <2>3. /\ pc' \in [Request -> {"idle", "search"}]
        /\ edge' \in [Request -> Node \X Node]
        /\ stack' \in [Request -> SUBSET Node]
        /\ visited' \in [Request -> SUBSET Node]
    BY <1>4, NoEdgeTyped DEF InsertNew, Answer
  <2>4. unseen' \in [Request -> SUBSET (Node \X Node)]
    BY <1>4 DEF InsertNew
  <2>5. blind' \subseteq searched' \X searched'
    BY <1>4 DEF InsertNew
  <2>6. QED
    BY <2>2, <2>3, <2>4, <2>5
<1>5. ASSUME NEW r \in Request, InsertFails(r) PROVE GraphTyped'
  BY <1>5, NoEdgeTyped DEF InsertFails, Answer
<1>6. ASSUME Others PROVE GraphTyped'
  <2>1. ASSUME NEW n \in Node, NEW m \in Node, DeleteDependency(n, m) PROVE GraphTyped'
    BY <2>1 DEF DeleteDependency, KeepOnly
  <2>2. ASSUME NEW n \in Node, CreateNode(n) PROVE GraphTyped'
    BY <2>2 DEF CreateNode
  <2>3. ASSUME NEW n \in Node, DeleteNode(n) PROVE GraphTyped'
    BY <2>3 DEF DeleteNode, Touches, KeepOnly
  <2>4. ASSUME NEW E \in Imports, Import(E) PROVE GraphTyped'
    BY <2>4 DEF Import
  <2>5. QED
    BY <1>6, <2>1, <2>2, <2>3, <2>4 DEF Others
<1>7. CASE UNCHANGED graphVars
  BY <1>7 DEF graphVars
<1>8. QED
  BY <1>1, <1>2, <1>3, <1>4, <1>5, <1>6, <1>7 DEF GraphNext, Post, SearchStep

(* The foreign keys hold: every dependency joins two epics of the project. *)
THEOREM GraphTyping == GraphSpec => []GraphTyped
BY GraphTypeInit, GraphTypeStep, PTL DEF GraphSpec

(* A new dependency closes no cycle of dependencies that were inserted     *)
(* apart: what of the cycle starts at a node the search has read stays     *)
(* among such nodes, so it is closed without the new dependency.           *)
LEMMA NoNewCycle ==
  ASSUME NoCycle, NEW V, NEW e, NEW U, e[2] \in V, e[1] \notin V,
         \A f \in searched \ U : f[1] \in V => f[2] \in V,
         NEW C \in SUBSET (searched \cup {e}), Closed(C),
         \A f, g \in C : Apart(f, g), C \cap searched \cap U = {} \/ e \notin C
  PROVE  FALSE
<1>1. CASE e \notin C
  BY <1>1 DEF NoCycle
<1>2. CASE e \in C
  <2> DEFINE D == {f \in C : f[1] \in V}
  <2>1. \A f \in D : f \in searched \ U
    BY <1>2
  <2>2. D # {}
    BY <1>2 DEF Closed
  <2>3. ASSUME NEW f \in D PROVE \E g \in D : g[1] = f[2]
    <3>1. f[2] \in V
      BY <2>1
    <3>2. PICK g \in C : g[1] = f[2]
      BY DEF Closed
    <3>3. QED
      BY <3>1, <3>2
  <2>4. D \in SUBSET searched /\ (\A f, g \in D : Apart(f, g)) /\ Closed(D)
    BY <2>1, <2>2, <2>3 DEF Closed
  <2>5. QED
    BY <2>4 DEF NoCycle
<1>3. QED
  BY <1>1, <1>2

(* Fewer dependencies, and no less known of those that stay, make no       *)
(* cycle.                                                                  *)
LEMMA FewerDependencies ==
  ASSUME NoCycle, searched' \subseteq searched, blind \cap (searched' \X searched') \subseteq blind'
  PROVE  NoCycle'
BY DEF NoCycle, Apart, Closed

LEMMA GraphStep == GraphInv /\ [GraphNext]_graphVars => GraphInv'
<1> SUFFICES ASSUME GraphInv, [GraphNext]_graphVars PROVE GraphInv'
  OBVIOUS
<1> USE DEF searchVars, histVars
<1>1. GraphTyped' /\ GraphTyped
  BY GraphTypeStep DEF GraphInv
<1>2. CASE UNCHANGED graphVars
  BY <1>1, <1>2 DEF graphVars, GraphInv, NoCycle, Closed, Apart, Walk, From, To
<1>3. ASSUME NEW r \in Request, NEW n \in Node, NEW m \in Node, Begin(r, n, m) PROVE GraphInv'
  <2>1. NoCycle'
    BY <1>1, <1>3, FewerDependencies DEF Begin, GraphInv
  <2>2. ASSUME NEW q \in Request PROVE Walk(q)'
    BY <1>1, <1>3 DEF Begin, GraphInv, Walk, From, To, GraphTyped
  <2>3. QED
    BY <1>1, <2>1, <2>2 DEF GraphInv
<1>4. ASSUME NEW r \in Request, Visit(r) PROVE GraphInv'
  <2>1. NoCycle'
    BY <1>1, <1>4, FewerDependencies DEF Visit, GraphInv
  <2>2. PICK c \in stack[r] \ {From(r)} :
          /\ stack' = [stack EXCEPT ![r] = (@ \ {c}) \cup Successors(r, c)]
          /\ visited' = [visited EXCEPT ![r] = @ \cup {c}]
    BY <1>4 DEF Visit
  <2>3. /\ stack'[r] = (stack[r] \ {c}) \cup Successors(r, c)
        /\ visited'[r] = visited[r] \cup {c}
        /\ pc[r] = "search"
        /\ UNCHANGED <<pc, edge, searched, unseen>>
    BY <1>1, <1>4, <2>2 DEF Visit, GraphTyped
  <2>4. To(r) \in visited[r] \cup stack[r] /\ From(r) \notin visited[r]
    BY <2>3 DEF GraphInv, Walk
  <2>5. To(r)' \in visited'[r] \cup stack'[r] /\ From(r)' \notin visited'[r]
    BY <2>2, <2>3, <2>4 DEF From, To
  <2>6. ASSUME NEW e \in searched \ unseen[r], e[1] \in visited'[r]
        PROVE  e[2] \in visited'[r] \cup stack'[r]
    <3>1. CASE e[1] = c
      <4>1. e \in deps /\ e = <<c, e[2]>> /\ e[2] \in Node
        BY <1>1, <3>1 DEF GraphTyped
      <4>2. QED
        BY <2>3, <4>1 DEF Successors
    <3>2. CASE e[1] # c
      <4>1. e[1] \in visited[r]
        BY <2>3, <2>6, <3>2
      <4>2. e[2] \in visited[r] \cup stack[r]
        BY <2>3, <4>1 DEF GraphInv, Walk
      <4>3. QED
        BY <2>3, <4>2
    <3>3. QED
      BY <3>1, <3>2
  <2>7. Walk(r)'
    BY <2>3, <2>5, <2>6 DEF Walk
  <2>8. ASSUME NEW q \in Request, q # r PROVE Walk(q)'
    BY <1>1, <2>2, <2>3, <2>8 DEF GraphInv, Walk, From, To, GraphTyped
  <2>9. QED
    BY <1>1, <2>1, <2>7, <2>8 DEF GraphInv
<1>5. ASSUME NEW r \in Request, Reject(r) \/ InsertFails(r) PROVE GraphInv'
  <2>1. /\ Answer(r) /\ unseen' = [unseen EXCEPT ![r] = {}]
        /\ UNCHANGED <<searched, blind>>
    BY <1>5 DEF Reject, InsertFails
  <2>2. NoCycle'
    BY <1>1, <2>1, FewerDependencies DEF GraphInv
  <2>3. ASSUME NEW q \in Request PROVE Walk(q)'
    BY <1>1, <2>1 DEF Answer, GraphInv, Walk, From, To, GraphTyped
  <2>4. QED
    BY <1>1, <2>2, <2>3 DEF GraphInv
<1>6. ASSUME NEW r \in Request, InsertNew(r) PROVE GraphInv'
  <2>1. /\ searched' = searched \cup {edge[r]}
        /\ blind' = blind \cup ({edge[r]} \X (unseen[r] \cap searched))
        /\ stack[r] = {} /\ pc[r] = "search"
    BY <1>6 DEF InsertNew, SearchOver
  <2>2. /\ edge[r][2] \in visited[r] /\ edge[r][1] \notin visited[r]
        /\ \A f \in searched \ unseen[r] : f[1] \in visited[r] => f[2] \in visited[r]
    BY <2>1 DEF GraphInv, Walk, From, To
  <2>3. NoCycle'
    <3> SUFFICES ASSUME NEW C \in SUBSET searched', \A f, g \in C : Apart(f, g)', Closed(C)
                 PROVE  FALSE
      BY DEF NoCycle, Closed
    <3>1. \A f, g \in C : Apart(f, g)
      BY <2>1 DEF Apart
    <3>2. C \cap searched \cap unseen[r] = {} \/ edge[r] \notin C
      BY <2>1 DEF Apart
    <3>3. QED
      BY <2>1, <2>2, <3>1, <3>2, NoNewCycle DEF GraphInv
  <2>4. ASSUME NEW q \in Request PROVE Walk(q)'
    <3>1. CASE q = r
      BY <1>1, <1>6, <3>1 DEF InsertNew, Answer, Walk, GraphTyped
    <3>2. CASE q # r
      <4>1. /\ UNCHANGED <<pc[q], edge[q], stack[q], visited[q]>>
            /\ pc[q] = "search" => unseen'[q] = unseen[q] \cup {edge[r]}
        BY <1>1, <1>6, <3>2 DEF InsertNew, Answer, GraphTyped
      <4>2. QED
        BY <2>1, <4>1 DEF GraphInv, Walk, From, To
    <3>3. QED
      BY <3>1, <3>2
  <2>5. QED
    BY <1>1, <2>3, <2>4 DEF GraphInv
<1>7. CASE Others
  <2> DEFINE Fewer == /\ searched' \subseteq searched
                      /\ blind \cap (searched' \X searched') \subseteq blind'
                      /\ UNCHANGED <<pc, edge, stack, visited, unseen>>
  <2>1. Fewer
    <3>1. ASSUME NEW D, D \subseteq deps, KeepOnly(D), UNCHANGED searchVars PROVE Fewer
      BY <3>1 DEF KeepOnly
    <3>2. ASSUME NEW n \in Node, NEW m \in Node, DeleteDependency(n, m) PROVE Fewer
      BY <3>1, <3>2 DEF DeleteDependency
    <3>3. ASSUME NEW n \in Node, CreateNode(n) \/ DeleteNode(n) PROVE Fewer
      BY <3>1, <3>3 DEF CreateNode, DeleteNode
    <3>4. ASSUME NEW E \in Imports, Import(E) PROVE Fewer
      BY <3>4 DEF Import
    <3>5. QED
      BY <1>7, <3>2, <3>3, <3>4 DEF Others
  <2>2. NoCycle'
    BY <1>1, <2>1, FewerDependencies DEF GraphInv
  <2>3. ASSUME NEW q \in Request PROVE Walk(q)'
    BY <2>1 DEF GraphInv, Walk, From, To
  <2>4. QED
    BY <1>1, <2>2, <2>3 DEF GraphInv
<1>8. QED
  BY <1>2, <1>3, <1>4, <1>5, <1>6, <1>7 DEF GraphNext, Post, SearchStep

(* "Check for circular dependency before inserting": however many requests *)
(* are in progress, and although epics and dependencies come and go, and   *)
(* files are imported, between the queries of a search, dependencies that  *)
(* requests have added never make a cycle, unless two of its dependencies  *)
(* were added by requests that overlapped.                                 *)
THEOREM NoCycles == GraphSpec => []NoCycle
<1>1. GraphInit => GraphInv
  <2>1. ASSUME GraphInit PROVE NoCycle /\ \A r \in Request : Walk(r)
    BY <2>1 DEF GraphInit, NoCycle, Closed, Walk
  <2>2. QED
    BY <2>1, GraphTypeInit DEF GraphInv
<1>2. GraphInv => NoCycle
  BY DEF GraphInv
<1>3. QED
  BY <1>1, <1>2, GraphStep, PTL DEF GraphSpec

(* GraphSound (BacklogDependencies): for any number of nodes and requests, *)
(* the foreign keys hold, and requests that do not overlap make no cycle.  *)
THEOREM SoundGraph == GraphSpec => []GraphSound
BY GraphTyping, NoCycles, PTL DEF GraphSound

----------------------------------------------------------------------------
(* FeatureSchedule.                                                        *)

(* The counters count what is left to wait for, and the queue holds the    *)
(* features with nothing left.                                             *)
Counted == \A f \in Feature : inDegree[f] = Cardinality(Before(project, f) \ sorted)

QueueExact ==
  /\ queue = {f \in Feature \ sorted : Before(project, f) \subseteq sorted}
  /\ queue # {} => Placed = sorted
  /\ \A f \in sorted : Before(project, f) \subseteq sorted

Timed ==
  \A f \in Feature :
    /\ f \in Placed <=> finish[f] # None
    /\ f \in Placed => start[f] < finish[f]

FallbackInOrder ==
  \A f \in Placed \ sorted, g \in Feature :
    EarlierEpic(f, g) => g \in Placed /\ finish[g] <= start[f]

IInv ==
  /\ TypeOK /\ Counted /\ QueueExact /\ Timed /\ SortedInOrder /\ FallbackInOrder

(* Facts about one project.                                                *)
LEMMA ProjectFacts ==
  ASSUME NEW p \in Project
  PROVE  /\ \A f \in Feature : Base(p, f) \in Nat /\ p.duration[f] \in Nat \ {0}
         /\ \A f \in Feature : Pinned(p, f) => p.pin[f] \in Nat
         /\ \A f \in Feature : p.epicOf[f] \in Nat
         /\ \A f, g \in Feature : p.epicOf[g] < p.epicOf[f] => g < f
<1>1. /\ p \in ProjectShape /\ Epic \subseteq Nat /\ Feature \subseteq Nat
      /\ \A f, g \in Feature : f <= g => p.epicOf[f] <= p.epicOf[g]
  BY ScheduleAssumption
<1>2. /\ p.epicOf \in [Feature -> Epic] /\ p.pin \in [Feature -> Nat \cup {None}]
      /\ p.duration \in [Feature -> Nat \ {0}]
      /\ p.featureStart \in [Feature -> Nat \cup {None}]
      /\ p.epicStart \in [Epic -> Nat \cup {None}]
  BY <1>1 DEF ProjectShape
<1>3. \A f \in Feature : Base(p, f) \in Nat
  BY <1>2 DEF Base
<1>4. \A f \in Feature : Pinned(p, f) => p.pin[f] \in Nat
  BY <1>2 DEF Pinned
<1>5. \A f, g \in Feature : p.epicOf[g] < p.epicOf[f] => g < f
  <2> SUFFICES ASSUME NEW f \in Feature, NEW g \in Feature, p.epicOf[g] < p.epicOf[f]
               PROVE  g < f
    OBVIOUS
  <2>1. p.epicOf[f] \in Nat /\ p.epicOf[g] \in Nat /\ f \in Nat /\ g \in Nat
    BY <1>1, <1>2
  <2>2. ~ f <= g
    BY <1>1, <2>1
  <2>3. QED
    BY <2>1, <2>2
<1>6. QED
  BY <1>1, <1>2, <1>3, <1>4, <1>5

(* A counter at one, seen from one of the features it counts.              *)
LEMMA CountDown ==
  ASSUME NEW S, IsFiniteSet(S), NEW x \in S
  PROVE  /\ Cardinality(S) \in Nat
         /\ Cardinality(S \ {x}) = Cardinality(S) - 1
         /\ Cardinality(S \ {x}) \in Nat
         /\ Cardinality(S) = 1 <=> S \ {x} = {}
<1>1. Cardinality(S \ {x}) = Cardinality(S) - 1 /\ IsFiniteSet(S \ {x})
  BY FS_RemoveElement
<1>2. Cardinality(S) \in Nat /\ Cardinality(S \ {x}) \in Nat
  BY <1>1, FS_CardinalityType
<1>3. Cardinality(S \ {x}) = 0 <=> S \ {x} = {}
  BY <1>1, FS_EmptySet
<1>4. QED
  BY <1>1, <1>2, <1>3

LEMMA BeforeFinite ==
  ASSUME NEW p, NEW f \in Feature, NEW T
  PROVE  IsFiniteSet(Before(p, f) \ T) /\ Cardinality(Before(p, f) \ T) \in Nat
<1>1. Before(p, f) \ T \subseteq Feature
  BY DEF Before
<1>2. QED
  BY <1>1, FS_Subset, FS_CardinalityType, ScheduleAssumption

LEMMA InitInv == Init => IInv
<1> SUFFICES ASSUME Init PROVE IInv
  OBVIOUS
<1>1. Placed = {}
  BY DEF Init, Placed
<1>2. \A f \in Feature : Before(project, f) \ sorted = Before(project, f)
  BY DEF Init
<1>3. \A f \in Feature : Cardinality(Before(project, f)) \in Nat
  BY <1>2, BeforeFinite
<1>4. TypeOK
  BY <1>1, <1>3 DEF Init, TypeOK
<1>5. Counted
  BY <1>2 DEF Init, Counted
<1>6. QueueExact
  BY <1>1 DEF Init, QueueExact
<1>7. Timed /\ SortedInOrder /\ FallbackInOrder
  BY <1>1 DEF Init, Timed, SortedInOrder, FallbackInOrder
<1>8. QED
  BY <1>4, <1>5, <1>6, <1>7 DEF IInv

(* What both ways of placing a feature have in common.                     *)
LEMMA PlaceFacts ==
  ASSUME TypeOK, Timed, NEW f \in Feature, f \notin Placed,
         NEW Bounds \in SUBSET Nat, Place(f, Bounds)
  PROVE  /\ start' \in [Feature -> Nat \cup {None}] /\ finish' \in [Feature -> Nat \cup {None}]
         /\ start'[f] \in Bounds /\ start'[f] \in Nat /\ finish'[f] \in Nat
         /\ start'[f] < finish'[f]
         /\ \A b \in Bounds : b <= start'[f]
         /\ \A g \in Feature \ {f} : start'[g] = start[g] /\ finish'[g] = finish[g]
         /\ Placed' = Placed \cup {f}
         /\ project' = project => Timed'
         /\ start' = [start EXCEPT ![f] = start'[f]]
         /\ finish' = [finish EXCEPT ![f] = finish'[f]]
<1>1. PICK s \in Bounds : /\ \A b \in Bounds : b <= s
                          /\ start' = [start EXCEPT ![f] = s]
                          /\ finish' = [finish EXCEPT ![f] = s + Length(f)]
  BY DEF Place
<1>2. Length(f) \in Nat \ {0}
  BY ProjectFacts DEF TypeOK, Length
<1>3. s \in Nat /\ s + Length(f) \in Nat /\ s < s + Length(f)
  BY <1>1, <1>2
<1>4. start'[f] = s /\ finish'[f] = s + Length(f)
  BY <1>1 DEF TypeOK
<1>5. /\ start' \in [Feature -> Nat \cup {None}] /\ finish' \in [Feature -> Nat \cup {None}]
      /\ \A g \in Feature \ {f} : start'[g] = start[g] /\ finish'[g] = finish[g]
  BY <1>1, <1>3 DEF TypeOK
<1>6. Placed' = Placed \cup {f}
  BY <1>3, <1>4, <1>5, ScheduleAssumption DEF Placed
<1>7. Timed'
  BY <1>3, <1>4, <1>5, <1>6, ScheduleAssumption DEF Timed
<1>8. QED
  BY <1>1, <1>3, <1>4, <1>5, <1>6, <1>7

(* The bounds are numbers.                                                 *)
LEMMA BoundsFacts ==
  ASSUME TypeOK, NEW f \in Feature, NEW S \in SUBSET Feature
  PROVE  {Base(project, f)} \cup {End(g) : g \in S} \in SUBSET Nat
BY ProjectFacts DEF TypeOK, End

(* A feature from the queue: everything it waits for is placed, and its    *)
(* place is after all of that.                                             *)
LEMMA SortPlace ==
  ASSUME IInv, NEW f \in Feature, Sort(f)
  PROVE  /\ f \notin sorted /\ f \notin Placed /\ Placed = sorted
         /\ Before(project, f) \subseteq sorted
         /\ project' = project /\ sorted' = sorted \cup {f}
         /\ \E Bounds \in SUBSET Nat :
              /\ Place(f, Bounds)
              /\ Pinned(project, f) => Bounds = {project.pin[f]}
              /\ ~ Pinned(project, f) => \A g \in Before(project, f) : finish[g] \in Bounds
<1>1. /\ f \in queue /\ project' = project /\ sorted' = sorted \cup {f}
      /\ Place(f, IF Pinned(project, f) THEN {project.pin[f]}
                  ELSE {Base(project, f)} \cup {End(g) : g \in Before(project, f)})
  BY DEF Sort
<1>2. f \notin sorted /\ Placed = sorted /\ Before(project, f) \subseteq sorted
  BY <1>1 DEF IInv, QueueExact
<1>3. \A g \in Before(project, f) : End(g) = finish[g]
  BY <1>2 DEF IInv, Timed, End, Before
<1>4. CASE Pinned(project, f)
  <2>1. {project.pin[f]} \in SUBSET Nat
    BY <1>4, ProjectFacts DEF IInv, TypeOK
  <2>2. QED
    BY <1>1, <1>2, <1>4, <2>1
<1>5. CASE ~ Pinned(project, f)
  <2> DEFINE B == {Base(project, f)} \cup {End(g) : g \in Before(project, f)}
  <2>1. B \in SUBSET Nat
    BY BoundsFacts DEF IInv, Before
  <2>2. \A g \in Before(project, f) : finish[g] \in B
    BY <1>3
  <2>3. Place(f, B)
    BY <1>1, <1>5
  <2> HIDE DEF B
  <2>4. QED
    BY <1>1, <1>2, <1>5, <2>1, <2>2, <2>3
<1>6. QED
  BY <1>4, <1>5

LEMMA SortStep ==
  ASSUME IInv, NEW f \in Feature, Sort(f)
  PROVE  IInv'
<1>1. /\ f \notin sorted /\ f \notin Placed /\ Placed = sorted
      /\ Before(project, f) \subseteq sorted
      /\ project' = project /\ sorted' = sorted \cup {f}
  BY SortPlace
<1>2. PICK Bounds \in SUBSET Nat :
        /\ Place(f, Bounds)
        /\ Pinned(project, f) => Bounds = {project.pin[f]}
        /\ ~ Pinned(project, f) => \A g \in Before(project, f) : finish[g] \in Bounds
  BY SortPlace
<1>3. /\ start' \in [Feature -> Nat \cup {None}] /\ finish' \in [Feature -> Nat \cup {None}]
      /\ start'[f] \in Bounds /\ start'[f] \in Nat /\ finish'[f] \in Nat
      /\ \A b \in Bounds : b <= start'[f]
      /\ \A g \in Feature \ {f} : start'[g] = start[g] /\ finish'[g] = finish[g]
      /\ Placed' = Placed \cup {f} /\ Timed'
  BY <1>1, <1>2, PlaceFacts DEF IInv
<1>4. ASSUME NEW g \in Feature
      PROVE  /\ Edge(project, f, g) => /\ inDegree[g] - 1 = Cardinality(Before(project, g) \ sorted')
                                       /\ inDegree[g] - 1 \in Nat
                                       /\ inDegree[g] = 1 <=> Before(project, g) \subseteq sorted'
             /\ ~ Edge(project, f, g) => Before(project, g) \ sorted' = Before(project, g) \ sorted
  <2>1. CASE Edge(project, f, g)
    <3> DEFINE S == Before(project, g) \ sorted
    <3>1. f \in S /\ IsFiniteSet(S)
      BY <1>1, <2>1, BeforeFinite DEF Before
    <3>2. S \ {f} = Before(project, g) \ sorted'
      BY <1>1
    <3>3. inDegree[g] = Cardinality(S)
      BY DEF IInv, Counted
    <3>4. /\ Cardinality(S \ {f}) = Cardinality(S) - 1 /\ Cardinality(S \ {f}) \in Nat
          /\ Cardinality(S) = 1 <=> S \ {f} = {}
      BY <3>1, CountDown
    <3> HIDE DEF S
    <3>5. S \ {f} = {} <=> Before(project, g) \subseteq sorted'
      BY <3>2
    <3>6. QED
      BY <2>1, <3>2, <3>3, <3>4, <3>5
  <2>2. CASE ~ Edge(project, f, g)
    BY <1>1, <2>2 DEF Before
  <2>3. QED
    BY <2>1, <2>2
<1>5. inDegree' \in [Feature -> Nat] /\ Counted'
  <2>1. inDegree' = [g \in Feature |-> IF Edge(project, f, g) THEN inDegree[g] - 1 ELSE inDegree[g]]
    BY DEF Sort
  <2>2. inDegree' \in [Feature -> Nat]
    BY <1>4, <2>1 DEF IInv, TypeOK
  <2>3. \A g \in Feature : inDegree'[g] = Cardinality(Before(project, g) \ sorted')
    BY <1>4, <2>1 DEF IInv, Counted
  <2>4. QED
    BY <1>1, <2>2, <2>3 DEF Counted
<1>6. QueueExact'
  <2>1. queue' = (queue \ {f}) \cup {g \in Feature : Edge(project, f, g) /\ inDegree[g] = 1}
    BY DEF Sort, Pop, Ready
  <2>2. queue = {g \in Feature \ sorted : Before(project, g) \subseteq sorted}
    BY DEF IInv, QueueExact
  <2>3. ASSUME NEW g \in Feature
        PROVE  g \in queue' <=> g \notin sorted' /\ Before(project, g) \subseteq sorted'
    <3>1. CASE Edge(project, f, g)
      <4>1. f \in Before(project, g)
        BY <3>1 DEF Before
      <4>2. g \notin sorted
        BY <1>1, <4>1 DEF IInv, QueueExact
      <4>3. g # f
        BY <1>1, <4>1
      <4>4. QED
        BY <1>1, <1>4, <2>1, <2>2, <3>1, <4>2, <4>3
    <3>2. CASE ~ Edge(project, f, g)
      <4>1. Before(project, g) \subseteq sorted' <=> Before(project, g) \subseteq sorted
        BY <1>4, <3>2
      <4>2. QED
        BY <1>1, <2>1, <2>2, <3>2, <4>1
    <3>3. QED
      BY <3>1, <3>2
  <2>4. queue' \subseteq Feature
    BY <2>1, <2>2
  <2>5. \A g \in sorted' : Before(project, g) \subseteq sorted'
    BY <1>1 DEF IInv, QueueExact
  <2>6. QED
    BY <1>1, <1>3, <2>3, <2>4, <2>5 DEF QueueExact
<1>7. SortedInOrder'
  <2> SUFFICES ASSUME NEW g \in sorted'
               PROVE  IF Pinned(project, g) THEN start'[g] = project.pin[g]
                      ELSE \A h \in Before(project, g) : h \in sorted' /\ finish'[h] <= start'[g]
    BY <1>1 DEF SortedInOrder
  <2>1. CASE g = f
    BY <1>1, <1>2, <1>3, <2>1 DEF Before
  <2>2. CASE g # f
    BY <1>1, <1>3, <2>2 DEF IInv, SortedInOrder, TypeOK, Placed, Before
  <2>3. QED
    BY <2>1, <2>2
<1>8. FallbackInOrder'
  BY <1>1, <1>3 DEF FallbackInOrder
<1>9. TypeOK'
  BY <1>1, <1>3, <1>5, <1>6 DEF IInv, TypeOK, QueueExact
<1>10. QED
  BY <1>3, <1>5, <1>6, <1>7, <1>8, <1>9 DEF IInv

(* A feature the queue never got: it goes behind the earlier epics.        *)
LEMMA FallbackStep ==
  ASSUME IInv, NEW f \in Feature, Fallback(f)
  PROVE  IInv'
<1> DEFINE Earlier == {h \in Placed : EarlierEpic(f, h)}
           Bounds == {Base(project, f)} \cup {End(g) : g \in Earlier}
<1>1. /\ queue = {} /\ f \notin Placed
      /\ \A g \in Feature \ Placed : f <= g
      /\ Place(f, Bounds)
      /\ project' = project /\ queue' = queue /\ inDegree' = inDegree /\ sorted' = sorted
  BY DEF Fallback, NextLeft
<1>2. Earlier \subseteq Feature
  BY DEF Placed
<1>3. Bounds \in SUBSET Nat
  BY <1>2, BoundsFacts DEF IInv
<1>4. \A g \in Earlier : finish[g] \in Bounds
  BY DEF IInv, Timed, End, Placed
<1> HIDE DEF Bounds
<1>5. /\ start' \in [Feature -> Nat \cup {None}] /\ finish' \in [Feature -> Nat \cup {None}]
      /\ \A b \in Bounds : b <= start'[f]
      /\ \A g \in Feature \ {f} : start'[g] = start[g] /\ finish'[g] = finish[g]
      /\ Placed' = Placed \cup {f} /\ Timed'
  BY <1>1, <1>3, PlaceFacts DEF IInv
<1>6. \A g \in Feature : EarlierEpic(f, g) => g \in Placed
  <2>1. \A g \in Feature : EarlierEpic(f, g) => g < f
    BY ProjectFacts DEF IInv, TypeOK, EarlierEpic
  <2>2. \A g \in Feature : g \in Nat
    BY ScheduleAssumption
  <2>3. QED
    BY <1>1, <2>1, <2>2
<1>7. FallbackInOrder'
  <2> SUFFICES ASSUME NEW h \in Placed' \ sorted', NEW g \in Feature, EarlierEpic(h, g)
               PROVE  g \in Placed' /\ finish'[g] <= start'[h]
    BY <1>1 DEF FallbackInOrder, EarlierEpic
  <2>1. CASE h = f
    <3>1. g \in Earlier /\ g # f
      BY <1>1, <1>6, <2>1
    <3>2. QED
      BY <1>4, <1>5, <2>1, <3>1
  <2>2. CASE h # f
    <3>1. h \in Placed \ sorted /\ g \in Placed /\ finish[g] <= start[h]
      BY <1>1, <1>5, <2>2 DEF IInv, FallbackInOrder
    <3>2. g # f /\ h \in Feature
      BY <1>1, <3>1 DEF Placed
    <3>3. QED
      BY <1>5, <2>2, <3>1, <3>2
  <2>3. QED
    BY <2>1, <2>2
<1>8. SortedInOrder'
  <2>1. f \notin sorted
    BY <1>1 DEF IInv, TypeOK
  <2>2. sorted \subseteq Feature
    BY DEF IInv, TypeOK, Placed
  <2>3. \A g \in sorted : \A h \in Before(project, g) : h \in sorted
    BY DEF IInv, QueueExact
  <2>4. QED
    BY <1>1, <1>5, <2>1, <2>2, <2>3 DEF IInv, SortedInOrder
<1>9. TypeOK' /\ Counted' /\ QueueExact'
  BY <1>1, <1>5 DEF IInv, TypeOK, Counted, QueueExact
<1>10. QED
  BY <1>5, <1>7, <1>8, <1>9 DEF IInv

LEMMA StepInv == IInv /\ [Next]_vars => IInv'
<1>1. ASSUME IInv, Next PROVE IInv'
  BY <1>1, SortStep, FallbackStep DEF Next
<1>2. ASSUME IInv, UNCHANGED vars PROVE IInv'
  BY <1>2 DEF vars, IInv, TypeOK, Counted, QueueExact, Timed, SortedInOrder, FallbackInOrder,
              EarlierEpic, Placed
<1>3. QED
  BY <1>1, <1>2

THEOREM Invariance == Spec => []IInv
BY InitInv, StepInv, PTL DEF Spec

(* Typing: the state is well formed, and what is placed has left the       *)
(* queue.                                                                  *)
THEOREM Typing == Spec => []TypeOK
<1>1. IInv => TypeOK
  BY DEF IInv
<1>2. QED
  BY <1>1, Invariance, PTL

(* Order: a feature from the queue starts after everything it waits for,   *)
(* or at its pin.                                                          *)
THEOREM Order == Spec => []SortedInOrder
<1>1. IInv => SortedInOrder
  BY DEF IInv
<1>2. QED
  BY <1>1, Invariance, PTL

(* Leftovers: the fallback gets only features on a cycle or behind one.    *)
THEOREM Leftovers == Spec => []LeftoverWaits
<1>1. IInv => LeftoverWaits
  BY DEF IInv, QueueExact, LeftoverWaits, Before
<1>2. QED
  BY <1>1, Invariance, PTL

(* With an empty queue and no cycle, everything went through the queue.    *)
LEMMA NothingLeft ==
  ASSUME IInv, queue = {}, Acyclic(Edges(project))
  PROVE  sorted = Feature
<1>1. sorted \subseteq Feature
  BY DEF IInv, TypeOK, Placed
<1> DEFINE S == Feature \ sorted
<1>2. SUFFICES ASSUME S # {} PROVE FALSE
  BY <1>1
<1>3. PICK f \in S : \A g \in S : <<g, f>> \notin Edges(project)
  BY <1>2 DEF Acyclic
<1>4. \A g \in S : g \notin Before(project, f)
  BY <1>3 DEF Edges, Before
<1>5. QED
  BY <1>3, <1>4 DEF IInv, QueueExact, Before

(* Dependencies: in a project without a cycle, features start after the    *)
(* features and epics they depend on, or at their pins.                    *)
THEOREM Dependencies == Spec => []DependenciesHold
<1>1. IInv => DependenciesHold
  <2> SUFFICES ASSUME IInv, Done, Acyclic(Edges(project)), NEW f \in Feature, NEW g \in Feature
               PROVE  IF Pinned(project, f) THEN start[f] = project.pin[f]
                      ELSE \/ <<f, g>> \in project.deps
                           \/ <<project.epicOf[f], project.epicOf[g]>> \in project.epicDeps
                           => finish[g] <= start[f]
    BY DEF DependenciesHold
  <2>1. f \in sorted
    BY NothingLeft DEF Done
  <2>2. ASSUME \/ <<f, g>> \in project.deps
               \/ <<project.epicOf[f], project.epicOf[g]>> \in project.epicDeps
        PROVE  g \in Before(project, f)
    BY <2>2 DEF Before, Edge, Dependency, EpicDependency
  <2>3. QED
    BY <2>1, <2>2 DEF IInv, SortedInOrder
<1>2. QED
  BY <1>1, Invariance, PTL

(* Fallback order: what the fallback places comes after everything in the  *)
(* earlier epics.                                                          *)
THEOREM FallbackOrder == Spec => []FallbackAfterEarlierEpics
<1>1. IInv => FallbackAfterEarlierEpics
  BY DEF IInv, FallbackInOrder, FallbackAfterEarlierEpics, Done, EarlierEpic
<1>2. QED
  BY <1>1, Invariance, PTL

(* Each placement is a step the promise allows.                            *)
LEMMA PlaceRefines ==
  ASSUME IInv, NEW f \in Feature, f \notin Placed, project' = project,
         NEW Bounds \in SUBSET Nat, Place(f, Bounds),
         \A g \in Feature : <<g, f>> \in Waits => finish[g] # None /\ finish[g] \in Bounds
  PROVE  Promise!Next
<1>1. /\ start' \in [Feature -> Nat \cup {None}] /\ finish' \in [Feature -> Nat \cup {None}]
      /\ start'[f] \in Nat /\ finish'[f] \in Nat /\ start'[f] < finish'[f]
      /\ \A b \in Bounds : b <= start'[f]
      /\ \A g \in Feature \ {f} : start'[g] = start[g] /\ finish'[g] = finish[g]
  BY PlaceFacts DEF IInv
<1>2. start[f] = None /\ finish[f] = None
  BY DEF IInv, Timed, Placed
<1>3. Waits' = Waits
  BY DEF Waits
<1>4. ASSUME NEW g \in Feature
      PROVE  Promise!Begins(g) /\ Promise!Ends(g) /\ Promise!Stays(g)
  <2>1. CASE g = f
    <3>1. Promise!Begins(f)
      BY <1>1 DEF Promise!Begins
    <3>2. Promise!Ends(f) /\ Promise!Stays(f)
      BY <1>1, <1>2, ScheduleAssumption DEF Promise!Ends, Promise!Stays
    <3>3. QED
      BY <2>1, <3>1, <3>2
  <2>2. CASE g # f
    <3>1. start'[g] = start[g] /\ finish'[g] = finish[g]
      BY <1>1, <2>2
    <3>2. finish[g] # None => start[g] # None /\ start[g] < finish[g]
      BY DEF IInv, Timed, Placed
    <3>3. QED
      BY <3>1, <3>2 DEF Promise!Begins, Promise!Ends, Promise!Stays
  <2>3. QED
    BY <2>1, <2>2
<1>5. QED
  BY <1>1, <1>3, <1>4 DEF Promise!Next

(* Refinement: the placement implements SchedulePromise.                   *)
THEOREM Refinement == Spec => ImplementsPromise
<1>1. Init => Promise!Init
  BY DEF Init, Promise!Init, Waits, Edges
<1>2. IInv /\ [Next]_vars => [Promise!Next]_(Promise!vars)
  <2>1. ASSUME IInv, NEW f \in Feature, Sort(f) PROVE Promise!Next
    <3>1. PICK Bounds \in SUBSET Nat :
            /\ Place(f, Bounds)
            /\ ~ Pinned(project, f) => \A g \in Before(project, f) : finish[g] \in Bounds
      BY <2>1, SortPlace
    <3>2. f \notin Placed /\ Placed = sorted /\ project' = project /\ Before(project, f) \subseteq sorted
      BY <2>1, SortPlace
    <3>3. \A g \in Feature : <<g, f>> \in Waits => g \in Before(project, f) /\ ~ Pinned(project, f)
      BY DEF Waits, Edges, Before
    <3>4. \A g \in Feature : <<g, f>> \in Waits => finish[g] # None /\ finish[g] \in Bounds
      BY <2>1, <3>1, <3>2, <3>3 DEF IInv, Timed
    <3>5. QED
      BY <2>1, <3>1, <3>2, <3>4, PlaceRefines
  <2>2. ASSUME IInv, NEW f \in Feature, Fallback(f) PROVE Promise!Next
    <3> DEFINE S == {h \in Placed : EarlierEpic(f, h)}
               Bounds == {Base(project, f)} \cup {End(g) : g \in S}
    <3>1. queue = {} /\ f \notin Placed /\ Place(f, Bounds) /\ project' = project
      BY <2>2 DEF Fallback, NextLeft
    <3>2. S \in SUBSET Feature
      BY DEF Placed
    <3>3. Bounds \in SUBSET Nat
      BY <2>2, <3>2, BoundsFacts DEF IInv
    <3> HIDE DEF Bounds
    <3>4. ~ Acyclic(Edges(project))
      BY <2>2, <3>1, NothingLeft DEF IInv, TypeOK
    <3>5. Waits = {}
      BY <3>4 DEF Waits
    <3>6. QED
      BY <2>2, <3>1, <3>3, <3>5, PlaceRefines
  <2>3. ASSUME UNCHANGED vars PROVE UNCHANGED Promise!vars
    BY <2>3 DEF vars, Promise!vars, Waits
  <2>4. QED
    BY <2>1, <2>2, <2>3 DEF Next
<1>3. QED
  BY <1>1, <1>2, Invariance, PTL DEF Spec, ImplementsPromise, Promise!Spec

(* PlacementSound (FeatureSchedule): the parts proved above, together.      *)
THEOREM SoundPlacement == Spec => []PlacementSound
BY Typing, Order, Leftovers, Dependencies, FallbackOrder, PTL DEF PlacementSound

----------------------------------------------------------------------------
(* LevelledSchedule.                                                       *)

(* The step that counts for bookings.                                      *)
Hour == IF low THEN t - 1 ELSE t

(* How many steps of week w lie before step s.                             *)
Elapsed(w, s) ==
  IF s <= w * StepsPerWeek THEN 0
  ELSE IF s >= (w + 1) * StepsPerWeek THEN StepsPerWeek
  ELSE s - w * StepsPerWeek

Clock ==
  /\ t \in 0 .. LastStep + 1 /\ low \in BOOLEAN /\ (low => t > 0)
  /\ stage = "allocate" => ~ Reached(LastStep)

Typed ==
  /\ stage \in {"place", "begin", "allocate", "failed", "written"}
  /\ project \in Project /\ work \in Work
  /\ simStart \in [Feature -> Nat \cup {None}] /\ simDone \in [Feature -> Nat \cup {None}]
  /\ idx \in [Feature -> Nat \ {0}]
  /\ \A f \in Feature : idx[f] \in DOMAIN Phases(f) \/ (idx[f] = 1 /\ remaining[f] = NoDemand)
  /\ remaining \in [Feature -> [Role -> Nat]]
  /\ free \in [Role -> Nat] /\ served \subseteq Feature \X Role
  /\ consumed \in [Role -> [Weeks -> Nat]]
  /\ phaseStart \in [Feature -> Nat \cup {None}]
  /\ bars \in [Feature -> Seq([start : Nat, done : Nat])]

(* Bookings stay within the capacity of the steps so far.                  *)
Booked ==
  \A r \in Role, w \in Weeks :
    IF stage = "allocate" /\ w = CurrentWeek
    THEN consumed[r][w] + free[r] <= work.capacity[r][w] * (Elapsed(w, Hour) + 1)
    ELSE consumed[r][w] <= work.capacity[r][w] * Elapsed(w, Hour)

(* Until it is replaced, the placement stands.                             *)
PlacementStands ==
  /\ stage = "place" =>
       /\ IInv
       /\ \A f \in Feature : simStart[f] = None /\ simDone[f] = None
  /\ stage \in {"begin", "allocate", "failed"} =>
       /\ start \in [Feature -> Nat] /\ finish \in [Feature -> Nat]
       /\ \A f \in Feature : start[f] < finish[f]

PinsKept ==
  stage # "place" =>
    \A f \in Feature : Pinned(project, f) => /\ simStart[f] = project.pin[f]
                                             /\ simDone[f] = project.pin[f] + project.stored[f]

SimInOrder ==
  \A f \in AutoFeatures :
    /\ simStart[f] # None =>
         /\ simStart[f] <= t
         /\ \A g \in Before(project, f) : simDone[g] # None /\ simDone[g] <= simStart[f]
    /\ simDone[f] # None => simStart[f] # None /\ simStart[f] < simDone[f] /\ simDone[f] <= t

(* Where the bar of the current story may start.                           *)
LastDone(f) == IF bars[f] = <<>> THEN simStart[f] ELSE bars[f][Len(bars[f])].done

BarsFollow ==
  \A f \in Feature :
    /\ bars[f] # <<>> => f \in AutoFeatures /\ simStart[f] # None /\ bars[f][Len(bars[f])].done <= t
    /\ phaseStart[f] # None => f \in Active /\ LastDone(f) <= phaseStart[f] /\ phaseStart[f] <= t
    /\ f \in AutoFeatures /\ simDone[f] = None => Len(bars[f]) = idx[f] - 1

LevelInv ==
  /\ Clock /\ Typed /\ Booked /\ PlacementStands /\ PinsKept /\ SimInOrder /\ BarsFollow
  /\ StoriesInOrder /\ WrittenInOrder

----------------------------------------------------------------------------
(* Numbers.                                                                *)

LEMMA LeastOfThree ==
  ASSUME NEW a \in Nat, NEW b \in Nat, NEW c \in Nat
  PROVE  Min({a, b, c}) \in Nat /\ Min({a, b, c}) <= a /\ Min({a, b, c}) <= b
<1>1. \E x \in {a, b, c} : \A y \in {a, b, c} : x <= y
  OBVIOUS
<1>2. QED
  BY <1>1 DEF Min

LEMMA AtLeastZero ==
  ASSUME NEW a \in Nat, NEW b \in Nat
  PROVE  Max({0, a - b}) \in Nat /\ Max({0, a - b}) <= a
<1>1. \E x \in {0, a - b} : \A y \in {0, a - b} : x >= y
  OBVIOUS
<1>2. QED
  BY <1>1 DEF Max

LEMMA Quotient ==
  ASSUME NEW a \in Nat, NEW b \in Nat \ {0}
  PROVE  a \div b \in Nat /\ (a \div b) * b <= a /\ a < (a \div b + 1) * b
OBVIOUS

LEMMA TimesMonotone ==
  ASSUME NEW a \in Nat, NEW b \in Nat, NEW c \in Nat, b <= c
  PROVE  a * b <= a * c /\ a * b \in Nat /\ a * c \in Nat
<1>1. c - b \in Nat /\ c = b + (c - b)
  OBVIOUS
<1>2. a * c = a * b + a * (c - b)
  BY <1>1
<1>3. a * (c - b) \in Nat /\ a * b \in Nat /\ a * c \in Nat
  BY <1>1
<1>4. QED
  BY <1>2, <1>3

LEMMA QuotientMonotone ==
  ASSUME NEW a \in Nat, NEW c \in Nat, a <= c, NEW b \in Nat \ {0}
  PROVE  a \div b <= c \div b
<1>1. SUFFICES ASSUME c \div b + 1 <= a \div b PROVE FALSE
  BY Quotient
<1>2. c \div b + 1 \in Nat /\ a \div b \in Nat
  BY Quotient
<1>3. b * (c \div b + 1) <= b * (a \div b)
  BY <1>1, <1>2, TimesMonotone
<1>4. (c \div b + 1) * b = b * (c \div b + 1) /\ (a \div b) * b = b * (a \div b)
  BY <1>2
<1>5. (a \div b) * b <= a /\ c < (c \div b + 1) * b
  BY Quotient
<1> HIDE DEF Min
<1>6. (a \div b) * b \in Nat /\ (c \div b + 1) * b \in Nat
  BY <1>2
<1>7. QED
  BY <1>3, <1>4, <1>5, <1>6

(* The steps of a week elapse one by one.                                  *)
LEMMA ElapsedFacts ==
  ASSUME NEW w \in Nat, NEW s \in Nat
  PROVE  /\ Elapsed(w, s) \in Nat /\ Elapsed(w, s) <= StepsPerWeek
         /\ \A u \in Nat : s <= u => Elapsed(w, s) <= Elapsed(w, u)
         /\ w = s \div StepsPerWeek => Elapsed(w, s + 1) = Elapsed(w, s) + 1
<1>1. StepsPerWeek \in Nat \ {0}
  BY WorkAssumption
<1> DEFINE a == w * StepsPerWeek
<1>2. a \in Nat /\ (w + 1) * StepsPerWeek = a + StepsPerWeek
  BY <1>1
<1>3. w = s \div StepsPerWeek => a <= s /\ s < a + StepsPerWeek
  BY <1>1, <1>2, Quotient
<1>4. \A u \in Nat : Elapsed(w, u) = IF u <= a THEN 0
                                     ELSE IF u >= a + StepsPerWeek THEN StepsPerWeek ELSE u - a
  BY <1>2 DEF Elapsed
<1> HIDE DEF a
<1>5. Elapsed(w, s) \in Nat /\ Elapsed(w, s) <= StepsPerWeek
  BY <1>1, <1>2, <1>4
<1>6. \A u \in Nat : s <= u => Elapsed(w, s) <= Elapsed(w, u)
  BY <1>1, <1>2, <1>4
<1>7. ASSUME w = s \div StepsPerWeek PROVE Elapsed(w, s + 1) = Elapsed(w, s) + 1
  <2>1. s + 1 \in Nat
    OBVIOUS
  <2>2. QED
    BY <1>1, <1>2, <1>3, <1>4, <1>7, <2>1
<1>8. QED
  BY <1>5, <1>6, <1>7

(* While the simulation runs, its week is one of the weeks.                *)
LEMMA WeekFacts ==
  ASSUME Clock, ~ Reached(LastStep)
  PROVE  /\ t \in Step /\ Hour \in Nat /\ Hour <= t /\ t <= Hour + 1
         /\ CurrentWeek = Hour \div StepsPerWeek /\ CurrentWeek \in Weeks
<1>1. t \in Nat /\ low \in BOOLEAN /\ (low => t > 0) /\ LastStep \in Nat /\ StepsPerWeek \in Nat \ {0}
  BY WorkAssumption DEF Clock
<1>2. t <= LastStep
  BY <1>1 DEF Reached
<1>3. Hour \in Nat /\ Hour <= t /\ t <= Hour + 1
  BY <1>1 DEF Hour
<1>4. CurrentWeek = Hour \div StepsPerWeek
  BY DEF CurrentWeek, Hour
<1>5. Hour \div StepsPerWeek \in Nat /\ Hour \div StepsPerWeek <= LastStep \div StepsPerWeek
      /\ LastStep \div StepsPerWeek \in Nat
  BY <1>1, <1>2, <1>3, Quotient, QuotientMonotone
<1>6. QED
  BY <1>1, <1>2, <1>3, <1>4, <1>5 DEF Step, Weeks

(* A sequence that is not empty has a last bar.                            *)
LEMMA LastBar ==
  ASSUME NEW q \in Seq([start : Nat, done : Nat]), q # <<>>
  PROVE  /\ Len(q) \in DOMAIN q /\ Len(q) \in Nat \ {0} /\ DOMAIN q = 1 .. Len(q)
         /\ q[Len(q)].start \in Nat /\ q[Len(q)].done \in Nat
<1> DEFINE S == [start : Nat, done : Nat]
<1>0. q \in Seq(S)
  OBVIOUS
<1> HIDE DEF S
<1>1. Len(q) \in Nat \ {0} /\ DOMAIN q = 1 .. Len(q)
  <2>1. Len(q) \in Nat \ {0}
    BY <1>0, EmptySeq, Zenon
  <2>2. DOMAIN q = 1 .. Len(q)
    BY <1>0
  <2>3. QED
    BY <2>1, <2>2
<1>2. q[Len(q)] \in S
  <2>1. Len(q) \in 1 .. Len(q)
    BY <1>1
  <2>2. QED
    BY <1>0, <2>1, ElementOfSeq
<1>3. q[Len(q)].start \in Nat /\ q[Len(q)].done \in Nat
  BY <1>2 DEF S
<1>4. QED
  BY <1>1, <1>3

----------------------------------------------------------------------------
(* Workloads.                                                              *)

LEMMA WorkFacts ==
  ASSUME Typed
  PROVE  /\ \A f \in Feature : Phases(f) \in Seq(Phase)
         /\ \A f \in Feature, n \in Nat : DemandOf(f, n) \in [Role -> Nat]
         /\ work.capacity \in [Role -> [Weeks -> Nat]]
         /\ work.held \in [Role -> [Step -> Nat]]
         /\ NoDemand \in [Role -> Nat]
<1>1. work \in WorkShape
  BY WorkAssumption DEF Typed
<1>2. /\ work.phases \in [Feature -> Seq(Phase)]
      /\ work.capacity \in [Role -> [Weeks -> Nat]] /\ work.held \in [Role -> [Step -> Nat]]
  BY <1>1 DEF WorkShape
<1>3. \A f \in Feature : Phases(f) \in Seq(Phase)
  BY <1>2 DEF Phases
<1>4. NoDemand \in [Role -> Nat]
  BY DEF NoDemand
<1>5. ASSUME NEW f \in Feature, NEW n \in Nat PROVE DemandOf(f, n) \in [Role -> Nat]
  <2>1. CASE n \in DOMAIN Phases(f)
    <3>1. Phases(f)[n] \in Phase
      BY <1>3, <2>1
    <3>2. QED
      BY <2>1, <3>1 DEF DemandOf, Phase
  <2>2. CASE n \notin DOMAIN Phases(f)
    BY <1>4, <2>2 DEF DemandOf
  <2>3. QED
    BY <2>1, <2>2
<1>6. QED
  BY <1>2, <1>3, <1>4, <1>5

(* A share is no more than what remains and no more than what is free.     *)
LEMMA ShareFacts ==
  ASSUME Typed, NEW r \in Role, NEW f \in Competing(r)
  PROVE  /\ f \in Feature /\ f \in Active /\ idx[f] \in DOMAIN Phases(f)
         /\ Share(f, r) \in Nat /\ Share(f, r) <= remaining[f][r] /\ Share(f, r) <= free[r]
<1>1. f \in Active /\ f \in Feature /\ remaining[f][r] > 0
  BY DEF Competing, Active, Unfinished, AutoFeatures
<1>2. remaining[f][r] \in Nat /\ free[r] \in Nat /\ idx[f] \in Nat
  BY <1>1 DEF Typed
<1>3. idx[f] \in DOMAIN Phases(f)
  BY <1>1 DEF Typed, NoDemand
<1>4. Phases(f)[idx[f]].length \in Nat \ {0}
  <2>1. Phases(f)[idx[f]] \in Phase
    BY <1>1, <1>3, WorkFacts
  <2>2. QED
    BY <2>1 DEF Phase
<1>5. DemandOf(f, idx[f])[r] \in Nat
  BY <1>1, <1>2, WorkFacts
<1>6. Pace(f, r) \in Nat
  BY <1>4, <1>5, Quotient DEF Pace
<1>7. QED
  BY <1>1, <1>2, <1>3, <1>6, LeastOfThree DEF Share

(* Numbers of a project.                                                   *)
LEMMA PinFacts ==
  ASSUME NEW p \in Project, NEW f \in Feature
  PROVE  /\ p.stored[f] \in Nat \ {0}
         /\ p.pin[f] \in Nat \cup {None}
         /\ Pinned(p, f) => p.pin[f] \in Nat
         /\ ~ Pinned(p, f) => p.pin[f] = None
<1>1. p \in ProjectShape
  BY ScheduleAssumption
<1>2. p.stored \in [Feature -> Nat \ {0}] /\ p.pin \in [Feature -> Nat \cup {None}]
  BY <1>1 DEF ProjectShape
<1>3. QED
  BY <1>2 DEF Pinned

----------------------------------------------------------------------------
(* The steps, one by one.                                                  *)

LEMMA LevelInitInv == LevelInit => LevelInv
<1> SUFFICES ASSUME LevelInit PROVE LevelInv
  OBVIOUS
<1>1. IInv /\ project \in Project /\ work \in Work /\ stage = "place"
  BY InitInv DEF LevelInit, Init
<1>2. Clock
  <2>1. t = 0 /\ ~ low /\ low \in BOOLEAN
    BY Zenon DEF LevelInit
  <2>2. 0 \in 0 .. LastStep + 1
    BY WorkAssumption
  <2>3. QED
    BY <1>1, <2>1, <2>2 DEF Clock
<1>3. Typed
  <2>1. \A f \in Feature : DemandOf(f, 1) \in [Role -> Nat]
    <3>1. work \in WorkShape
      BY <1>1, WorkAssumption
    <3>2. work.phases \in [Feature -> Seq(Phase)]
      BY <3>1 DEF WorkShape
    <3> SUFFICES ASSUME NEW f \in Feature PROVE DemandOf(f, 1) \in [Role -> Nat]
      OBVIOUS
    <3>3. CASE 1 \in DOMAIN Phases(f)
      <4>1. Phases(f)[1] \in Phase
        BY <3>2, <3>3 DEF Phases
      <4>2. QED
        BY <3>3, <4>1 DEF DemandOf, Phase
    <3>4. CASE 1 \notin DOMAIN Phases(f)
      BY <3>4 DEF DemandOf, NoDemand
    <3>5. QED
      BY <3>3, <3>4
  <2>2. \A f \in Feature : 1 \in DOMAIN Phases(f) \/ DemandOf(f, 1) = NoDemand
    BY DEF DemandOf
  <2>3. \A r \in Role : consumed[r] \in [Weeks -> Nat]
    BY DEF LevelInit
  <2>4. QED
    BY <1>1, <2>1, <2>2, <2>3 DEF LevelInit, Typed, NoDemand
<1>4. Booked
  <2> SUFFICES ASSUME NEW r \in Role, NEW w \in Weeks
               PROVE  consumed[r][w] <= work.capacity[r][w] * Elapsed(w, Hour)
    BY <1>1 DEF Booked
  <2>1. consumed[r][w] = 0 /\ Hour = 0 /\ w \in Nat
    BY DEF LevelInit, Hour, Weeks
  <2>2. work.capacity[r][w] \in Nat
    BY <1>3, WorkFacts
  <2>3. Elapsed(w, 0) \in Nat
    BY <2>1, ElapsedFacts
  <2>4. QED
    BY <2>1, <2>2, <2>3
<1>5. PlacementStands /\ PinsKept /\ SimInOrder /\ WrittenInOrder
  BY <1>1 DEF LevelInit, PlacementStands, PinsKept, SimInOrder, WrittenInOrder, AutoFeatures
<1>6. BarsFollow /\ StoriesInOrder
  BY DEF LevelInit, BarsFollow, StoriesInOrder
<1>7. QED
  BY <1>2, <1>3, <1>4, <1>5, <1>6 DEF LevelInv

LEMMA PlaceStep ==
  ASSUME LevelInv, PlaceNext
  PROVE  LevelInv'
<1>1. stage = "place" /\ IInv /\ Next /\ UNCHANGED <<work, stage, clock, simStart, simDone, progress, step>>
  BY DEF PlaceNext, LevelInv, PlacementStands
<1>2. IInv' /\ project' = project
  BY <1>1, StepInv DEF Next, Sort, Fallback
<1>3. Clock'
  BY <1>1 DEF LevelInv, Clock, Reached, clock
<1>4. Typed'
  BY <1>1, <1>2 DEF LevelInv, Typed, Phases, progress, step
<1>5. Booked'
  BY <1>1 DEF LevelInv, Booked, Hour, CurrentWeek, Elapsed, clock, progress, step
<1>6. PlacementStands' /\ PinsKept'
  BY <1>1, <1>2 DEF LevelInv, PlacementStands, PinsKept
<1>7. SimInOrder'
  BY <1>1, <1>2 DEF LevelInv, SimInOrder, PlacementStands, AutoFeatures, clock
<1>8. BarsFollow' /\ StoriesInOrder' /\ WrittenInOrder'
  BY <1>1, <1>2 DEF LevelInv, BarsFollow, StoriesInOrder, WrittenInOrder, LastDone,
                    Active, Unfinished, AutoFeatures, Phases, clock, progress
<1>9. QED
  BY <1>3, <1>4, <1>5, <1>6, <1>7, <1>8 DEF LevelInv

LEMMA PrepareStep ==
  ASSUME LevelInv, Prepare
  PROVE  LevelInv'
<1>1. /\ stage = "place" /\ Done /\ stage' = "begin" /\ IInv
      /\ UNCHANGED <<placement, work, clock, progress, step>>
      /\ \A f \in Feature : simStart[f] = None /\ simDone[f] = None
  BY DEF Prepare, LevelInv, PlacementStands
<1>2. project' = project /\ project \in Project
  BY <1>1 DEF placement, LevelInv, Typed
<1>3. \A f \in Feature : /\ simStart'[f] = project.pin[f]
                         /\ simDone'[f] = IF Pinned(project, f)
                                          THEN project.pin[f] + project.stored[f] ELSE None
  BY DEF Prepare
<1>4. Clock'
  BY <1>1 DEF LevelInv, Clock, Reached, clock
<1>5. Typed'
  <2>1. simStart' \in [Feature -> Nat \cup {None}] /\ simDone' \in [Feature -> Nat \cup {None}]
    BY <1>2, PinFacts DEF Prepare
  <2>2. QED
    BY <1>1, <1>2, <2>1 DEF LevelInv, Typed, Phases, progress, step
<1>6. Booked'
  BY <1>1 DEF LevelInv, Booked, Hour, CurrentWeek, Elapsed, clock, progress, step
<1>7. PlacementStands'
  <2>1. \A f \in Feature : f \in Placed
    BY <1>1 DEF Done
  <2>2. start \in [Feature -> Nat] /\ finish \in [Feature -> Nat] /\ \A f \in Feature : start[f] < finish[f]
    BY <1>1, <2>1 DEF IInv, TypeOK, Timed, Placed
  <2>3. QED
    BY <1>1, <2>2 DEF PlacementStands, placement
<1>8. PinsKept'
  BY <1>2, <1>3 DEF PinsKept
<1>9. SimInOrder'
  BY <1>2, <1>3, PinFacts DEF SimInOrder, AutoFeatures
<1>10. \A f \in Feature : bars[f] = <<>> /\ phaseStart[f] = None
  BY <1>1 DEF LevelInv, BarsFollow, Active
<1>11. BarsFollow'
  BY <1>1, <1>2, <1>3, <1>10 DEF LevelInv, BarsFollow, AutoFeatures, progress
<1>12. StoriesInOrder' /\ WrittenInOrder'
  BY <1>1, <1>2, <1>3, <1>10 DEF StoriesInOrder, WrittenInOrder, progress
<1>13. QED
  BY <1>4, <1>5, <1>6, <1>7, <1>8, <1>9, <1>11, <1>12 DEF LevelInv

LEMMA BeginStep ==
  ASSUME LevelInv, BeginRound
  PROVE  LevelInv'
<1>1. PICK B \in Eligible :
        /\ simStart' = [f \in Feature |-> IF f \in B THEN t ELSE simStart[f]]
        /\ IF Active \cup B = {}
           THEN Tick
           ELSE /\ stage' = IF Throws THEN "failed" ELSE "allocate"
                /\ free' = [r \in Role |-> StepCapacity(r)] /\ served' = {}
                /\ UNCHANGED clock
  BY DEF BeginRound
<1>2. /\ stage = "begin" /\ Simulating
      /\ UNCHANGED <<placement, work, simDone, progress>>
      /\ project' = project /\ Clock /\ Typed /\ ~ Reached(LastStep) /\ t \in Nat
  BY DEF BeginRound, Simulating, LevelInv, placement, Clock
<1>3. ASSUME NEW f \in B
      PROVE  /\ f \in AutoFeatures /\ f \in Feature /\ simStart[f] = None /\ simDone[f] = None
             /\ f \notin Active
             /\ \A g \in Before(project, f) : simDone[g] # None /\ simDone[g] <= t
  BY <1>1, <1>3 DEF Eligible, Waiting, Ended, Unfinished, AutoFeatures, Active
<1>4. \A f \in Feature : simStart'[f] = IF f \in B THEN t ELSE simStart[f]
  BY <1>1
<1>5. simStart' \in [Feature -> Nat \cup {None}]
  BY <1>1, <1>2 DEF Typed
<1>6. /\ t' \in 0 .. LastStep + 1 /\ low' \in BOOLEAN /\ (low' => t' > 0) /\ t <= t'
      /\ (stage' = "allocate" => ~ Reached(LastStep)')
      /\ Hour' \in Nat /\ Hour <= Hour'
      /\ stage' \in {"begin", "allocate", "failed"}
      /\ (stage' # "begin" => t' = t /\ low' = low)
  <2>1. /\ t \in Step /\ Hour \in Nat /\ Hour <= t /\ t <= Hour + 1
    BY <1>2, WeekFacts
  <2>2. CASE Active \cup B = {}
    <3>1. t' = t + 1 /\ low' \in BOOLEAN /\ stage' = "begin"
      BY <1>1, <1>2, <2>2 DEF Tick
    <3>2. t' \in 0 .. LastStep + 1 /\ t' > 0 /\ t <= t'
      BY <2>1, <3>1, WorkAssumption DEF Step
    <3>3. Hour' \in Nat /\ Hour <= Hour'
      BY <2>1, <3>1 DEF Hour, Step
    <3>4. QED
      BY <3>1, <3>2, <3>3
  <2>3. CASE Active \cup B # {}
    <3>1. t' = t /\ low' = low /\ stage' \in {"allocate", "failed"}
      BY <1>1, <2>3 DEF clock
    <3>2. Hour' = Hour /\ (Reached(LastStep)' <=> Reached(LastStep))
      BY <3>1 DEF Hour, Reached
    <3>3. QED
      BY <1>2, <2>1, <3>1, <3>2 DEF Clock
  <2>4. QED
    BY <2>2, <2>3
<1>7. Clock'
  BY <1>6 DEF Clock
<1>8. free' \in [Role -> Nat] /\ served' \subseteq Feature \X Role
      /\ (stage' # "begin" => \A r \in Role : free'[r] <= work.capacity[r][CurrentWeek])
  <2>1. CASE Active \cup B = {}
    BY <1>1, <1>2, <2>1 DEF Tick, step, Typed
  <2>2. CASE Active \cup B # {}
    <3>1. ASSUME NEW r \in Role PROVE StepCapacity(r) \in Nat /\ StepCapacity(r) <= work.capacity[r][CurrentWeek]
      <4>1. work.capacity[r][CurrentWeek] \in Nat /\ work.held[r][t] \in Nat
        BY <1>2, WorkFacts, WeekFacts
      <4>2. QED
        BY <4>1, AtLeastZero DEF StepCapacity
    <3>2. QED
      BY <1>1, <2>2, <3>1
  <2>3. QED
    BY <2>1, <2>2
<1>9. Typed'
  BY <1>2, <1>5, <1>6, <1>8 DEF Typed, progress, Phases
<1>10. Booked'
  <2> SUFFICES ASSUME NEW r \in Role, NEW w \in Weeks
               PROVE  IF stage' = "allocate" /\ w = CurrentWeek'
                      THEN consumed[r][w] + free'[r] <= work.capacity[r][w] * (Elapsed(w, Hour') + 1)
                      ELSE consumed[r][w] <= work.capacity[r][w] * Elapsed(w, Hour')
    BY <1>2 DEF Booked, progress
  <2>1. /\ w \in Nat /\ Hour \in Nat /\ work.capacity[r][w] \in Nat /\ consumed[r][w] \in Nat
        /\ consumed[r][w] <= work.capacity[r][w] * Elapsed(w, Hour)
    <3>1. Hour \in Nat /\ work.capacity[r][w] \in Nat
      BY <1>2, WorkFacts, WeekFacts
    <3>2. consumed[r] \in [Weeks -> Nat]
      BY <1>2 DEF Typed
    <3>3. consumed[r][w] <= work.capacity[r][w] * Elapsed(w, Hour)
      BY <1>2 DEF LevelInv, Booked
    <3>4. w \in Nat
      BY DEF Weeks
    <3>5. QED
      BY <3>1, <3>2, <3>3, <3>4
  <2>2. /\ Elapsed(w, Hour) \in Nat /\ Elapsed(w, Hour') \in Nat
        /\ Elapsed(w, Hour) <= Elapsed(w, Hour')
    BY <1>6, <2>1, ElapsedFacts
  <2>3. consumed[r][w] <= work.capacity[r][w] * Elapsed(w, Hour')
    <3>1. /\ work.capacity[r][w] * Elapsed(w, Hour) <= work.capacity[r][w] * Elapsed(w, Hour')
          /\ work.capacity[r][w] * Elapsed(w, Hour) \in Nat
          /\ work.capacity[r][w] * Elapsed(w, Hour') \in Nat
      BY <2>1, <2>2, TimesMonotone
    <3>2. QED
      BY <2>1, <3>1
  <2>4. CASE stage' = "allocate" /\ w = CurrentWeek'
    <3>1. CurrentWeek' = CurrentWeek
      BY <1>6, <2>4 DEF CurrentWeek
    <3>2. free'[r] \in Nat /\ free'[r] <= work.capacity[r][w]
      BY <1>8, <2>4, <3>1
    <3>3. work.capacity[r][w] * (Elapsed(w, Hour') + 1)
            = work.capacity[r][w] * Elapsed(w, Hour') + work.capacity[r][w]
      BY <2>1, <2>2
    <3>4. work.capacity[r][w] * Elapsed(w, Hour') \in Nat
      BY <2>1, <2>2
    <3>5. QED
      BY <2>1, <2>3, <2>4, <3>2, <3>3, <3>4
  <2>5. QED
    BY <2>3, <2>4
<1>11. PlacementStands'
  BY <1>2, <1>6 DEF LevelInv, PlacementStands, placement
<1>12. PinsKept'
  BY <1>2, <1>3, <1>4 DEF LevelInv, PinsKept, AutoFeatures
<1>13. SimInOrder'
  <2> SUFFICES ASSUME NEW f \in AutoFeatures
               PROVE  /\ simStart'[f] # None =>
                           /\ simStart'[f] <= t'
                           /\ \A g \in Before(project, f) : simDone[g] # None /\ simDone[g] <= simStart'[f]
                      /\ simDone[f] # None =>
                           simStart'[f] # None /\ simStart'[f] < simDone[f] /\ simDone[f] <= t'
    BY <1>2 DEF SimInOrder, AutoFeatures
  <2>1. f \in Feature
    BY DEF AutoFeatures
  <2>2. CASE f \in B
    BY <1>2, <1>3, <1>4, <1>6, <2>1, <2>2
  <2>3. CASE f \notin B
    <3>1. simStart'[f] = simStart[f] /\ simStart[f] \in Nat \cup {None} /\ simDone[f] \in Nat \cup {None}
      BY <1>2, <1>4, <2>1, <2>3 DEF Typed
    <3>2. t' \in Nat /\ t \in Nat /\ t <= t'
      BY <1>2, <1>6
    <3>3. QED
      BY <3>1, <3>2 DEF LevelInv, SimInOrder
  <2>4. QED
    BY <2>2, <2>3
<1>14. \A f \in Feature : bars[f] # <<>> \/ phaseStart[f] # None => f \notin B
  BY <1>3 DEF LevelInv, BarsFollow, Active
<1>15. BarsFollow'
  <2> SUFFICES ASSUME NEW f \in Feature
               PROVE  /\ bars[f] # <<>> => f \in AutoFeatures /\ simStart'[f] # None /\ bars[f][Len(bars[f])].done <= t'
                      /\ phaseStart[f] # None => f \in Active' /\ LastDone(f)' <= phaseStart[f] /\ phaseStart[f] <= t'
                      /\ f \in AutoFeatures /\ simDone[f] = None => Len(bars[f]) = idx[f] - 1
    BY <1>2 DEF BarsFollow, AutoFeatures, progress
  <2>1. bars[f] # <<>> => f \in AutoFeatures /\ simStart'[f] # None /\ bars[f][Len(bars[f])].done <= t'
    <3> HAVE bars[f] # <<>>
    <3>1. f \in AutoFeatures /\ simStart[f] # None /\ bars[f][Len(bars[f])].done <= t
      BY DEF LevelInv, BarsFollow
    <3>2. bars[f][Len(bars[f])].done \in Nat
      BY <1>2, LastBar DEF Typed
    <3>3. QED
      BY <1>2, <1>4, <1>6, <1>14, <3>1, <3>2
  <2>2. phaseStart[f] # None => f \in Active' /\ LastDone(f)' <= phaseStart[f] /\ phaseStart[f] <= t'
    <3> HAVE phaseStart[f] # None
    <3>1. f \in Active /\ LastDone(f) <= phaseStart[f] /\ phaseStart[f] <= t /\ phaseStart[f] \in Nat
      BY <1>2 DEF LevelInv, BarsFollow, Typed
    <3>2. simStart'[f] = simStart[f]
      BY <1>4, <1>14
    <3>3. f \in Active' /\ LastDone(f)' = LastDone(f)
      BY <1>2, <3>1, <3>2 DEF Active, Unfinished, AutoFeatures, LastDone, progress
    <3>4. QED
      BY <1>2, <1>6, <3>1, <3>3
  <2>3. f \in AutoFeatures /\ simDone[f] = None => Len(bars[f]) = idx[f] - 1
    BY DEF LevelInv, BarsFollow
  <2>4. QED
    BY <2>1, <2>2, <2>3
<1>16. StoriesInOrder'
  <2>1. \A f \in Feature : bars[f] # <<>> => simStart'[f] = simStart[f]
    BY <1>4, <1>14
  <2>2. \A f \in Feature : bars[f] = <<>> => DOMAIN bars[f] = {}
    OBVIOUS
  <2>3. QED
    BY <1>2, <2>1, <2>2 DEF LevelInv, StoriesInOrder, progress, Phases, AutoFeatures
<1>17. WrittenInOrder'
  BY <1>6 DEF WrittenInOrder
<1>18. QED
  BY <1>7, <1>9, <1>10, <1>11, <1>12, <1>13, <1>15, <1>16, <1>17 DEF LevelInv

LEMMA AllocateStep ==
  ASSUME LevelInv, NEW f \in Feature, NEW r \in Role, Allocate(f, r)
  PROVE  LevelInv'
<1>1. /\ stage = "allocate" /\ f \in Competing(r)
      /\ served' = served \cup {<<f, r>>}
      /\ free' = [free EXCEPT ![r] = @ - Share(f, r)]
      /\ remaining' = [remaining EXCEPT ![f][r] = @ - Share(f, r)]
      /\ consumed' = [consumed EXCEPT ![r][CurrentWeek] = @ + Share(f, r)]
      /\ phaseStart' = IF Share(f, r) > 0 /\ phaseStart[f] = None
                       THEN [phaseStart EXCEPT ![f] = t] ELSE phaseStart
      /\ UNCHANGED <<placement, work, stage, clock, simStart, simDone, idx, bars>>
  BY DEF Allocate
<1>2. Clock /\ Typed /\ ~ Reached(LastStep) /\ t \in Nat /\ project' = project
  BY <1>1 DEF LevelInv, Clock, placement
<1>3. /\ f \in Active /\ idx[f] \in DOMAIN Phases(f)
      /\ Share(f, r) \in Nat /\ Share(f, r) <= remaining[f][r] /\ Share(f, r) <= free[r]
  BY <1>1, <1>2, ShareFacts
<1>4. CurrentWeek \in Weeks /\ CurrentWeek' = CurrentWeek /\ Hour' = Hour /\ t' = t
  BY <1>1, <1>2, WeekFacts DEF CurrentWeek, Hour, clock
<1>5. Clock'
  BY <1>1, <1>2 DEF Clock, Reached, clock
<1>6. /\ free' \in [Role -> Nat] /\ free'[r] = free[r] - Share(f, r)
      /\ \A q \in Role : q # r => free'[q] = free[q]
  BY <1>1, <1>2, <1>3 DEF Typed
<1>7. remaining' \in [Feature -> [Role -> Nat]]
  <2>1. remaining[f][r] \in Nat /\ remaining[f][r] - Share(f, r) \in Nat
    BY <1>2, <1>3 DEF Typed
  <2>2. QED
    BY <1>1, <1>2, <2>1 DEF Typed
<1>8. /\ consumed' \in [Role -> [Weeks -> Nat]]
      /\ consumed'[r][CurrentWeek] = consumed[r][CurrentWeek] + Share(f, r)
      /\ \A q \in Role, w \in Weeks :
           q # r \/ w # CurrentWeek => consumed'[q][w] = consumed[q][w]
  <2>1. consumed \in [Role -> [Weeks -> Nat]] /\ consumed[r][CurrentWeek] + Share(f, r) \in Nat
    BY <1>2, <1>3, <1>4 DEF Typed
  <2> HIDE DEF Weeks
  <2>2. QED
    BY <1>1, <1>4, <2>1
<1>9. /\ phaseStart' \in [Feature -> Nat \cup {None}]
      /\ \A g \in Feature : g # f \/ phaseStart[f] # None => phaseStart'[g] = phaseStart[g]
      /\ phaseStart[f] = None => phaseStart'[f] \in {None, t}
  BY <1>1, <1>2 DEF Typed
<1>10. Typed'
  <2>1. \A g \in Feature : idx'[g] \in DOMAIN Phases(g)' \/ (idx'[g] = 1 /\ remaining'[g] = NoDemand)
    <3>1. \A g \in Feature : idx'[g] = idx[g] /\ Phases(g)' = Phases(g)
      BY <1>1 DEF Phases
    <3>2. \A g \in Feature : g # f => remaining'[g] = remaining[g]
      BY <1>1, <1>2 DEF Typed
    <3>3. QED
      BY <1>2, <1>3, <3>1, <3>2 DEF Typed
  <2>2. served' \subseteq Feature \X Role
    BY <1>1, <1>2 DEF Typed
  <2>3. QED
    BY <1>1, <1>2, <1>6, <1>7, <1>8, <1>9, <2>1, <2>2 DEF Typed
<1>11. Booked'
  <2> SUFFICES ASSUME NEW q \in Role, NEW w \in Weeks
               PROVE  IF w = CurrentWeek
                      THEN consumed'[q][w] + free'[q] <= work.capacity[q][w] * (Elapsed(w, Hour) + 1)
                      ELSE consumed'[q][w] <= work.capacity[q][w] * Elapsed(w, Hour)
    BY <1>1, <1>4 DEF Booked, Elapsed
  <2>1. IF w = CurrentWeek
        THEN consumed[q][w] + free[q] <= work.capacity[q][w] * (Elapsed(w, Hour) + 1)
        ELSE consumed[q][w] <= work.capacity[q][w] * Elapsed(w, Hour)
    BY <1>1 DEF LevelInv, Booked
  <2>2. CASE w # CurrentWeek
    BY <1>8, <2>1, <2>2
  <2>3. CASE w = CurrentWeek
    <3>1. consumed'[q][w] + free'[q] = consumed[q][w] + free[q]
      <4>1. consumed[q] \in [Weeks -> Nat] /\ free[q] \in Nat
        BY <1>2 DEF Typed
      <4>2. consumed[q][w] \in Nat
        BY <4>1
      <4>3. CASE q = r
        BY <1>3, <1>6, <1>8, <2>3, <4>1, <4>2, <4>3
      <4>4. CASE q # r
        BY <1>6, <1>8, <4>4
      <4>5. QED
        BY <4>3, <4>4
    <3>2. QED
      BY <2>1, <2>3, <3>1
  <2>4. QED
    BY <2>2, <2>3
<1>12. PlacementStands' /\ PinsKept' /\ SimInOrder' /\ WrittenInOrder'
  BY <1>1, <1>2 DEF LevelInv, PlacementStands, PinsKept, SimInOrder, WrittenInOrder, AutoFeatures,
                    placement, clock
<1>13. StoriesInOrder'
  BY <1>1, <1>2 DEF LevelInv, StoriesInOrder, Phases
<1>14. \A g \in Feature : g \in Active => g \in Active' /\ LastDone(g)' = LastDone(g)
  BY <1>1, <1>2 DEF Active, Unfinished, AutoFeatures, LastDone
<1>15. LastDone(f) <= t
  <2>1. CASE bars[f] = <<>>
    BY <1>3, <2>1 DEF LevelInv, SimInOrder, LastDone, Active, Unfinished
  <2>2. CASE bars[f] # <<>>
    BY <2>2 DEF LevelInv, BarsFollow, LastDone
  <2>3. QED
    BY <2>1, <2>2
<1>16. BarsFollow'
  <2> SUFFICES ASSUME NEW g \in Feature
               PROVE  /\ bars[g] # <<>> => g \in AutoFeatures /\ simStart[g] # None /\ bars[g][Len(bars[g])].done <= t
                      /\ phaseStart'[g] # None => g \in Active' /\ LastDone(g)' <= phaseStart'[g] /\ phaseStart'[g] <= t
                      /\ g \in AutoFeatures /\ simDone[g] = None => Len(bars[g]) = idx[g] - 1
    BY <1>1, <1>2, <1>4 DEF BarsFollow, AutoFeatures
  <2>1. phaseStart'[g] # None => g \in Active' /\ LastDone(g)' <= phaseStart'[g] /\ phaseStart'[g] <= t
    <3>1. CASE g # f \/ phaseStart[f] # None
      BY <1>9, <1>14, <3>1 DEF LevelInv, BarsFollow
    <3>2. CASE g = f /\ phaseStart[f] = None
      BY <1>2, <1>3, <1>9, <1>14, <1>15, <3>2
    <3>3. QED
      BY <3>1, <3>2
  <2>2. QED
    BY <2>1 DEF LevelInv, BarsFollow
<1>17. QED
  BY <1>5, <1>10, <1>11, <1>12, <1>13, <1>16 DEF LevelInv

(* What a finished story appends to the bars of its feature.               *)
LEMMA BarFacts ==
  ASSUME LevelInv, stage = "allocate", NEW f \in Feature, Exhausted(f)
  PROVE  /\ f \in AutoFeatures /\ simDone[f] = None /\ simStart[f] # None /\ simStart[f] <= t
         /\ LastDone(f) \in Nat /\ LastDone(f) <= Bar(f).start
         /\ Bar(f).start < Bar(f).done /\ Bar(f).done = t + 1
         /\ Bar(f) \in [start : Nat, done : Nat]
         /\ Len(bars[f]) = idx[f] - 1 /\ Len(bars[f]) \in Nat
         /\ Phases(f) # <<>> => idx[f] \in 1 .. Len(Phases(f))
         /\ Phases(f) = <<>> => idx[f] = 1 /\ bars[f] = <<>>
<1>1. f \in Active /\ f \in AutoFeatures /\ simDone[f] = None /\ simStart[f] # None
  BY DEF Exhausted, Active, Unfinished
<1>2. Typed /\ t \in Nat /\ simStart[f] \in Nat /\ simStart[f] <= t
  BY <1>1 DEF LevelInv, Typed, Clock, SimInOrder
<1>3. bars[f] \in Seq([start : Nat, done : Nat]) /\ phaseStart[f] \in Nat \cup {None} /\ idx[f] \in Nat \ {0}
  BY <1>2 DEF Typed
<1>4. LastDone(f) \in Nat /\ LastDone(f) <= t
  <2>1. CASE bars[f] = <<>>
    BY <1>2, <2>1 DEF LastDone
  <2>2. CASE bars[f] # <<>>
    BY <1>3, <2>2, LastBar DEF LevelInv, BarsFollow, LastDone
  <2>3. QED
    BY <2>1, <2>2
<1>5. phaseStart[f] # None => LastDone(f) <= phaseStart[f] /\ phaseStart[f] <= t
  BY DEF LevelInv, BarsFollow
<1>6. /\ LastDone(f) <= Bar(f).start /\ Bar(f).start < Bar(f).done /\ Bar(f).done = t + 1
      /\ Bar(f) \in [start : Nat, done : Nat]
  BY <1>2, <1>3, <1>4, <1>5 DEF Bar
<1>7. Len(bars[f]) = idx[f] - 1
  BY <1>1 DEF LevelInv, BarsFollow
<1>8. Phases(f) \in Seq(Phase)
  BY <1>2, WorkFacts
<1>9. idx[f] \in DOMAIN Phases(f) \/ idx[f] = 1
  BY <1>2 DEF Typed
<1>10. DOMAIN Phases(f) = 1 .. Len(Phases(f))
  BY <1>8
<1>11. Phases(f) # <<>> => Len(Phases(f)) \in Nat \ {0}
  BY <1>8, EmptySeq, Zenon
<1>12. Phases(f) # <<>> => idx[f] \in 1 .. Len(Phases(f))
  BY <1>9, <1>10, <1>11
<1>13. Phases(f) = <<>> => idx[f] = 1
  BY <1>9
<1>14. bars[f] # <<>> => Len(bars[f]) # 0
  BY <1>3, LastBar
<1>15. QED
  BY <1>1, <1>2, <1>3, <1>4, <1>6, <1>7, <1>12, <1>13, <1>14

LEMMA FinishStep ==
  ASSUME LevelInv, FinishRound
  PROVE  LevelInv'
<1>1. /\ stage = "allocate" /\ stage' = "begin" /\ t' = t + 1 /\ low' = FALSE
      /\ UNCHANGED <<placement, work, simStart, consumed, step>>
      /\ project' = project /\ work' = work
  BY DEF FinishRound, Rounded, placement
<1>2. /\ Clock /\ Typed /\ ~ Reached(LastStep) /\ t \in Nat
      /\ \A f \in Feature : Phases(f)' = Phases(f)
  BY <1>1 DEF LevelInv, Clock, Phases
<1>3. /\ t \in Step /\ Hour \in Nat /\ Hour <= t /\ Hour' = t + 1
      /\ CurrentWeek = Hour \div StepsPerWeek /\ t + 1 # None
  BY <1>1, <1>2, WeekFacts, ScheduleAssumption DEF Hour
<1>4. \A f \in Feature :
        /\ bars'[f] = IF Exhausted(f) /\ Phases(f) # <<>> THEN Append(bars[f], Bar(f)) ELSE bars[f]
        /\ idx'[f] = IF Exhausted(f) /\ More(f) THEN idx[f] + 1 ELSE idx[f]
        /\ remaining'[f] = IF Exhausted(f) /\ More(f) THEN DemandOf(f, idx[f] + 1) ELSE remaining[f]
        /\ phaseStart'[f] = IF Exhausted(f) THEN None ELSE phaseStart[f]
        /\ simDone'[f] = IF Exhausted(f) /\ ~ More(f) THEN t + 1 ELSE simDone[f]
  BY DEF FinishRound
<1>5. Clock'
  <2>1. t + 1 \in 0 .. LastStep + 1 /\ FALSE \in BOOLEAN
    BY <1>3, WorkAssumption DEF Step
  <2>2. QED
    BY <1>1, <2>1 DEF Clock
(* What becomes of a finished story.                                       *)
<1>6. ASSUME NEW f \in Feature, Exhausted(f), Phases(f) # <<>>
      PROVE  /\ bars'[f] \in Seq([start : Nat, done : Nat]) /\ bars'[f] # <<>>
             /\ Len(bars'[f]) = idx[f] /\ bars'[f][idx[f]] = Bar(f)
             /\ DOMAIN bars'[f] = 1 .. idx[f]
             /\ \A n \in 1 .. idx[f] - 1 : bars'[f][n] = bars[f][n]
  <2> DEFINE S == [start : Nat, done : Nat]
  <2>1. bars[f] \in Seq(S) /\ Bar(f) \in S /\ Len(bars[f]) = idx[f] - 1 /\ idx[f] \in Nat \ {0}
    BY <1>1, <1>2, <1>6, BarFacts DEF Typed
  <2>2. bars'[f] = Append(bars[f], Bar(f))
    BY <1>4, <1>6
  <2> HIDE DEF S
  <2>3. /\ bars'[f] \in Seq(S) /\ bars'[f] # <<>> /\ Len(bars'[f]) = Len(bars[f]) + 1
        /\ \A n \in 1 .. Len(bars[f]) : bars'[f][n] = bars[f][n]
        /\ bars'[f][Len(bars[f]) + 1] = Bar(f)
    BY <2>1, <2>2, AppendProperties
  <2>4. Len(bars[f]) + 1 = idx[f]
    BY <2>1
  <2>5. DOMAIN bars'[f] = 1 .. Len(bars'[f])
    BY <2>3
  <2>6. QED
    BY <2>1, <2>3, <2>4, <2>5 DEF S
<1>7. ASSUME NEW f \in Feature
      PROVE  Exhausted(f) /\ More(f) =>
               idx[f] + 1 \in DOMAIN Phases(f) /\ idx[f] + 1 \in Nat \ {0} /\ Phases(f) # <<>>
  <2> HAVE Exhausted(f) /\ More(f)
  <2>1. Phases(f) \in Seq(Phase) /\ idx[f] \in Nat \ {0} /\ idx[f] < Len(Phases(f))
    BY <1>2, WorkFacts DEF Typed, More
  <2>2. DOMAIN Phases(f) = 1 .. Len(Phases(f)) /\ Len(Phases(f)) \in Nat
    BY <2>1
  <2>3. Phases(f) # <<>>
    BY <2>1
  <2>4. QED
    BY <2>1, <2>2, <2>3
<1>8. Typed'
  <2>1. /\ simDone' \in [Feature -> Nat \cup {None}] /\ idx' \in [Feature -> Nat \ {0}]
        /\ phaseStart' \in [Feature -> Nat \cup {None}]
    <3>1. ASSUME NEW f \in Feature
          PROVE  simDone'[f] \in Nat \cup {None} /\ idx'[f] \in Nat \ {0} /\ phaseStart'[f] \in Nat \cup {None}
      BY <1>2, <1>4, <1>7 DEF Typed
    <3>2. QED
      BY <3>1 DEF FinishRound
  <2>2. \A f \in Feature : idx'[f] \in DOMAIN Phases(f) \/ (idx'[f] = 1 /\ remaining'[f] = NoDemand)
    BY <1>2, <1>4, <1>7 DEF Typed
  <2>3. remaining' \in [Feature -> [Role -> Nat]]
    <3>1. ASSUME NEW f \in Feature PROVE remaining'[f] \in [Role -> Nat]
      <4>1. remaining[f] \in [Role -> Nat]
        BY <1>2 DEF Typed
      <4>2. CASE Exhausted(f) /\ More(f)
        <5>1. idx[f] + 1 \in Nat /\ remaining'[f] = DemandOf(f, idx[f] + 1)
          BY <1>4, <1>7, <4>2
        <5>2. QED
          BY <1>2, <5>1, WorkFacts
      <4>3. QED
        BY <1>4, <4>1, <4>2
    <3>2. QED
      BY <3>1 DEF FinishRound
  <2>4. bars' \in [Feature -> Seq([start : Nat, done : Nat])]
    <3>1. ASSUME NEW f \in Feature PROVE bars'[f] \in Seq([start : Nat, done : Nat])
      BY <1>2, <1>4, <1>6 DEF Typed
    <3>2. QED
      BY <3>1 DEF FinishRound
  <2>5. QED
    BY <1>1, <1>2, <2>1, <2>2, <2>3, <2>4 DEF Typed, step
<1>9. Booked'
  <2> SUFFICES ASSUME NEW r \in Role, NEW w \in Weeks
               PROVE  consumed[r][w] <= work.capacity[r][w] * Elapsed(w, t + 1)
    BY <1>1, <1>3 DEF Booked
  <2>1. w \in Nat
    BY DEF Weeks
  <2>2. work.capacity[r][w] \in Nat /\ free[r] \in Nat
    BY <1>2, WorkFacts DEF Typed
  <2>3. consumed[r][w] \in Nat
    <3>1. consumed[r] \in [Weeks -> Nat]
      BY <1>2 DEF Typed
    <3>2. QED
      BY <3>1
  <2>4. /\ Elapsed(w, Hour) \in Nat /\ Elapsed(w, t + 1) \in Nat /\ Elapsed(w, Hour + 1) \in Nat
        /\ Elapsed(w, Hour) <= Elapsed(w, t + 1) /\ Elapsed(w, Hour + 1) <= Elapsed(w, t + 1)
        /\ w = CurrentWeek => Elapsed(w, Hour + 1) = Elapsed(w, Hour) + 1
    <3>1. Hour + 1 \in Nat /\ t + 1 \in Nat /\ Hour <= t + 1 /\ Hour + 1 <= t + 1
      BY <1>2, <1>3
    <3>2. QED
      BY <1>3, <2>1, <3>1, ElapsedFacts
  <2>5. CASE w = CurrentWeek
    <3>1. consumed[r][w] + free[r] <= work.capacity[r][w] * Elapsed(w, Hour + 1)
      BY <1>1, <2>4, <2>5 DEF LevelInv, Booked
    <3>2. /\ work.capacity[r][w] * Elapsed(w, Hour + 1) <= work.capacity[r][w] * Elapsed(w, t + 1)
          /\ work.capacity[r][w] * Elapsed(w, Hour + 1) \in Nat
          /\ work.capacity[r][w] * Elapsed(w, t + 1) \in Nat
      BY <2>2, <2>4, TimesMonotone
    <3>3. QED
      BY <2>2, <2>3, <3>1, <3>2
  <2>6. CASE w # CurrentWeek
    <3>1. consumed[r][w] <= work.capacity[r][w] * Elapsed(w, Hour)
      BY <1>1, <2>6 DEF LevelInv, Booked
    <3>2. /\ work.capacity[r][w] * Elapsed(w, Hour) <= work.capacity[r][w] * Elapsed(w, t + 1)
          /\ work.capacity[r][w] * Elapsed(w, Hour) \in Nat
          /\ work.capacity[r][w] * Elapsed(w, t + 1) \in Nat
      BY <2>2, <2>4, TimesMonotone
    <3>3. QED
      BY <2>3, <3>1, <3>2
  <2>7. QED
    BY <2>5, <2>6
<1>10. PlacementStands' /\ WrittenInOrder'
  BY <1>1 DEF LevelInv, PlacementStands, WrittenInOrder, placement
<1>11. PinsKept'
  <2>1. \A f \in Feature : Pinned(project, f) => simDone'[f] = simDone[f]
    BY <1>4 DEF Exhausted, Active, Unfinished, AutoFeatures
  <2>2. QED
    BY <1>1, <2>1 DEF LevelInv, PinsKept
<1>12. SimInOrder'
  <2> SUFFICES ASSUME NEW f \in AutoFeatures
               PROVE  /\ simStart[f] # None =>
                           /\ simStart[f] <= t + 1
                           /\ \A g \in Before(project, f) : simDone'[g] # None /\ simDone'[g] <= simStart[f]
                      /\ simDone'[f] # None =>
                           simStart[f] # None /\ simStart[f] < simDone'[f] /\ simDone'[f] <= t + 1
    BY <1>1 DEF SimInOrder, AutoFeatures
  <2>1. f \in Feature /\ simStart[f] \in Nat \cup {None} /\ simDone[f] \in Nat \cup {None}
    BY <1>2 DEF Typed, AutoFeatures
  <2>2. ASSUME simStart[f] # None
        PROVE  /\ simStart[f] <= t + 1
               /\ \A g \in Before(project, f) : simDone'[g] # None /\ simDone'[g] <= simStart[f]
    <3>1. simStart[f] <= t + 1
      BY <1>2, <2>1, <2>2 DEF LevelInv, SimInOrder
    <3>2. ASSUME NEW g \in Before(project, f)
          PROVE  simDone'[g] # None /\ simDone'[g] <= simStart[f]
      <4>1. simDone[g] # None /\ simDone[g] <= simStart[f] /\ g \in Feature
        BY <2>2 DEF LevelInv, SimInOrder, Before
      <4>2. simDone'[g] = simDone[g]
        BY <1>4, <4>1 DEF Exhausted, Active, Unfinished
      <4>3. QED
        BY <4>1, <4>2
    <3>3. QED
      BY <3>1, <3>2
  <2>3. CASE Exhausted(f) /\ ~ More(f)
    BY <1>1, <1>2, <1>4, <2>1, <2>2, <2>3, BarFacts
  <2>4. CASE ~ (Exhausted(f) /\ ~ More(f))
    <3>1. simDone'[f] = simDone[f]
      BY <1>4, <2>1, <2>4
    <3>2. simDone[f] # None => simStart[f] # None /\ simStart[f] < simDone[f] /\ simDone[f] <= t
      BY DEF LevelInv, SimInOrder
    <3>3. QED
      BY <1>2, <2>1, <2>2, <3>1, <3>2
  <2>5. QED
    BY <2>3, <2>4
<1>13. BarsFollow'
  <2> SUFFICES ASSUME NEW f \in Feature
               PROVE  /\ bars'[f] # <<>> => f \in AutoFeatures /\ simStart[f] # None /\ bars'[f][Len(bars'[f])].done <= t + 1
                      /\ phaseStart'[f] # None => f \in Active' /\ LastDone(f)' <= phaseStart'[f] /\ phaseStart'[f] <= t + 1
                      /\ f \in AutoFeatures /\ simDone'[f] = None => Len(bars'[f]) = idx'[f] - 1
    BY <1>1 DEF BarsFollow, AutoFeatures
  <2>1. CASE Exhausted(f)
    <3>1. f \in AutoFeatures /\ simStart[f] # None /\ Bar(f).done = t + 1 /\ t + 1 <= t + 1
      BY <1>1, <1>2, <2>1, BarFacts
    <3>2. phaseStart'[f] = None
      BY <1>4, <2>1
    <3>3. CASE Phases(f) # <<>>
      <4>1. bars'[f][Len(bars'[f])] = Bar(f) /\ Len(bars'[f]) = idx[f]
        BY <1>6, <2>1, <3>3
      <4>2. simDone'[f] = None => idx'[f] = idx[f] + 1
        BY <1>3, <1>4, <2>1
      <4>3. idx[f] = idx[f] + 1 - 1
        BY <1>2 DEF Typed
      <4>4. QED
        BY <3>1, <3>2, <4>1, <4>2, <4>3
    <3>4. CASE Phases(f) = <<>>
      <4>1. bars'[f] = <<>> /\ idx[f] = 1
        BY <1>1, <1>4, <2>1, <3>4, BarFacts
      <4>2. ~ More(f)
        BY <3>4, <4>1 DEF More
      <4>3. simDone'[f] # None
        BY <1>3, <1>4, <2>1, <4>2
      <4>4. QED
        BY <3>2, <4>1, <4>3
    <3>5. QED
      BY <3>3, <3>4
  <2>2. CASE ~ Exhausted(f)
    <3>1. bars'[f] = bars[f] /\ phaseStart'[f] = phaseStart[f] /\ simDone'[f] = simDone[f] /\ idx'[f] = idx[f]
      BY <1>4, <2>2
    <3>2. f \in Active => f \in Active'
      BY <1>1, <3>1 DEF Active, Unfinished, AutoFeatures
    <3>3. LastDone(f)' = LastDone(f)
      BY <1>1, <3>1 DEF LastDone
    <3>4. bars[f] # <<>> => bars[f][Len(bars[f])].done \in Nat
      BY <1>2, LastBar DEF Typed
    <3>5. phaseStart[f] # None => phaseStart[f] \in Nat
      BY <1>2 DEF Typed
    <3>6. /\ bars[f] # <<>> => f \in AutoFeatures /\ simStart[f] # None /\ bars[f][Len(bars[f])].done <= t
          /\ phaseStart[f] # None => f \in Active /\ LastDone(f) <= phaseStart[f] /\ phaseStart[f] <= t
          /\ f \in AutoFeatures /\ simDone[f] = None => Len(bars[f]) = idx[f] - 1
      BY DEF LevelInv, BarsFollow
    <3>7. bars[f] # <<>> => bars[f][Len(bars[f])].done <= t + 1
      BY <1>2, <3>4, <3>6
    <3>8. phaseStart[f] # None => phaseStart[f] <= t + 1
      BY <1>2, <3>5, <3>6
    <3>9. QED
      BY <3>1, <3>2, <3>3, <3>6, <3>7, <3>8
  <2>3. QED
    BY <2>1, <2>2
<1>14. StoriesInOrder'
  <2> SUFFICES ASSUME NEW f \in Feature
               PROVE  /\ \A n \in DOMAIN bars'[f] :
                           /\ (IF n = 1 THEN simStart[f] ELSE bars'[f][n - 1].done) <= bars'[f][n].start
                           /\ bars'[f][n].start < bars'[f][n].done
                      /\ simDone'[f] # None /\ ~ Pinned(project, f) =>
                           Len(bars'[f]) = Len(Phases(f))
                           /\ (bars'[f] # <<>> => bars'[f][Len(bars'[f])].done = simDone'[f])
    BY <1>1, <1>2 DEF StoriesInOrder
  <2>1. /\ \A n \in DOMAIN bars[f] :
             /\ (IF n = 1 THEN simStart[f] ELSE bars[f][n - 1].done) <= bars[f][n].start
             /\ bars[f][n].start < bars[f][n].done
        /\ simDone[f] # None /\ ~ Pinned(project, f) =>
             Len(bars[f]) = Len(Phases(f)) /\ (bars[f] # <<>> => bars[f][Len(bars[f])].done = simDone[f])
    BY DEF LevelInv, StoriesInOrder
  <2>2. CASE ~ Exhausted(f)
    <3>1. bars'[f] = bars[f] /\ simDone'[f] = simDone[f]
      BY <1>4, <2>2
    <3>2. QED
      BY <2>1, <3>1
  <2>3. CASE Exhausted(f) /\ Phases(f) = <<>>
    <3>1. bars'[f] = <<>>
      BY <1>1, <1>4, <2>3, BarFacts
    <3>2. QED
      BY <2>3, <3>1
  <2>4. CASE Exhausted(f) /\ Phases(f) # <<>>
    <3>1. /\ bars'[f] # <<>> /\ Len(bars'[f]) = idx[f] /\ bars'[f][idx[f]] = Bar(f)
          /\ DOMAIN bars'[f] = 1 .. idx[f]
          /\ \A n \in 1 .. idx[f] - 1 : bars'[f][n] = bars[f][n]
      BY <1>6, <2>4
    <3>2. /\ simDone[f] = None /\ LastDone(f) <= Bar(f).start
          /\ Bar(f).start < Bar(f).done /\ Bar(f).done = t + 1
          /\ Len(bars[f]) = idx[f] - 1 /\ idx[f] \in 1 .. Len(Phases(f))
      BY <1>1, <2>4, BarFacts
    <3>3. bars[f] \in Seq([start : Nat, done : Nat]) /\ Phases(f) \in Seq(Phase) /\ idx[f] \in Nat \ {0}
      BY <1>2, WorkFacts DEF Typed
    <3>4. DOMAIN bars[f] = 1 .. idx[f] - 1 /\ Len(Phases(f)) \in Nat
      BY <3>2, <3>3
    <3>5. ASSUME NEW n \in 1 .. idx[f]
          PROVE  /\ (IF n = 1 THEN simStart[f] ELSE bars'[f][n - 1].done) <= bars'[f][n].start
                 /\ bars'[f][n].start < bars'[f][n].done
      <4>1. CASE n # idx[f]
        <5>1. n \in 1 .. idx[f] - 1 /\ (n # 1 => n - 1 \in 1 .. idx[f] - 1)
          BY <3>3, <4>1
        <5>2. QED
          BY <2>1, <3>1, <3>4, <5>1
      <4>2. CASE n = idx[f]
        <5>1. LastDone(f) = IF n = 1 THEN simStart[f] ELSE bars'[f][n - 1].done
          <6>1. CASE n = 1
            <7>1. Len(bars[f]) = 0
              BY <3>2, <4>2, <6>1
            <7>2. bars[f] = <<>>
              BY <3>3, <7>1, LastBar
            <7>3. QED
              BY <6>1, <7>2 DEF LastDone
          <6>2. CASE n # 1
            <7>1. n - 1 \in 1 .. idx[f] - 1 /\ Len(bars[f]) = n - 1 /\ n - 1 # 0
              BY <3>2, <3>3, <4>2, <6>2
            <7>2. bars[f] # <<>>
              BY <7>1
            <7>3. bars'[f][n - 1] = bars[f][n - 1]
              BY <3>1, <7>1
            <7>4. QED
              BY <6>2, <7>1, <7>2, <7>3 DEF LastDone
          <6>3. QED
            BY <6>1, <6>2
        <5>2. QED
          BY <3>1, <3>2, <4>2, <5>1
      <4>3. QED
        BY <4>1, <4>2
    <3>6. simDone'[f] # None => simDone'[f] = t + 1 /\ idx[f] = Len(Phases(f))
      <4>1. ~ More(f) => idx[f] = Len(Phases(f))
        BY <3>2, <3>3, <3>4 DEF More
      <4>2. QED
        BY <1>4, <2>4, <3>2, <4>1
    <3>7. QED
      BY <3>1, <3>2, <3>5, <3>6
  <2>5. QED
    BY <2>2, <2>3, <2>4
<1>15. QED
  BY <1>5, <1>8, <1>9, <1>10, <1>11, <1>12, <1>13, <1>14 DEF LevelInv

LEMMA WriteBackStep ==
  ASSUME LevelInv, WriteBack
  PROVE  LevelInv'
<1>1. /\ stage = "begin" /\ stage' = "written"
      /\ start' = [f \in Feature |-> IF simStart[f] # None THEN simStart[f] ELSE start[f]]
      /\ finish' = [f \in Feature |-> EndOf(f)]
      /\ UNCHANGED <<project, queue, inDegree, sorted, work, clock, simStart, simDone, progress, step>>
      /\ Typed /\ project \in Project
  BY DEF WriteBack, LevelInv, Typed
<1>2. Clock'
  BY <1>1 DEF LevelInv, Clock, clock
<1>3. Typed'
  BY <1>1 DEF Typed, Phases, progress, step
<1>4. Booked'
  BY <1>1 DEF LevelInv, Booked, Hour, CurrentWeek, Elapsed, clock, progress, step
<1>5. PlacementStands' /\ PinsKept'
  BY <1>1 DEF LevelInv, PlacementStands, PinsKept
<1>6. SimInOrder' /\ BarsFollow' /\ StoriesInOrder'
  BY <1>1 DEF LevelInv, SimInOrder, BarsFollow, StoriesInOrder, LastDone, Active, Unfinished,
              AutoFeatures, Phases, clock, progress
<1>7. WrittenInOrder'
  <2> SUFFICES ASSUME NEW f \in Feature
               PROVE  /\ start'[f] < finish'[f]
                      /\ Pinned(project, f) => /\ start'[f] = project.pin[f]
                                               /\ finish'[f] = start'[f] + project.stored[f]
                      /\ ~ Pinned(project, f) /\ simDone[f] # None =>
                           \A g \in Before(project, f) : finish'[g] <= start'[f]
    BY <1>1 DEF WrittenInOrder
  <2>1. \A g \in Feature : /\ start'[g] = IF simStart[g] # None THEN simStart[g] ELSE start[g]
                           /\ finish'[g] = IF simDone[g] # None THEN simDone[g] ELSE start'[g] + Length(g)
    BY <1>1 DEF EndOf
  <2>2. start[f] \in Nat /\ simStart[f] \in Nat \cup {None} /\ simDone[f] \in Nat \cup {None}
    BY <1>1 DEF LevelInv, PlacementStands, Typed
  <2>3. Length(f) \in Nat \ {0}
    <3>1. project \in ProjectShape
      BY <1>1, ScheduleAssumption
    <3>2. project.duration \in [Feature -> Nat \ {0}]
      BY <3>1 DEF ProjectShape
    <3>3. QED
      BY <3>2 DEF Length
  <2>4. CASE Pinned(project, f)
    <3>1. /\ simStart[f] = project.pin[f] /\ simDone[f] = project.pin[f] + project.stored[f]
          /\ project.pin[f] \in Nat /\ project.stored[f] \in Nat \ {0}
      BY <1>1, <2>4, PinFacts DEF LevelInv, PinsKept
    <3>2. simStart[f] # None /\ simDone[f] # None
      BY <3>1, ScheduleAssumption
    <3>3. QED
      BY <2>1, <2>4, <3>1, <3>2
  <2>5. CASE ~ Pinned(project, f)
    <3>1. /\ simStart[f] # None => \A g \in Before(project, f) : simDone[g] # None /\ simDone[g] <= simStart[f]
          /\ simDone[f] # None => simStart[f] # None /\ simStart[f] < simDone[f]
      BY <2>5 DEF LevelInv, SimInOrder, AutoFeatures
    <3>2. \A g \in Before(project, f) : g \in Feature
      BY DEF Before
    <3>3. start'[f] < finish'[f]
      BY <2>1, <2>2, <2>3, <3>1
    <3>4. QED
      BY <2>1, <2>5, <3>1, <3>2, <3>3
  <2>6. QED
    BY <2>4, <2>5
<1>8. QED
  BY <1>2, <1>3, <1>4, <1>5, <1>6, <1>7 DEF LevelInv

LEMMA LevelStepInv == LevelInv /\ [LevelNext]_levelVars => LevelInv'
<1> SUFFICES ASSUME LevelInv, [LevelNext]_levelVars PROVE LevelInv'
  OBVIOUS
<1>1. CASE PlaceNext
  BY <1>1, PlaceStep
<1>2. CASE Prepare
  BY <1>2, PrepareStep
<1>3. CASE BeginRound
  BY <1>3, BeginStep
<1>4. ASSUME NEW f \in Feature, NEW r \in Role, Allocate(f, r) PROVE LevelInv'
  BY <1>4, AllocateStep
<1>5. CASE FinishRound
  BY <1>5, FinishStep
<1>6. CASE WriteBack
  BY <1>6, WriteBackStep
<1>7. CASE UNCHANGED levelVars
  <2>1. /\ UNCHANGED <<project, queue, inDegree, start, finish, sorted>>
        /\ UNCHANGED <<work, stage, t, low, simStart, simDone, idx, remaining, phaseStart, bars, consumed>>
        /\ UNCHANGED <<free, served>>
    BY <1>7 DEF levelVars, placement, clock, progress, step
  <2>2. IInv => IInv'
    BY <2>1, StepInv DEF vars
  <2>3. Clock' /\ Typed' /\ Booked'
    BY <2>1 DEF LevelInv, Clock, Typed, Booked, Reached, Phases, Hour, CurrentWeek, Elapsed
  <2>4. PlacementStands' /\ PinsKept' /\ SimInOrder' /\ WrittenInOrder'
    BY <2>1, <2>2 DEF LevelInv, PlacementStands, PinsKept, SimInOrder, WrittenInOrder, AutoFeatures
  <2>5. BarsFollow' /\ StoriesInOrder'
    BY <2>1 DEF LevelInv, BarsFollow, StoriesInOrder, LastDone, Active, Unfinished, AutoFeatures, Phases
  <2>6. QED
    BY <2>3, <2>4, <2>5 DEF LevelInv
<1>8. QED
  BY <1>1, <1>2, <1>3, <1>4, <1>5, <1>6, <1>7 DEF LevelNext

----------------------------------------------------------------------------
(* The results.                                                            *)

(* The invariant the others follow from.                                   *)
THEOREM LevelInvariance == LevelSpec => []LevelInv
<1>1. LevelInit => LevelInv
  BY LevelInitInv
<1>2. LevelInv /\ [LevelNext]_levelVars => LevelInv'
  BY LevelStepInv
<1>3. QED
  BY <1>1, <1>2, PTL DEF LevelSpec

(* The variables of the simulation keep their types: no reservation, share *)
(* or remaining effort becomes negative, and no feature outgrows its       *)
(* stories.                                                                *)
THEOREM LevelTyping == LevelSpec => []LevelTypeOK
<1>1. LevelInv => LevelTypeOK
  BY DEF LevelInv, Clock, Typed, LevelTypeOK
<1>2. QED
  BY <1>1, LevelInvariance, PTL

(* No week gives a role more effort than its capacity.                     *)
THEOREM Budget == LevelSpec => []WeeklyBudget
<1>1. LevelInv => WeeklyBudget
  <2> SUFFICES ASSUME LevelInv, NEW r \in Role, NEW w \in Weeks
               PROVE  consumed[r][w] <= StepsPerWeek * work.capacity[r][w]
    BY DEF WeeklyBudget
  <2>1. /\ w \in Nat /\ Typed /\ Hour \in Nat
        /\ (stage = "allocate" /\ w = CurrentWeek => w = Hour \div StepsPerWeek)
    BY DEF Weeks, LevelInv, Clock, Hour, CurrentWeek
  <2>2. work.capacity[r][w] \in Nat /\ free[r] \in Nat
    BY <2>1, WorkFacts DEF Typed
  <2>3. consumed[r][w] \in Nat
    <3>1. consumed[r] \in [Weeks -> Nat]
      BY <2>1 DEF Typed
    <3>2. QED
      BY <3>1
  <2>4. PICK n \in Nat : n <= StepsPerWeek /\ consumed[r][w] <= work.capacity[r][w] * n
    <3>1. CASE stage = "allocate" /\ w = CurrentWeek
      <4>1. consumed[r][w] + free[r] <= work.capacity[r][w] * (Elapsed(w, Hour) + 1)
        BY <3>1 DEF LevelInv, Booked
      <4>2. /\ Elapsed(w, Hour) + 1 = Elapsed(w, Hour + 1) /\ Hour + 1 \in Nat
            /\ Elapsed(w, Hour + 1) \in Nat /\ Elapsed(w, Hour + 1) <= StepsPerWeek
        BY <2>1, <3>1, ElapsedFacts
      <4>3. work.capacity[r][w] * Elapsed(w, Hour + 1) \in Nat
        BY <2>2, <4>2, TimesMonotone
      <4>4. consumed[r][w] <= work.capacity[r][w] * Elapsed(w, Hour + 1)
        BY <2>2, <2>3, <4>1, <4>2, <4>3
      <4>5. QED
        BY <4>2, <4>4
    <3>2. CASE ~ (stage = "allocate" /\ w = CurrentWeek)
      <4>1. consumed[r][w] <= work.capacity[r][w] * Elapsed(w, Hour)
        BY <3>2 DEF LevelInv, Booked
      <4>2. Elapsed(w, Hour) \in Nat /\ Elapsed(w, Hour) <= StepsPerWeek
        BY <2>1, ElapsedFacts
      <4>3. QED
        BY <4>1, <4>2
    <3>3. QED
      BY <3>1, <3>2
  <2>5. /\ work.capacity[r][w] * n <= work.capacity[r][w] * StepsPerWeek
        /\ work.capacity[r][w] * n \in Nat /\ work.capacity[r][w] * StepsPerWeek \in Nat
    BY <2>2, <2>4, TimesMonotone, WorkAssumption
  <2>6. work.capacity[r][w] * StepsPerWeek = StepsPerWeek * work.capacity[r][w]
    BY <2>2, WorkAssumption
  <2>7. QED
    BY <2>3, <2>4, <2>5, <2>6
<1>2. QED
  BY <1>1, LevelInvariance, PTL

(* The bars of a feature's stories follow one another.                     *)
THEOREM Stories == LevelSpec => []StoriesInOrder
<1>1. LevelInv => StoriesInOrder
  BY DEF LevelInv
<1>2. QED
  BY <1>1, LevelInvariance, PTL

(* What is written keeps pins, and features the simulation finished start  *)
(* after everything they wait for.                                         *)
THEOREM Written == LevelSpec => []WrittenInOrder
<1>1. LevelInv => WrittenInOrder
  BY DEF LevelInv
<1>2. QED
  BY <1>1, LevelInvariance, PTL

----------------------------------------------------------------------------
(* Refinement.                                                             *)

(* Of a step it is enough to know that it moves nothing, and that what     *)
(* unpinned features wait for had ended when they begin.                   *)
LEMMA PromiseStep ==
  ASSUME LevelInv, LevelInv', project' = project, stage' # "place",
         \A f \in Feature : /\ simStart[f] # None => simStart'[f] = simStart[f]
                            /\ simDone[f] # None => simDone'[f] = simDone[f],
         \A f \in AutoFeatures :
           simStart[f] = None /\ simStart'[f] # None =>
             \A g \in Before(project, f) : simDone[g] # None /\ simDone[g] <= simStart'[f]
  PROVE  SimulationPromise!Next
<1> USE DEF SimulationPromise!Next
<1>1. Edges(project)' = Edges(project) /\ \A f \in Feature : Pinned(project, f)' = Pinned(project, f)
  OBVIOUS
<1>2. simStart' \in [Feature -> Nat \cup {None}] /\ simDone' \in [Feature -> Nat \cup {None}]
  BY DEF LevelInv, Typed
<1>3. ASSUME NEW f \in Feature PROVE SimulationPromise!Begins(f)
  <2> SUFFICES ASSUME simStart[f] = None, simStart'[f] # None, NEW g \in Feature,
                      <<g, f>> \in Edges(project), ~ Pinned(project, f)
               PROVE  simDone[g] # None /\ simDone[g] <= simStart'[f]
    BY DEF SimulationPromise!Begins
  <2>1. f \in AutoFeatures /\ g \in Before(project, f)
    BY DEF AutoFeatures, Edges, Before
  <2>2. QED
    BY <2>1
<1>4. ASSUME NEW f \in Feature PROVE SimulationPromise!Ends(f)
  <2>1. CASE Pinned(project, f)
    <3>1. /\ simStart'[f] = project.pin[f] /\ simDone'[f] = project.pin[f] + project.stored[f]
          /\ project.pin[f] \in Nat /\ project.stored[f] \in Nat \ {0}
      BY <2>1, PinFacts DEF LevelInv, PinsKept, Typed
    <3>2. QED
      BY <3>1, ScheduleAssumption DEF SimulationPromise!Ends
  <2>2. CASE ~ Pinned(project, f)
    BY <2>2 DEF LevelInv, SimInOrder, AutoFeatures, SimulationPromise!Ends
  <2>3. QED
    BY <2>1, <2>2
<1>5. ASSUME NEW f \in Feature PROVE SimulationPromise!Stays(f)
  BY DEF SimulationPromise!Stays
<1>6. QED
  BY <1>1, <1>2, <1>3, <1>4, <1>5

(* The simulation implements SchedulePromise.                              *)
THEOREM SimulationRefinement == LevelSpec => SimulationImplementsPromise
<1>1. LevelInit => SimulationPromise!Init
  BY DEF LevelInit, SimulationPromise!Init, Edges
<1>2. LevelInv /\ [LevelNext]_levelVars => [SimulationPromise!Next]_(SimulationPromise!vars)
  <2> SUFFICES ASSUME LevelInv, [LevelNext]_levelVars
               PROVE  SimulationPromise!Next \/ UNCHANGED SimulationPromise!vars
    OBVIOUS
  <2>0. LevelInv'
    BY LevelStepInv
  <2>1. ASSUME project' = project, simStart' = simStart, simDone' = simDone
        PROVE  UNCHANGED SimulationPromise!vars
    BY <2>1 DEF SimulationPromise!vars
  <2>2. CASE PlaceNext
    BY <2>1, <2>2 DEF PlaceNext, Next, Sort, Fallback
  <2>3. CASE Prepare
    <3>1. /\ stage' # "place" /\ project' = project
          /\ \A f \in Feature : simStart[f] = None /\ simDone[f] = None /\ simStart'[f] = project.pin[f]
      BY <2>3 DEF Prepare, placement, LevelInv, PlacementStands
    <3>2. \A f \in AutoFeatures : simStart'[f] = None
      BY <3>1 DEF AutoFeatures, Pinned
    <3>3. QED
      BY <2>0, <3>1, <3>2, PromiseStep
  <2>4. CASE BeginRound
    <3>1. PICK B \in Eligible : simStart' = [f \in Feature |-> IF f \in B THEN t ELSE simStart[f]]
      BY <2>4 DEF BeginRound
    <3>2. project' = project /\ simDone' = simDone /\ stage' # "place"
      BY <2>4 DEF BeginRound, placement, Tick
    <3>3. \A f \in B : simStart[f] = None /\ Ended(f)
      BY <3>1 DEF Eligible, Waiting
    <3>4. \A f \in Feature : simStart'[f] = IF f \in B THEN t ELSE simStart[f]
      BY <3>1
    <3>5. \A f \in AutoFeatures :
            simStart[f] = None /\ simStart'[f] # None =>
              \A g \in Before(project, f) : simDone[g] # None /\ simDone[g] <= simStart'[f]
      BY <3>3, <3>4 DEF Ended, AutoFeatures
    <3>6. QED
      BY <2>0, <3>2, <3>3, <3>4, <3>5, PromiseStep
  <2>5. ASSUME NEW f \in Feature, NEW r \in Role, Allocate(f, r) PROVE UNCHANGED SimulationPromise!vars
    BY <2>1, <2>5 DEF Allocate, placement
  <2>6. CASE FinishRound
    <3>1. project' = project /\ simStart' = simStart /\ stage' # "place"
      BY <2>6 DEF FinishRound, placement
    <3>2. \A f \in Feature : simDone[f] # None => simDone'[f] = simDone[f]
      BY <2>6 DEF FinishRound, Exhausted, Active, Unfinished
    <3>3. QED
      BY <2>0, <3>1, <3>2, PromiseStep
  <2>7. CASE WriteBack
    BY <2>1, <2>7 DEF WriteBack
  <2>8. CASE UNCHANGED levelVars
    BY <2>1, <2>8 DEF levelVars, placement
  <2>9. QED
    BY <2>2, <2>3, <2>4, <2>5, <2>6, <2>7, <2>8 DEF LevelNext
<1>3. QED
  BY <1>1, <1>2, LevelInvariance, PTL
     DEF LevelSpec, SimulationImplementsPromise, SimulationPromise!Spec

----------------------------------------------------------------------------
(* Sums.                                                                   *)

LEMMA PileSize ==
  ASSUME NEW x, NEW n \in Nat
  PROVE  IsFiniteSet({x} \X (1 .. n)) /\ Cardinality({x} \X (1 .. n)) = n
<1>1. IsFiniteSet({x}) /\ Cardinality({x}) = 1
  BY FS_Singleton
<1>2. IsFiniteSet(1 .. n) /\ Cardinality(1 .. n) = n
  BY FS_Interval
<1> DEFINE A == {x}
           B == 1 .. n
<1>3. IsFiniteSet(A) /\ Cardinality(A) = 1 /\ IsFiniteSet(B) /\ Cardinality(B) = n
  BY <1>1, <1>2
<1> HIDE DEF A, B
<1>4. IsFiniteSet(A \X B) /\ Cardinality(A \X B) = 1 * n
  BY <1>3, FS_Product
<1>5. QED
  BY <1>4 DEF A, B

LEMMA UnitsFinite ==
  ASSUME NEW S, IsFiniteSet(S), NEW F \in [S -> Nat]
  PROVE  IsFiniteSet(Units(F)) /\ Total(F) \in Nat
<1> DEFINE pile == [x \in S |-> {x} \X (1 .. F[x])]
           P == {{x} \X (1 .. F[x]) : x \in S}
<1>1. pile \in Surjection(S, P)
  BY DEF Surjection
<1>2. IsFiniteSet(P)
  BY <1>1, FS_Surjection
<1>3. \A T \in P : IsFiniteSet(T)
  <2>1. \A x \in S : IsFiniteSet({x} \X (1 .. F[x]))
    <3> SUFFICES ASSUME NEW x \in S PROVE IsFiniteSet({x} \X (1 .. F[x]))
      OBVIOUS
    <3>1. F[x] \in Nat
      OBVIOUS
    <3>2. QED
      BY <3>1, PileSize
  <2>2. QED
    BY <2>1
<1>4. Units(F) = UNION P
  BY DEF Units
<1> HIDE DEF P
<1>5. IsFiniteSet(Units(F))
  BY <1>2, <1>3, <1>4, FS_UNION
<1>6. QED
  BY <1>5, FS_CardinalityType DEF Total

(* One of the numbers taken out.                                           *)
LEMMA TotalSplit ==
  ASSUME NEW S, IsFiniteSet(S), NEW F \in [S -> Nat], NEW x \in S
  PROVE  /\ Total(F) = F[x] + Total([y \in S \ {x} |-> F[y]])
         /\ Total([y \in S \ {x} |-> F[y]]) \in Nat
<1> DEFINE G == [y \in S \ {x} |-> F[y]]
           pile == {x} \X (1 .. F[x])
<1>1. IsFiniteSet(Units(G)) /\ Total(G) \in Nat
  <2>1. IsFiniteSet(S \ {x}) /\ G \in [S \ {x} -> Nat]
    BY FS_RemoveElement
  <2>2. QED
    BY <2>1, UnitsFinite
<1>2. IsFiniteSet(pile) /\ Cardinality(pile) = F[x] /\ F[x] \in Nat
  BY PileSize
<1>3. Units(F) = pile \cup Units(G)
  BY DEF Units
<1>4. pile \cap Units(G) = {}
  BY DEF Units
<1> HIDE DEF pile, G
<1>5. Cardinality(pile \cap Units(G)) = 0
  BY <1>4, FS_EmptySet
<1>6. Cardinality(Units(F)) = Cardinality(pile) + Cardinality(Units(G)) - 0
  BY <1>1, <1>2, <1>3, <1>5, FS_Union
<1>7. Total(F) = F[x] + Total(G)
  BY <1>1, <1>2, <1>6 DEF Total
<1>8. QED
  BY <1>1, <1>7 DEF G

(* Two sums that differ in one number.                                     *)
LEMMA TotalChange ==
  ASSUME NEW S, IsFiniteSet(S), NEW F \in [S -> Nat], NEW G \in [S -> Nat],
         NEW x \in S, \A y \in S \ {x} : F[y] = G[y]
  PROVE  Total(F) + G[x] = Total(G) + F[x]
<1>1. [y \in S \ {x} |-> F[y]] = [y \in S \ {x} |-> G[y]]
  OBVIOUS
<1>2. F[x] \in Nat /\ G[x] \in Nat
  OBVIOUS
<1>3. /\ Total(F) = F[x] + Total([y \in S \ {x} |-> F[y]])
      /\ Total([y \in S \ {x} |-> F[y]]) \in Nat
  BY TotalSplit
<1>4. Total(G) = G[x] + Total([y \in S \ {x} |-> G[y]])
  BY TotalSplit
<1>5. QED
  BY <1>1, <1>2, <1>3, <1>4

LEMMA TotalOfNothing ==
  ASSUME NEW S, NEW F \in [S -> Nat], \A x \in S : F[x] = 0
  PROVE  Total(F) = 0
<1>1. Units(F) = {}
  BY DEF Units
<1>2. QED
  BY <1>1, FS_EmptySet DEF Total

----------------------------------------------------------------------------
(* Effort.                                                                 *)

LEMMA AskedFacts ==
  ASSUME Typed, NEW f \in Feature, NEW r \in Role, NEW N \in SUBSET DOMAIN Phases(f)
  PROVE  /\ AskedBy(f, r, N) \in Nat
         /\ \A n \in N : AskedBy(f, r, N) = DemandOf(f, n)[r] + AskedBy(f, r, N \ {n})
         /\ N = {} => AskedBy(f, r, N) = 0
<1> DEFINE F == [n \in N |-> Phases(f)[n].demand[r]]
<1>1. Phases(f) \in Seq(Phase)
  BY WorkFacts
<1>2. F \in [N -> Nat]
  <2> SUFFICES ASSUME NEW n \in N PROVE Phases(f)[n].demand[r] \in Nat
    OBVIOUS
  <2>1. Phases(f)[n] \in Phase
    BY <1>1
  <2>2. QED
    BY <2>1 DEF Phase
<1>3. IsFiniteSet(N)
  <2>1. DOMAIN Phases(f) = 1 .. Len(Phases(f)) /\ Len(Phases(f)) \in Nat
    BY <1>1
  <2>2. IsFiniteSet(DOMAIN Phases(f))
    BY <2>1, FS_Interval
  <2>3. QED
    BY <2>2, FS_Subset
<1>4. AskedBy(f, r, N) = Total(F)
  BY DEF AskedBy
<1>5. ASSUME NEW n \in N
      PROVE  AskedBy(f, r, N) = DemandOf(f, n)[r] + AskedBy(f, r, N \ {n})
  <2>1. [m \in N \ {n} |-> F[m]] = [m \in N \ {n} |-> Phases(f)[m].demand[r]]
    OBVIOUS
  <2>2. F[n] = DemandOf(f, n)[r]
    BY DEF DemandOf
  <2> HIDE DEF F
  <2>3. Total(F) = F[n] + Total([m \in N \ {n} |-> F[m]])
    BY <1>2, <1>3, TotalSplit
  <2>4. QED
    BY <1>4, <2>1, <2>2, <2>3 DEF AskedBy
<1> HIDE DEF F
<1>6. N = {} => Total(F) = 0
  BY <1>2, TotalOfNothing
<1>7. Total(F) \in Nat
  BY <1>2, <1>3, UnitsFinite
<1>8. QED
  BY <1>4, <1>5, <1>6, <1>7

LEMMA LeftTyped ==
  ASSUME Typed, NEW f \in AutoFeatures, NEW r \in Role
  PROVE  Left(f, r) \in Nat /\ Asked(f, r) \in Nat
<1>1. f \in Feature /\ remaining[f][r] \in Nat
  BY DEF Typed, AutoFeatures
<1>2. Later(f) \in SUBSET DOMAIN Phases(f)
  BY DEF Later
<1>3. AskedBy(f, r, Later(f)) \in Nat /\ AskedBy(f, r, DOMAIN Phases(f)) \in Nat
  BY <1>1, <1>2, AskedFacts
<1>4. QED
  BY <1>1, <1>3 DEF Left, Asked

(* The stories behind story n are story n + 1 and those behind it.         *)
LEMMA NextStory ==
  ASSUME Typed, NEW f \in Feature, NEW r \in Role, NEW n \in Nat
  PROVE  LET behind(k) == {m \in DOMAIN Phases(f) : m > k}
         IN  AskedBy(f, r, behind(n)) = DemandOf(f, n + 1)[r] + AskedBy(f, r, behind(n + 1))
<1> DEFINE behind(k) == {m \in DOMAIN Phases(f) : m > k}
<1>1. Phases(f) \in Seq(Phase) /\ DemandOf(f, n + 1) \in [Role -> Nat]
  <2>1. n + 1 \in Nat
    OBVIOUS
  <2>2. QED
    BY <2>1, WorkFacts
<1>2. DOMAIN Phases(f) = 1 .. Len(Phases(f)) /\ Len(Phases(f)) \in Nat
  BY <1>1
<1>3. AskedBy(f, r, behind(n + 1)) \in Nat
  BY AskedFacts
<1>4. CASE n + 1 \in DOMAIN Phases(f)
  <2>1. n + 1 \in behind(n) /\ behind(n) \ {n + 1} = behind(n + 1)
        /\ behind(n) \in SUBSET DOMAIN Phases(f)
    BY <1>2, <1>4
  <2> HIDE DEF behind
  <2>2. QED
    BY <2>1, AskedFacts DEF behind
<1>5. CASE n + 1 \notin DOMAIN Phases(f)
  <2>1. behind(n) = {} /\ behind(n + 1) = {}
    BY <1>2, <1>5
  <2>2. DemandOf(f, n + 1)[r] = 0
    BY <1>5 DEF DemandOf, NoDemand
  <2>3. AskedBy(f, r, {}) = 0
    BY AskedFacts
  <2>4. QED
    BY <2>1, <2>2, <2>3
<1>6. QED
  BY <1>4, <1>5

(* Before the simulation nothing has been given.                           *)
Untouched ==
  stage = "place" =>
    /\ \A f \in Feature : idx[f] = 1 /\ remaining[f] = DemandOf(f, 1)
    /\ \A r \in Role, w \in Weeks : consumed[r][w] = 0

(* What is left of a feature that has not begun is what it asks for.       *)
LEMMA AllLeft ==
  ASSUME Typed, NEW f \in Feature, idx[f] = 1, remaining[f] = DemandOf(f, 1), NEW r \in Role
  PROVE  remaining[f][r] + AskedBy(f, r, Later(f)) = Asked(f, r)
<1>1. Phases(f) \in Seq(Phase)
  BY WorkFacts
<1>2. {m \in DOMAIN Phases(f) : m > 0} = DOMAIN Phases(f)
  <2>1. DOMAIN Phases(f) = 1 .. Len(Phases(f)) /\ Len(Phases(f)) \in Nat
    BY <1>1
  <2>2. QED
    BY <2>1
<1>3. {m \in DOMAIN Phases(f) : m > 0 + 1} = Later(f)
  BY DEF Later
<1>4. AskedBy(f, r, {m \in DOMAIN Phases(f) : m > 0})
        = DemandOf(f, 0 + 1)[r] + AskedBy(f, r, {m \in DOMAIN Phases(f) : m > 0 + 1})
  BY NextStory
<1>5. QED
  BY <1>2, <1>3, <1>4 DEF Asked

(* The same for all features together, whose sums have these types.        *)
LEMMA SumsTyped ==
  ASSUME Typed
  PROVE  /\ IsFiniteSet(AutoFeatures) /\ IsFiniteSet(Weeks)
         /\ \A r \in Role :
              /\ consumed[r] \in [Weeks -> Nat]
              /\ [f \in AutoFeatures |-> Left(f, r)] \in [AutoFeatures -> Nat]
<1>1. IsFiniteSet(AutoFeatures)
  BY ScheduleAssumption, FS_Subset DEF AutoFeatures
<1>2. IsFiniteSet(Weeks)
  BY WorkAssumption, Quotient, FS_Interval DEF Weeks
<1>3. QED
  BY <1>1, <1>2, LeftTyped DEF Typed

(* A step that leaves bookings alone, and what is left of each feature.    *)
LEMMA NothingMoves ==
  ASSUME EffortKept, stage # "place", stage' # "place",
         project' = project, work' = work, consumed' = consumed,
         \A f \in AutoFeatures, r \in Role : Left(f, r)' = Left(f, r)
  PROVE  EffortKept'
<1>1. AutoFeatures' = AutoFeatures /\ \A f \in Feature : Phases(f)' = Phases(f)
  BY DEF AutoFeatures, Phases
<1>2. ASSUME NEW r \in Role
      PROVE  /\ [f \in AutoFeatures |-> Left(f, r)]' = [f \in AutoFeatures |-> Left(f, r)]
             /\ [f \in AutoFeatures |-> Asked(f, r)]' = [f \in AutoFeatures |-> Asked(f, r)]
  <2>1. \A f \in AutoFeatures : Asked(f, r)' = Asked(f, r)
    BY <1>1 DEF Asked, AskedBy, AutoFeatures
  <2>2. QED
    BY <1>1, <2>1
<1>3. QED
  BY <1>2 DEF EffortKept

LEMMA EffortPrepared ==
  ASSUME LevelInv, Untouched, Prepare
  PROVE  EffortKept'
<1>1. /\ stage = "place" /\ Typed
      /\ project' = project /\ work' = work /\ UNCHANGED <<idx, remaining, consumed>>
      /\ \A f \in AutoFeatures : simDone'[f] = None
  BY DEF LevelInv, Prepare, placement, progress, AutoFeatures
<1>2. AutoFeatures' = AutoFeatures /\ AutoFeatures \subseteq Feature
      /\ \A f \in Feature : Phases(f)' = Phases(f) /\ Later(f)' = Later(f)
  BY <1>1 DEF AutoFeatures, Phases, Later
<1>3. ASSUME NEW f \in AutoFeatures, NEW r \in Role
      PROVE  Left(f, r)' = Asked(f, r) /\ Asked(f, r)' = Asked(f, r)
  <2>1. remaining[f][r] + AskedBy(f, r, Later(f)) = Asked(f, r)
    BY <1>1, <1>2, AllLeft DEF Untouched
  <2>2. AskedBy(f, r, Later(f))' = AskedBy(f, r, Later(f)) /\ Asked(f, r)' = Asked(f, r)
    BY <1>2 DEF AskedBy, Asked
  <2>3. QED
    BY <1>1, <2>1, <2>2 DEF Left
<1>4. ASSUME NEW r \in Role
      PROVE  (Total(consumed[r]) + Total([f \in AutoFeatures |-> Left(f, r)])
                = Total([f \in AutoFeatures |-> Asked(f, r)]))'
  <2>1. [f \in AutoFeatures |-> Left(f, r)]' = [f \in AutoFeatures |-> Asked(f, r)]
        /\ [f \in AutoFeatures |-> Asked(f, r)]' = [f \in AutoFeatures |-> Asked(f, r)]
    BY <1>2, <1>3
  <2>2. consumed'[r] \in [Weeks -> Nat] /\ \A w \in Weeks : consumed'[r][w] = 0
    BY <1>1, SumsTyped DEF Untouched
  <2>3. Total(consumed'[r]) = 0
    BY <2>2, TotalOfNothing
  <2>4. Total([f \in AutoFeatures |-> Asked(f, r)]) \in Nat
    <3>1. [f \in AutoFeatures |-> Asked(f, r)] \in [AutoFeatures -> Nat]
      BY <1>1, LeftTyped
    <3>2. QED
      BY <1>1, <3>1, SumsTyped, UnitsFinite
  <2>5. QED
    BY <2>1, <2>3, <2>4
<1>5. QED
  BY <1>4 DEF EffortKept

(* What a share takes from its feature is what the week is given.          *)
LEMMA EffortShared ==
  ASSUME LevelInv, EffortKept, NEW f \in Feature, NEW r \in Role, Allocate(f, r)
  PROVE  EffortKept'
<1> DEFINE s == Share(f, r)
<1>1. /\ stage = "allocate" /\ stage' = "allocate" /\ f \in Competing(r)
      /\ remaining' = [remaining EXCEPT ![f][r] = @ - s]
      /\ consumed' = [consumed EXCEPT ![r][CurrentWeek] = @ + s]
      /\ project' = project /\ work' = work /\ UNCHANGED <<simDone, idx>>
  BY DEF Allocate, placement
<1>2. Typed /\ CurrentWeek \in Weeks
  BY <1>1, WeekFacts DEF LevelInv, Clock
<1>3. s \in Nat /\ s <= remaining[f][r] /\ f \in AutoFeatures /\ simDone[f] = None
  BY <1>1, <1>2, ShareFacts DEF Active, Unfinished
<1> HIDE DEF s
<1>4. /\ AutoFeatures' = AutoFeatures /\ AutoFeatures \subseteq Feature
      /\ \A g \in Feature : Phases(g)' = Phases(g) /\ Later(g)' = Later(g)
  BY <1>1 DEF AutoFeatures, Phases, Later
<1>5. \A g \in Feature, q \in Role :
        /\ AskedBy(g, q, Later(g))' = AskedBy(g, q, Later(g))
        /\ Asked(g, q)' = Asked(g, q)
  BY <1>4 DEF AskedBy, Asked
<1>6. \A g \in Feature, q \in Role :
        remaining'[g][q] = IF g = f /\ q = r THEN remaining[g][q] - s ELSE remaining[g][q]
  BY <1>1, <1>2 DEF Typed
<1>7. \A q \in Role, w \in Weeks :
        consumed'[q][w] = IF q = r /\ w = CurrentWeek THEN consumed[q][w] + s ELSE consumed[q][w]
  BY <1>1, <1>2 DEF Typed
<1>8. \A g \in AutoFeatures, q \in Role :
        /\ Left(g, q)' = IF g = f /\ q = r THEN Left(g, q) - s ELSE Left(g, q)
        /\ Left(g, q)' \in Nat
  <2> SUFFICES ASSUME NEW g \in AutoFeatures, NEW q \in Role
               PROVE  /\ Left(g, q)' = IF g = f /\ q = r THEN Left(g, q) - s ELSE Left(g, q)
                      /\ Left(g, q)' \in Nat
    OBVIOUS
  <2>1. remaining[g][q] \in Nat /\ AskedBy(g, q, Later(g)) \in Nat
    BY <1>2, <1>4, AskedFacts DEF Typed, Later
  <2>2. QED
    BY <1>1, <1>3, <1>4, <1>5, <1>6, <2>1 DEF Left
<1>9. ASSUME NEW q \in Role
      PROVE  (Total(consumed[q]) + Total([g \in AutoFeatures |-> Left(g, q)])
                = Total([g \in AutoFeatures |-> Asked(g, q)]))'
  <2> DEFINE C == consumed[q]
             D == consumed'[q]
             L == [g \in AutoFeatures |-> Left(g, q)]
             M == [g \in AutoFeatures |-> Left(g, q)']
             A == [g \in AutoFeatures |-> Asked(g, q)]
  <2>1. Total(C) + Total(L) = Total(A)
    BY <1>1 DEF EffortKept
  <2>2. [g \in AutoFeatures |-> Left(g, q)]' = M /\ [g \in AutoFeatures |-> Asked(g, q)]' = A
    BY <1>4, <1>5
  <2>3. /\ C \in [Weeks -> Nat] /\ D \in [Weeks -> Nat]
        /\ L \in [AutoFeatures -> Nat] /\ M \in [AutoFeatures -> Nat]
        /\ IsFiniteSet(Weeks) /\ IsFiniteSet(AutoFeatures)
    <3>1. M \in [AutoFeatures -> Nat]
      BY <1>8
    <3>2. D \in [Weeks -> Nat]
      BY <1>2, <1>3, <1>7, <1>1 DEF Typed
    <3>3. QED
      BY <1>2, <3>1, <3>2, SumsTyped
  <2>4. CASE q # r
    <3>1. D = C /\ M = L
      BY <1>7, <1>8, <2>3, <2>4
    <3>2. QED
      BY <2>1, <2>2, <3>1
  <2>5. CASE q = r
    <3>1. /\ \A w \in Weeks \ {CurrentWeek} : C[w] = D[w]
          /\ D[CurrentWeek] = C[CurrentWeek] + s
      BY <1>2, <1>7, <2>5
    <3>2. /\ \A g \in AutoFeatures \ {f} : L[g] = M[g]
          /\ M[f] = L[f] - s
      BY <1>3, <1>8, <2>5
    <3> HIDE DEF C, D, L, M
    <3>3. Total(C) + D[CurrentWeek] = Total(D) + C[CurrentWeek]
      BY <1>2, <2>3, <3>1, TotalChange
    <3>4. Total(L) + M[f] = Total(M) + L[f]
      BY <1>3, <2>3, <3>2, TotalChange
    <3>5. /\ Total(C) \in Nat /\ Total(D) \in Nat /\ Total(L) \in Nat /\ Total(M) \in Nat
          /\ C[CurrentWeek] \in Nat /\ L[f] \in Nat
      BY <1>2, <1>3, <2>3, UnitsFinite
    <3>6. Total(D) + Total(M) = Total(C) + Total(L)
      BY <1>3, <3>1, <3>2, <3>3, <3>4, <3>5
    <3>7. QED
      BY <2>1, <2>2, <3>6 DEF D
  <2>6. QED
    BY <2>4, <2>5
<1>10. QED
  BY <1>1, <1>9 DEF EffortKept

(* A story gives way to the next one with nothing left of it.              *)
LEMMA EffortPassedOn ==
  ASSUME LevelInv, EffortKept, FinishRound
  PROVE  EffortKept'
<1>1. /\ stage = "allocate" /\ stage' = "begin" /\ Typed
      /\ project' = project /\ work' = work /\ consumed' = consumed
      /\ \A f \in Feature :
           /\ idx'[f] = IF Exhausted(f) /\ More(f) THEN idx[f] + 1 ELSE idx[f]
           /\ remaining'[f] = IF Exhausted(f) /\ More(f) THEN DemandOf(f, idx[f] + 1) ELSE remaining[f]
           /\ simDone'[f] = IF Exhausted(f) /\ ~ More(f) THEN t + 1 ELSE simDone[f]
  BY DEF LevelInv, FinishRound, placement
<1>2. AutoFeatures \subseteq Feature /\ \A f \in Feature : Phases(f)' = Phases(f)
  BY <1>1 DEF Phases, AutoFeatures
<1>3. ASSUME NEW f \in AutoFeatures, NEW r \in Role
      PROVE  Left(f, r)' = Left(f, r)
  <2>0. f \in Feature /\ idx[f] \in Nat /\ Phases(f) \in Seq(Phase)
    <3>1. f \in Feature /\ idx[f] \in Nat
      BY <1>1, <1>2 DEF Typed
    <3>2. QED
      BY <1>1, <3>1, WorkFacts
  <2>1. Later(f)' = {m \in DOMAIN Phases(f) : m > idx'[f]}
    BY <1>2, <2>0 DEF Later
  <2>2. AskedBy(f, r, Later(f))' = AskedBy(f, r, {m \in DOMAIN Phases(f) : m > idx'[f]})
    BY <1>2, <2>0, <2>1 DEF AskedBy
  <2>3. CASE ~ Exhausted(f)
    BY <1>1, <2>0, <2>2, <2>3 DEF Left, Later
  <2>4. CASE Exhausted(f) /\ More(f)
    <3>1. simDone[f] = None /\ simDone'[f] = None /\ remaining[f][r] = 0
          /\ idx'[f] = idx[f] + 1 /\ remaining'[f] = DemandOf(f, idx[f] + 1)
      BY <1>1, <2>0, <2>4 DEF Exhausted, Active, Unfinished
    <3>2. AskedBy(f, r, Later(f)) = DemandOf(f, idx[f] + 1)[r] + AskedBy(f, r, Later(f))'
      BY <1>1, <2>0, <2>2, <3>1, NextStory DEF Later
    <3>3. AskedBy(f, r, Later(f)) \in Nat
      BY <1>1, <2>0, AskedFacts DEF Later
    <3>4. QED
      BY <3>1, <3>2, <3>3 DEF Left
  <2>5. CASE Exhausted(f) /\ ~ More(f)
    <3>1. simDone[f] = None /\ simDone'[f] = t + 1 /\ t \in Nat /\ remaining[f][r] = 0
      BY <1>1, <2>0, <2>5 DEF Exhausted, Active, Unfinished, LevelInv, Clock
    <3>2. Later(f) = {}
      BY <2>0, <2>5 DEF Later, More
    <3>3. AskedBy(f, r, Later(f)) = 0
      BY <1>1, <2>0, <3>2, AskedFacts
    <3>4. t + 1 # None
      BY <3>1, ScheduleAssumption
    <3>5. QED
      BY <3>1, <3>3, <3>4 DEF Left
  <2>6. QED
    BY <2>3, <2>4, <2>5
<1>4. QED
  BY <1>1, <1>3, NothingMoves

LEMMA EffortStep ==
  ASSUME LevelInv, Untouched, EffortKept, [LevelNext]_levelVars
  PROVE  Untouched' /\ EffortKept'
<1>1. CASE PlaceNext
  <2>1. stage' = "place" /\ UNCHANGED <<work, progress>>
    BY <1>1 DEF PlaceNext
  <2>2. \A f \in Feature : DemandOf(f, 1)' = DemandOf(f, 1)
    BY <2>1 DEF DemandOf, Phases
  <2>3. stage = "place"
    BY <1>1 DEF PlaceNext
  <2>4. QED
    BY <2>1, <2>2, <2>3 DEF Untouched, EffortKept, progress
<1>2. CASE Prepare
  <2>1. stage' # "place"
    BY <1>2 DEF Prepare
  <2>2. QED
    BY <1>2, <2>1, EffortPrepared DEF Untouched
<1>3. CASE BeginRound \/ WriteBack \/ UNCHANGED levelVars
  <2>1. /\ UNCHANGED <<project, work, simDone, idx, remaining, consumed>>
        /\ (stage = "begin" /\ stage' \in {"begin", "allocate", "failed", "written"})
           \/ stage' = stage
    BY <1>3 DEF BeginRound, WriteBack, Tick, levelVars, placement, progress
  <2>2. \A f \in Feature, r \in Role :
          Left(f, r)' = Left(f, r) /\ DemandOf(f, 1)' = DemandOf(f, 1)
    BY <2>1 DEF Left, Later, AskedBy, Phases, DemandOf
  <2>3. CASE stage # "place"
    <3>1. stage' # "place"
      BY <2>1, <2>3
    <3>2. EffortKept'
      BY <2>1, <2>2, <2>3, <3>1, NothingMoves DEF AutoFeatures
    <3>3. QED
      BY <3>1, <3>2 DEF Untouched
  <2>4. CASE stage = "place"
    <3>1. stage' = "place"
      BY <2>1, <2>4
    <3>2. \A f \in Feature : DemandOf(f, 1)' = DemandOf(f, 1)
      BY <2>1 DEF DemandOf, Phases
    <3>3. QED
      BY <2>1, <2>4, <3>1, <3>2 DEF Untouched, EffortKept
  <2>5. QED
    BY <2>3, <2>4
<1>4. ASSUME NEW f \in Feature, NEW r \in Role, Allocate(f, r)
      PROVE  Untouched' /\ EffortKept'
  <2>1. stage' # "place"
    BY <1>4 DEF Allocate
  <2>2. QED
    BY <1>4, <2>1, EffortShared DEF Untouched
<1>5. CASE FinishRound
  <2>1. stage' # "place"
    BY <1>5 DEF FinishRound
  <2>2. QED
    BY <1>5, <2>1, EffortPassedOn DEF Untouched
<1>6. QED
  BY <1>1, <1>2, <1>3, <1>4, <1>5 DEF LevelNext

(* No effort is lost or made by rounds, shares and the change of stories   *)
(* (the simulation of runScheduler), for any workload and horizon.         *)
THEOREM Effort == LevelSpec => []EffortKept
<1>1. LevelInit => Untouched /\ EffortKept
  BY DEF LevelInit, Untouched, EffortKept
<1>2. LevelInv /\ Untouched /\ EffortKept /\ [LevelNext]_levelVars =>
        Untouched' /\ EffortKept'
  BY EffortStep
<1>3. QED
  BY <1>1, <1>2, LevelInvariance, PTL DEF LevelSpec

(* LevelledSound (LevelledSchedule): the parts proved above, together.      *)
THEOREM SoundLevelling == LevelSpec => []LevelledSound
BY LevelTyping, Budget, Stories, Written, PTL DEF LevelledSound
=============================================================================
