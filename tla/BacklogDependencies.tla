------------------------ MODULE BacklogDependencies ------------------------
(***************************************************************************)
(* The dependency graph of one project's backlog, and the check that keeps *)
(* it free of cycles.                                                      *)
(*                                                                         *)
(* epicDependencies.ts and featureDependencies.ts answer POST with the     *)
(* same search: a walk along the stored dependencies from the new          *)
(* predecessor, one query per node, looking for the dependent.  Nothing    *)
(* holds the graph still: between two queries, and between the last query  *)
(* and the insert, any other request may change it.  A request is therefore *)
(* many steps here.  The CSV import writes dependencies too, in one        *)
(* transaction and without the search.                                     *)
(*                                                                         *)
(* The module speaks of nodes: epics, or features; the two routers differ  *)
(* in how they report a dependency that exists already, and in nothing the *)
(* graph can tell.                                                         *)
(***************************************************************************)
EXTENDS FiniteSets

CONSTANTS Node,      \* identities of epics (or features)
          Request,   \* POST requests that can be in progress together
          Wanted,    \* the dependencies a POST can ask for
          Imports    \* the sets of dependencies a CSV file can ask for

ASSUME ConstantsAssumption ==
  /\ Node # {}
  /\ Wanted \subseteq Node \X Node
  /\ \A E \in Imports : E \subseteq Node \X Node

VARIABLES nodes,     \* the epics of the project
          deps,      \* <<n, m>>: n depends on m
          pc,        \* "idle", or "search" while a request walks the graph
          edge,      \* the dependency a request wants to add
          stack,     \* the nodes it still has to look at
          visited    \* the nodes whose dependencies it has read

searchVars == <<pc, edge, stack, visited>>

(* History: which dependencies a POST has inserted, which of them came in  *)
(* during the search of a request that is going on, and for a dependency   *)
(* that is stored, which came in during the search for it.                 *)
VARIABLES searched, unseen, blind

histVars == <<searched, unseen, blind>>
graphVars == <<nodes, deps, searchVars, histVars>>

NoEdge == CHOOSE e \in Node \X Node : TRUE

From(r) == edge[r][1]
To(r) == edge[r][2]

----------------------------------------------------------------------------
(* One POST.                                                               *)

(* The request is well formed and both ends belong to the project.         *)
Begin(r, n, m) ==
  /\ pc[r] = "idle"
  /\ <<n, m>> \in Wanted
  /\ n # m
  /\ n \in nodes /\ m \in nodes
  /\ <<n, m>> \notin deps
  /\ pc' = [pc EXCEPT ![r] = "search"]
  /\ edge' = [edge EXCEPT ![r] = <<n, m>>]
  /\ stack' = [stack EXCEPT ![r] = {m}]
  /\ visited' = [visited EXCEPT ![r] = {}]
  /\ UNCHANGED <<nodes, deps, histVars>>

(* Mutant: nodes are looked at again and again.                            *)
AllSuccessors(r, c) == {d \in Node : <<c, d>> \in deps}

(* What the query for c adds to the stack.  The code pushes nodes it knows *)
(* already too, and drops them when they come up, without a query.         *)
Successors(r, c) == {d \in Node : <<c, d>> \in deps} \ (visited[r] \cup {c})

(* One round of the loop.  The code takes the node pushed last; the order  *)
(* is left open, as is the order in which a query returns its rows.        *)
Visit(r) ==
  /\ pc[r] = "search"
  /\ \E c \in stack[r] \ {From(r)} :
       /\ stack' = [stack EXCEPT ![r] = (@ \ {c}) \cup Successors(r, c)]
       /\ visited' = [visited EXCEPT ![r] = @ \cup {c}]
  /\ UNCHANGED <<nodes, deps, pc, edge, histVars>>

(* The answer: what the handler kept in its variables is gone.             *)
Answer(r) ==
  /\ pc' = [pc EXCEPT ![r] = "idle"]
  /\ edge' = [edge EXCEPT ![r] = NoEdge]
  /\ stack' = [stack EXCEPT ![r] = {}]
  /\ visited' = [visited EXCEPT ![r] = {}]
  /\ UNCHANGED nodes

(* The dependent is reachable: 400.                                        *)
Reject(r) ==
  /\ pc[r] = "search"
  /\ From(r) \in stack[r]
  /\ Answer(r)
  /\ unseen' = [unseen EXCEPT ![r] = {}]
  /\ UNCHANGED <<deps, searched, blind>>

(* Mutant: the insert does not wait for the search.                        *)
Anytime(r) == pc[r] = "search"

SearchOver(r) == pc[r] = "search" /\ stack[r] = {}

(* The foreign keys and the primary key refuse the insert when an end was  *)
(* deleted or somebody else added the dependency in the meantime.          *)
CanInsert(r) == From(r) \in nodes /\ To(r) \in nodes /\ edge[r] \notin deps

InsertNew(r) ==
  /\ SearchOver(r)
  /\ CanInsert(r)
  /\ Answer(r)
  /\ deps' = deps \cup {edge[r]}
  /\ searched' = searched \cup {edge[r]}
  /\ blind' = blind \cup ({edge[r]} \X (unseen[r] \cap searched))
  /\ unseen' = [q \in Request |->
                  IF q = r \/ pc[q] = "idle" THEN {} ELSE unseen[q] \cup {edge[r]}]

InsertFails(r) ==
  /\ SearchOver(r)
  /\ ~ CanInsert(r)
  /\ Answer(r)
  /\ unseen' = [unseen EXCEPT ![r] = {}]
  /\ UNCHANGED <<deps, searched, blind>>

SearchStep(r) == Visit(r) \/ Reject(r) \/ InsertNew(r) \/ InsertFails(r)

----------------------------------------------------------------------------
(* Everybody else.                                                         *)

(* The dependencies that stay, and what is remembered of them.             *)
KeepOnly(D) ==
  /\ deps' = D
  /\ searched' = searched \cap D
  /\ blind' = blind \cap (D \X D)
  /\ UNCHANGED unseen

(* DELETE of a dependency.                                                 *)
DeleteDependency(n, m) ==
  /\ <<n, m>> \in deps
  /\ KeepOnly(deps \ {<<n, m>>})
  /\ UNCHANGED <<nodes, searchVars>>

(* Ids are never used twice; that a deleted node may come back only adds    *)
(* behaviours.                                                              *)
CreateNode(n) ==
  /\ n \notin nodes
  /\ nodes' = nodes \cup {n}
  /\ UNCHANGED <<deps, searchVars, histVars>>

(* The dependencies of a deleted epic cascade, and those on it.            *)
Touches(e, n) == e[1] = n \/ e[2] = n

DeleteNode(n) ==
  /\ n \in nodes
  /\ nodes' = nodes \ {n}
  /\ KeepOnly({e \in deps : ~ Touches(e, n)})
  /\ UNCHANGED searchVars

(* POST /import-csv: the rows create the epics they name, and every        *)
(* dependency between two of them that is not one on itself is upserted.   *)
Import(E) ==
  /\ nodes' = nodes \cup {e[1] : e \in E} \cup {e[2] : e \in E}
  /\ deps' = deps \cup {e \in E : e[1] # e[2]}
  /\ UNCHANGED <<searchVars, histVars>>

----------------------------------------------------------------------------
GraphInit ==
  /\ nodes = {} /\ deps = {}
  /\ pc = [r \in Request |-> "idle"]
  /\ edge = [r \in Request |-> NoEdge]
  /\ stack = [r \in Request |-> {}]
  /\ visited = [r \in Request |-> {}]
  /\ searched = {} /\ blind = {}
  /\ unseen = [r \in Request |-> {}]

Post == \E r \in Request : SearchStep(r) \/ \E n, m \in Node : Begin(r, n, m)

Others ==
  \/ \E n, m \in Node : DeleteDependency(n, m)
  \/ \E n \in Node : CreateNode(n) \/ DeleteNode(n)
  \/ \E E \in Imports : Import(E)

GraphNext == Post \/ Others

GraphSpec == GraphInit /\ [][GraphNext]_graphVars

(* The server always goes on with a request it has started: the answer to  *)
(* a query resumes the handler.                                            *)
FairGraphSpec == GraphSpec /\ \A r \in Request : WF_graphVars(SearchStep(r))

----------------------------------------------------------------------------
GraphTyped ==
  /\ nodes \subseteq Node
  /\ deps \subseteq nodes \X nodes
  /\ pc \in [Request -> {"idle", "search"}]
  /\ edge \in [Request -> Node \X Node]
  /\ stack \in [Request -> SUBSET Node]
  /\ visited \in [Request -> SUBSET Node]
  /\ searched \subseteq deps
  /\ unseen \in [Request -> SUBSET (Node \X Node)]
  /\ blind \subseteq searched \X searched

(* Neither of the two was inserted while the search for the other was      *)
(* going on.                                                               *)
Apart(e, f) == <<e, f>> \notin blind /\ <<f, e>> \notin blind

(* Every dependency of C leads to another one of C: C closes a cycle, and  *)
(* every cycle is such a set.                                              *)
Closed(C) == C # {} /\ \A e \in C : \E f \in C : f[1] = e[2]

(* No epic waits for itself, along any number of dependencies that were    *)
(* added one by one: whoever closes a cycle of such dependencies, there    *)
(* were two of them whose requests overlapped, and that is all it takes    *)
(* (two POSTs at once close a cycle that neither search can see).  What is *)
(* deleted or imported during a search, or was before it, never helps a    *)
(* cycle in.  "Check for circular dependency before inserting"             *)
(* (epicDependencies.ts) and "circular dep detection" (README.md) promise  *)
(* it without the exception.                                               *)
NoCycle ==
  \A C \in SUBSET searched : (\A e, f \in C : Apart(e, f)) => ~ Closed(C)

(* The stored graph is sound: its ends exist, and requests that do not     *)
(* overlap never make nodes wait for each other.                           *)
GraphSound == GraphTyped /\ NoCycle

(* The search always ends, even on a graph that has become cyclic while it *)
(* was walking.                                                            *)
SearchEnds == \A r \in Request : pc[r] = "search" ~> pc[r] = "idle"
=============================================================================
