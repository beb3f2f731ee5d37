------------------------------- MODULE MCBacklog -------------------------------
EXTENDS Backlog

N(w) == [word |-> w, copies |-> 0, capital |-> FALSE]
Cap(w) == [word |-> w, copies |-> 0, capital |-> TRUE]

Of(kind, parent, name, order) == NewItem(kind, parent, name, order)
Work(parent, name, order, role, hours, days) ==
  [Of(Task, parent, name, order) EXCEPT !.role = role, !.hours = hours, !.days = days]

(* An epic with two features and a story whose template was applied half;  *)
(* two epics of one name in different spelling; epics whose orders tie; no *)
(* item.                                                                   *)
MCTrees ==
  {(1 :> Of(Epic, 0, N("a"), 0)) @@ (2 :> Of(Feature, 1, N("a"), 0)) @@ (3 :> Of(Feature, 1, N("b"), 1))
     @@ (4 :> [Of(Story, 2, N("a"), 0) EXCEPT !.template = N("a")]) @@ (5 :> Work(4, N("a"), 0, N("a"), 1, 330)),
   (1 :> Of(Epic, 0, N("a"), 0)) @@ (2 :> Of(Epic, 0, N("b"), 1)) @@ (3 :> Of(Epic, 0, Cap("b"), 1))
     @@ (4 :> Of(Feature, 2, N("a"), 0)),
   <<>>}

MCRoles == {N("a")}
MCTasks == [name |-> Cap("a"), role |-> N("b"), hours |-> 2]
MCMore == [name |-> N("b"), role |-> Cap("a"), hours |-> 3]
MCLibrary == N("a") :> <<MCTasks, MCMore>>
MCLists == {<<MCMore>>}
MCNames == {N("b"), Cap("a")}
MCEstimates == {[hours |-> 0, days |-> None], [hours |-> 1, days |-> 330], [hours |-> 2, days |-> 1005]}

Row(id, kind, path, name) == [id |-> id, kind |-> kind, path |-> path, name |-> name, role |-> N("a"),
                              hours |-> IF kind = Task THEN 1 ELSE 0, days |-> None]
MCGrids ==
  {<<Row(1, Epic, <<>>, N("b"))>>,
   <<Row(1, Epic, <<>>, N("c")), Row(None, Feature, <<N("a")>>, N("c"))>>,
   <<Row(1, Epic, <<>>, N("c")), Row(2, Epic, <<>>, N("c"))>>,
   <<Row(2, Feature, <<>>, N("c"))>>,
   <<Row(2, Feature, <<N("a")>>, N("c")), Row(3, Feature, <<N("a")>>, Cap("c"))>>,
   <<Row(None, Task, <<N("c"), N("a"), N("a")>>, N("a")), Row(None, Story, <<N("c"), N("a")>>, N("a")),
     Row(None, Feature, <<N("c")>>, N("a")), Row(None, Epic, <<>>, N("c"))>>,
   <<Row(None, Feature, <<N("b")>>, N("b"))>>,
   <<Row(5, Task, <<N("a"), N("a"), N("a")>>, N("c")), [Row(None, Task, <<N("a"), N("a"), N("a")>>, N("c")) EXCEPT !.days = 1250]>>}

Cells(e, f, s, t) == <<e, f, s, t>>
Line(kind, cells, template, role, hours) == FileRow(kind, cells, FALSE, template, TRUE, role, hours, 500 * hours)
MCFiles ==
  {<<Line(Task, Cells(N("a"), N("a"), N("a"), N("b")), None, N("b"), 0),
     Line(Task, Cells(None, None, None, N("a")), None, Cap("b"), 1),
     Line(Story, Cells(None, None, None, None), N("a"), None, 0)>>,
   <<Line(Epic, Cells(N("c"), None, None, None), None, None, 0),
     Line(Story, Cells(None, N("b"), N("a"), None), N("a"), None, 0)>>,
   <<Line(Story, Cells(N("a"), N("a"), N("a"), None), N("a"), None, 0)>>,
   <<Line(Story, Cells(N("a"), N("a"), N("a"), None), N("a"), None, 0),
     Line(Task, Cells(None, None, None, N("a")), None, N("b"), 0)>>,
   Exported(<<>>)}
=============================================================================
