--------------------------- MODULE PlanningModel ---------------------------
(***************************************************************************)
(* deriveProjectPlanningModel: weekly demand from the cache of the last    *)
(* schedule or spread over the timeline entries, weekly capacity, and the  *)
(* assignment of demand to people (projectPlanningModel.ts,                *)
(* namedResourceAssignments.ts).                                           *)
(*                                                                         *)
(* A project is [roles, features, cache, parallel, buffer, onboarding].    *)
(* A feature is [epic, active, from, length, stories], from and length of  *)
(* its timeline entry in ticks or None, a story [active, bar, hours] with  *)
(* the hours of each role id or None and its own entry, <<from, length>>   *)
(* or None.  The cache is a sequence of [key, week, days] whose key is the *)
(* id of a role, or its name in old caches; parallel is a set of epics.    *)
(* Rows are found by the name of the role, as in the code.                 *)
(***************************************************************************)
EXTENDS CapacityViews

CONSTANTS LowerCase   \* name.toLowerCase(): a function on names

Ids(project) == {project.roles[i].id : i \in DOMAIN project.roles}

RoleIndex(project, id) == CHOOSE i \in DOMAIN project.roles : project.roles[i].id = id

NameOfId(project, id) ==
  IF id = None THEN "Unassigned" ELSE project.roles[RoleIndex(project, id)].name

(* Math.round(x * 10) / 10                                                 *)
ToTenth(x) == (Day \div 10) * ((2 * x + Day \div 10) \div (2 * (Day \div 10)))

ActiveStories(e) == {k \in DOMAIN e.stories : e.stories[k].active}

EffortOf(e, id) ==
  SumOver(ActiveStories(e), LAMBDA k : e.stories[k].hours[id]) * (Day \div HoursPerDay)

(* computeResourceBreakdown: the days of each role in a feature.           *)
Breakdown(project, e) ==
  [id \in Ids(project) \cup {None} |-> ToTenth(EffortOf(e, id))]

ActiveEntries(project) ==
  {i \in DOMAIN project.features : project.features[i].active /\ project.features[i].from # None}

(* computePlanningWindow: the last tick, None without entries.             *)
MaxTick(project) ==
  LET es == project.features
      active == ActiveEntries(project)
  IN  IF active = {} THEN None
      ELSE Max({es[i].from + es[i].length : i \in active})
             + (project.buffer + project.onboarding) * TicksPerWeek

Overlap(e, w) ==
  Max({0, Min({(w + 1) * TicksPerWeek, e.from + e.length}) - Max({w * TicksPerWeek, e.from})})

WeeksOf(e) ==
  {w \in e.from \div TicksPerWeek .. CeilDiv(e.from + e.length, TicksPerWeek) - 1 :
     Overlap(e, w) > 0}

(* buildFallbackWeeklyDemand: the days of an entry spread over its weeks.  *)
Spread(project, e, id, w) == (Breakdown(project, e)[id] * Overlap(e, w)) \div e.length

Mentioned(project, e) ==
  {id \in Ids(project) \cup {None} :
     \E k \in ActiveStories(e) : e.stories[k].hours[id] > 0}

FallbackDemand(project) ==
  LET es == project.features
      long == {i \in ActiveEntries(project) : es[i].length > 0}
      named(e, n) == {id \in Mentioned(project, e) : NameOfId(project, id) = n}
      keys == UNION {{<<w, NameOfId(project, id)>> :
                        w \in WeeksOf(es[i]), id \in Mentioned(project, es[i])}
                     : i \in long}
  IN  [key \in keys |->
         ToTenth(SumOver(long, LAMBDA i :
           SumOver(named(es[i], key[2]), LAMBDA id : Spread(project, es[i], id, key[1]))))]

(* resolveCacheKeyResourceTypeName                                         *)
NameOfKey(project, key) ==
  LET alike == {i \in DOMAIN project.roles :
                  key \in DOMAIN LowerCase
                    /\ LowerCase[project.roles[i].name] = LowerCase[key]}
  IN  CASE key \in Ids(project) -> NameOfId(project, key)
        [] key \notin Ids(project) /\ alike # {} -> project.roles[Max(alike)].name
        [] OTHER -> "Unknown resource"

(* convertWeeklyDemandCache: the last of two rows with one name stays.     *)
ConvertedCache(project) ==
  LET key(i) == <<project.cache[i].week, NameOfKey(project, project.cache[i].key)>>
      rows == DOMAIN project.cache
  IN  [k \in {key(i) : i \in rows} |-> project.cache[Max({i \in rows : key(i) = k})].days]

(* A role with any cached demand has no fallback demand.                   *)
Uncached(fallback, cached) ==
  {key \in DOMAIN fallback : \A k \in DOMAIN cached : k[2] # key[2]}

(* mergeWeeklyDemand                                                       *)
MergedDemand(fallback, cached) ==
  LET both == [k \in DOMAIN cached \cup Uncached(fallback, cached) |->
                 IF k \in DOMAIN cached THEN cached[k] ELSE fallback[k]]
  IN  Restrict(both, {k \in DOMAIN both : both[k] > 0})

WeeklyDemand(project) ==
  IF project.cache = <<>> THEN FallbackDemand(project)
  ELSE MergedDemand(FallbackDemand(project), ConvertedCache(project))

ResolvedRoles(project) == [i \in DOMAIN project.roles |-> Resolve(project.roles[i])]

(* computeWeeklyCapacity for the weeks shown: of two roles with one name   *)
(* the last one is what demand rows are compared with.                     *)
CapacityEnd(project, demand) ==
  Max({CeilDiv(Or(MaxTick(project), 0), TicksPerWeek), 1 + Max({0} \cup {k[1] : k \in DOMAIN demand})})

CapacityRows(project, roles, demand) ==
  LET shown == {i \in DOMAIN roles : \E k \in DOMAIN demand : k[2] = roles[i].name}
      named(n) == {i \in shown : roles[i].name = n}
  IN  [k \in (0 .. CapacityEnd(project, demand) - 1) \X {roles[i].name : i \in shown} |->
         ToTenth(WeeklyCapacity(roles[Max(named(k[2]))], k[1]))]

(* computeParallelWarnings: the roles that are asked for more than they    *)
(* can do within the span of a parallel epic.                              *)
ParallelWarnings(project) ==
  LET es == project.features
      of(p) == {i \in ActiveEntries(project) : es[i].epic = p}
      from(p) == Min({es[i].from : i \in of(p)})
      span(p) == [from |-> from(p),
                  length |-> Max({es[i].from + es[i].length : i \in of(p)}) - from(p)]
      effort(p, id) == SumOver(of(p), LAMBDA i : EffortOf(es[i], id))
      capacity(p, id) ==
        IF id = None THEN 0
        ELSE SumOver(WeeksOf(span(p)), LAMBDA w : Overlap(span(p), w) *
               WeeklyCapacity(Resolve(project.roles[RoleIndex(project, id)]), w))
  IN  {x \in {p \in project.parallel : Cardinality(of(p)) >= 2} \X (Ids(project) \cup {None}) :
         effort(x[1], x[2]) * TicksPerWeek > capacity(x[1], x[2])}

----------------------------------------------------------------------------
(* deriveNamedResourceAssignments for one role.                            *)

(* buildEffectiveNamedResources: while there is demand, the aggregate of   *)
(* the role is a colleague of its people.                                  *)
Holders(resolved, hasDemand) ==
  LET people == [i \in DOMAIN resolved.people |->
                   [segments |-> resolved.people[i].segments, synthetic |-> FALSE]]
  IN  IF resolved.segments # <<>> /\ hasDemand
      THEN <<[segments |-> resolved.segments, synthetic |-> TRUE]>> \o people
      ELSE people

(* weeklyCapacityForNamedResource                                          *)
HolderCapacity(h, w) == Point * PercentAt(h.segments, w)

(* Who is asked first: whoever worked last week, people before the role,   *)
(* those with less so far, the order of creation.                          *)
AskedFirst(holders, st, w, i, j) ==
  LET goesOn(k) == IF st.last[k] = w - 1 THEN 0 ELSE 1
      made(k) == IF holders[k].synthetic THEN 1 ELSE 0
      rank(k) == <<goesOn(k), made(k), st.total[k], k>>
      n == Min({n \in 1 .. 4 : rank(i)[n] # rank(j)[n]})
  IN  rank(i)[n] < rank(j)[n]

ShareOf(left, capacity) == Min({left, capacity})

Give(holders, w, st, i) ==
  LET days == ShareOf(st.left, HolderCapacity(holders[i], w))
  IN  IF days = 0 THEN st
      ELSE [given |-> st.given \cup {[holder |-> i, week |-> w, days |-> days]},
            total |-> [st.total EXCEPT ![i] = @ + days],
            last |-> [st.last EXCEPT ![i] = w],
            left |-> st.left - days,
            unallocated |-> st.unallocated]

AskedLast(holders, st, w, S) ==
  CHOOSE j \in S : \A i \in S \ {j} : AskedFirst(holders, st, w, i, j)

Able(holders, w) == {i \in DOMAIN holders : HolderCapacity(holders[i], w) > 0}

GiveInTurn(holders, st, w, days) ==
  MapThenFoldSet(LAMBDA i, s : Give(holders, w, s, i), [st EXCEPT !.left = days],
                 LAMBDA i : i, LAMBDA S : AskedLast(holders, st, w, S), Able(holders, w))

GiveWeek(holders, st, w, days) ==
  LET after == GiveInTurn(holders, st, w, days)
  IN  [after EXCEPT !.unallocated = @ + after.left]

RowsOf(demand, name) == {k \in DOMAIN demand : k[2] = name /\ demand[k] > 0}

NothingGiven(holders) ==
  [given |-> {}, total |-> [i \in DOMAIN holders |-> 0],
   last |-> [i \in DOMAIN holders |-> -2], left |-> 0, unallocated |-> 0]

(* Week by week, the last one on top of those before.                      *)
Assignment(resolved, demand) ==
  LET rows == RowsOf(demand, resolved.name)
      holders == Holders(resolved, rows # {})
  IN  MapThenFoldSet(LAMBDA w, st : GiveWeek(holders, st, w, demand[<<w, resolved.name>>]),
                     NothingGiven(holders), LAMBDA w : w, LAMBDA S : Max(S), {k[1] : k \in rows})

(* buildSegments: the runs of weeks of one holder, with their days.        *)
AssignedSegments(assignment, i) ==
  LET mine == {g \in assignment.given : g.holder = i}
      weeks == {g.week : g \in mine}
      whole(a, b) == a .. b \subseteq weeks
  IN  {[from |-> s[1], to |-> s[2],
        days |-> SumOver({g \in mine : g.week \in s[1] .. s[2]}, LAMBDA g : g.days)] :
         s \in {s \in weeks \X weeks : /\ s[1] <= s[2] /\ whole(s[1], s[2])
                                       /\ s[1] - 1 \notin weeks /\ s[2] + 1 \notin weeks}}

Shown(made) ==
  [given |-> made.given, unallocated |-> made.unallocated,
   spans |-> [i \in DOMAIN made.total |-> AssignedSegments(made, i)]]

ShownAssignment(resolved, demand) == Shown(Assignment(resolved, demand))

(* profileBackedNamedResourceIds: everybody counts with a profile.         *)
ProfileBacked(role) ==
  role.people # <<>> /\ \A i \in DOMAIN role.people : ~ Suppressed(role, role.people[i])

(* The fail-closed resolver answers 409 instead of a model.                *)
ModelOf(project, roles, demand) ==
  [maxTick |-> MaxTick(project),
   demand |-> demand,
   capacity |-> CapacityRows(project, roles, demand),
   warnings |-> ParallelWarnings(project),
   backed |-> {i \in DOMAIN roles : ProfileBacked(project.roles[i])},
   assignments |-> [i \in DOMAIN roles |-> ShownAssignment(roles[i], demand)]]

Model(project) == ModelOf(project, ResolvedRoles(project), WeeklyDemand(project))
=============================================================================
