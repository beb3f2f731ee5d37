--------------------------- MODULE PlannerDrawer ---------------------------
(***************************************************************************)
(* The Squad Planner drawer of the timeline page: settings that are kept   *)
(* in the browser, a draft of capacity edits and placement locks, plans    *)
(* generated by the server and one of them applied                         *)
(* (SquadPlannerDrawer.tsx, TimelinePage.tsx, timelineUx.ts).              *)
(*                                                                         *)
(* Requests are in flight while the user goes on: closes and opens the     *)
(* drawer, edits, resets, walks to another project.  The effects that run  *)
(* after a rendering are part of the action that caused it.                *)
(***************************************************************************)
EXTENDS Naturals, FiniteSets

CONSTANTS Project, Role, Item,  \* ids; an item is a feature or a story
          LastWeek, Heads,      \* weeks of a plan, headcounts of an edit
          Floors,               \* minimum headcounts the finder may suggest
          MaxId, MaxRevision, MaxVersion, \* bounds of the counters
          None

ASSUME DrawerAssumption ==
  /\ LastWeek \in Nat \ {0} /\ 0 \in Floors /\ 1 \in Heads
  /\ MaxId \in Nat /\ MaxRevision \in Nat /\ MaxVersion \in Nat

Long == LastWeek
Settings == [length : {1, Long}, floor : Floors]
Default == [length |-> Long, floor |-> 0]

Range == {r \in [from : 0 .. LastWeek, until : 0 .. LastWeek] : r.from < r.until}
Edit == {e \in [role : Role, from : 0 .. LastWeek, until : 0 .. LastWeek,
                heads : Heads, locked : BOOLEAN] : e.from < e.until}
Draft == [edits : SUBSET Edit, pins : SUBSET Item]
Version == 0 .. MaxVersion

ASSUME NoneAssumption == None \notin Draft

(* What the server answers: a signed plan, or one that could not be        *)
(* reconciled, without periods and proof.                                  *)
Result == [project : Project, settings : Settings, draft : Draft,
           version : Version, periods : SUBSET Range, signed : BOOLEAN]

VARIABLES page,     \* the project, whether the drawer is open, the finder's floor
          drawer,   \* the state of the component
          sent,     \* generate requests on their way
          applying, \* the apply request on its way
          stored,   \* localStorage: settings of each project
          version   \* planning state of each project, on the server

vars == <<page, drawer, sent, applying, stored, version>>

TypeOK ==
  /\ page \in [project : Project, open : BOOLEAN, seed : Floors \cup {None}]
  /\ drawer \in [settings : Settings, draft : Draft \cup {None},
                 result : Result \cup {None}, proposal : Result \cup {None},
                 revision : 0 .. MaxRevision, validated : 0 .. MaxRevision,
                 lastId : 0 .. MaxId, active : 0 .. MaxId, pending : 0 .. MaxId,
                 rejected : BOOLEAN, error : BOOLEAN, done : BOOLEAN]
  /\ sent \subseteq [id : 0 .. MaxId, revision : 0 .. MaxRevision, project : Project,
                     settings : Settings, draft : Draft \cup {None}]
  /\ applying \in [project : Project, plan : Result,
                   outcome : {"sent", "applied", "refused"}] \cup {None}
  /\ stored \in [Project -> Settings \cup {None}]
  /\ version \in [Project -> Version]

Blank == [settings |-> Default, draft |-> None, result |-> None, proposal |-> None,
          revision |-> 0, validated |-> 0, lastId |-> 0, active |-> 0, pending |-> 0,
          rejected |-> FALSE, error |-> FALSE, done |-> FALSE]

----------------------------------------------------------------------------
(* Ranges of weeks.                                                        *)

(* Mutant: only a range that begins later is met.                          *)
RangesOverlapAhead(r, s) == r.from < s.from /\ s.from < r.until

RangesOverlap(r, s) == r.from < s.until /\ s.from < r.until

(* Mutant: only what is before the blocker remains.                        *)
SubtractTail(source, blockers) ==
  {f \in Range :
     /\ f.from = source.from /\ f.until <= source.until
     /\ \A b \in blockers : ~ RangesOverlap(f, b)
     /\ f.until = source.until \/ \E b \in blockers : b.from = f.until}

(* subtractRange: the ranges of source between the blockers.               *)
SubtractRange(source, blockers) ==
  {f \in Range :
     /\ source.from <= f.from /\ f.until <= source.until
     /\ \A b \in blockers : ~ RangesOverlap(f, b)
     /\ f.from = source.from \/ \E b \in blockers : b.until = f.from
     /\ f.until = source.until \/ \E b \in blockers : b.from = f.until}

Within(e, rs) == {[e EXCEPT !.from = r.from, !.until = r.until] : r \in rs}

Periods(s) == {r \in Range : r.until = r.from + s.length /\ r.from % s.length = 0}

(* The columns of the grid: periods and edits cut at each other's ends.    *)
Cells ==
  LET shown == IF drawer.result # None /\ drawer.result.periods # {}
               THEN drawer.result.periods ELSE drawer.proposal.periods
      all == shown \cup {[from |-> e.from, until |-> e.until] : e \in drawer.draft.edits}
      ends == {r.from : r \in all} \cup {r.until : r \in all}
  IN  {c \in Range : /\ c.from \in ends /\ c.until \in ends
                     /\ \A w \in ends : ~ (c.from < w /\ w < c.until)
                     /\ \E r \in all : RangesOverlap(r, c)}

----------------------------------------------------------------------------
(* Mutant: a finished request is found by its revision alone.              *)
FreshByRevision(q) == q.revision = drawer.revision

(* An answer counts for the last request, if nothing was edited since.     *)
Fresh(q) == q.id = drawer.active /\ q.revision = drawer.revision

(* restoreSettings, of the settings saved for the project and the bounds   *)
(* the Starting Team Finder suggests; requests on their way are disowned.  *)
RestoreSettings(saved, seed) ==
  /\ drawer.lastId < MaxId
  /\ LET s == IF saved = None THEN Default ELSE saved
     IN  drawer' = [Blank EXCEPT
           !.settings = IF seed = None THEN s ELSE [s EXCEPT !.floor = seed],
           !.lastId = drawer.lastId + 1, !.active = drawer.lastId + 1]

(* The effect that saves settings; defaults are not kept.                  *)
Saved(p, s) == [stored EXCEPT ![p] = IF s = Default THEN None ELSE s]

(* markChanged                                                             *)
MarkChanged(d) ==
  /\ drawer.revision < MaxRevision
  /\ drawer' = [d EXCEPT !.revision = @ + 1, !.error = FALSE]

Visible == page.open /\ ~ drawer.done

(* When the drawer opens, or its project changes under it, the settings    *)
(* that are in memory are saved first, and restored then.                  *)
Opens(p, seed) ==
  /\ page' = [project |-> p, open |-> TRUE, seed |-> seed]
  /\ stored' = Saved(p, drawer.settings)
  /\ RestoreSettings(stored'[p], seed)
  /\ UNCHANGED <<sent, applying, version>>

(* From the toolbar or a link, or from the finder with its candidate.      *)
Open == ~ page.open /\ \E seed \in Floors \cup {None} : Opens(page.project, seed)

Navigate(p) ==
  /\ p # page.project
  /\ IF page.open THEN Opens(p, page.seed)
     ELSE page' = [page EXCEPT !.project = p]
          /\ UNCHANGED <<drawer, sent, applying, stored, version>>

(* The roles of the project come again and are not the same.               *)
RolesChange ==
  /\ page.open
  /\ RestoreSettings(stored[page.project], page.seed)
  /\ UNCHANGED <<page, sent, applying, stored, version>>

Close ==
  /\ page.open
  /\ page' = [page EXCEPT !.open = FALSE, !.seed = None]
  /\ UNCHANGED <<drawer, sent, applying, stored, version>>

(* The page is loaded again, a request may get no answer.                  *)
Reload ==
  /\ page' = [page EXCEPT !.open = FALSE, !.seed = None]
  /\ drawer' = Blank /\ sent' = {} /\ applying' = None
  /\ UNCHANGED <<stored, version>>

----------------------------------------------------------------------------
(* Editing; nothing is edited while a plan is applied.                     *)

ChangeSettings(s) ==
  /\ Visible /\ applying = None /\ s # drawer.settings
  /\ MarkChanged([drawer EXCEPT !.settings = s])
  /\ stored' = Saved(page.project, s)
  /\ UNCHANGED <<page, sent, applying, version>>

(* resetToDefaults keeps the draft and the result; below an error it is    *)
(* offered even while a plan is applied.                                   *)
ResetToDefaults ==
  /\ Visible /\ (applying = None \/ drawer.error)
  /\ drawer.lastId < MaxId
  /\ MarkChanged([drawer EXCEPT !.settings = Default, !.pending = 0,
                    !.lastId = @ + 1, !.active = drawer.lastId + 1])
  /\ stored' = Saved(page.project, Default)
  /\ UNCHANGED <<page, sent, applying, version>>

ReplaceDraft(draft) ==
  /\ Visible /\ applying = None
  /\ MarkChanged([drawer EXCEPT !.draft = draft])
  /\ UNCHANGED <<page, sent, applying, stored, version>>

(* The edit a cell belongs to.                                             *)
Selected(role, cell) ==
  {e \in drawer.draft.edits : e.role = role /\ e.from <= cell.from /\ cell.until <= e.until}

CellEdit(role, cell) ==
  IF Selected(role, cell) # {} THEN CHOOSE e \in Selected(role, cell) : TRUE
  ELSE [role |-> role, from |-> cell.from, until |-> cell.until,
        heads |-> 1, locked |-> FALSE]

(* updateCapacityEdit: the cell is cut out of the edit it belongs to, and  *)
(* what other locked edits have of it stays theirs.                        *)
UpdateCapacityEdit(role, cell, edit) ==
  LET own == Selected(role, cell)
      alike == {e \in drawer.draft.edits : e.role = role /\ RangesOverlap(e, cell)}
      kept == {e \in alike \ own : e.locked}
  IN  ReplaceDraft([drawer.draft EXCEPT !.edits =
        (@ \ (alike \ kept))
          \cup (UNION {Within(e, SubtractRange(e, {cell})) : e \in alike \ kept})
          \cup Within(edit, SubtractRange(cell, kept))])

EditHeads(role, cell, heads) ==
  /\ CellEdit(role, cell).heads # heads
  /\ UpdateCapacityEdit(role, cell, [CellEdit(role, cell) EXCEPT !.heads = heads])

ToggleCapacityLock(role, cell) ==
  UpdateCapacityEdit(role, cell, [CellEdit(role, cell) EXCEPT !.locked = ~ @])

(* toggleFeatureLock, toggleStoryLock                                      *)
TogglePlacementLock(i) ==
  ReplaceDraft([drawer.draft EXCEPT !.pins = IF i \in @ THEN @ \ {i} ELSE @ \cup {i}])

(* There is a grid once there was a result.                                *)
EditDraft ==
  /\ drawer.result # None
  /\ \/ \E role \in Role, cell \in Cells :
          \/ \E heads \in Heads : EditHeads(role, cell, heads)
          \/ ToggleCapacityLock(role, cell)
     \/ \E i \in Item : TogglePlacementLock(i)

----------------------------------------------------------------------------
(* Generating.                                                             *)

RunGenerate ==
  /\ Visible /\ drawer.pending = 0 /\ applying = None /\ drawer.lastId < MaxId
  /\ LET id == drawer.lastId + 1
     IN  /\ drawer' = [drawer EXCEPT !.lastId = id, !.active = id, !.pending = id, !.error = FALSE]
         /\ sent' = sent \cup {[id |-> id, revision |-> drawer.revision, project |-> page.project,
                               settings |-> drawer.settings, draft |-> drawer.draft]}
  /\ UNCHANGED <<page, applying, stored, version>>

(* The draft the server returns: the one it was sent, or one for the plan  *)
(* that is active, of unlocked edits.                                      *)
Reopened == [edits |-> {[role |-> r, from |-> 0, until |-> LastWeek, heads |-> 1, locked |-> FALSE] : r \in Role},
             pins |-> {}]

Generated(q, reconciled) ==
  [project |-> q.project, settings |-> q.settings,
   draft |-> IF q.draft = None THEN Reopened ELSE q.draft, version |-> version[q.project],
   periods |-> IF reconciled THEN Periods(q.settings) ELSE {}, signed |-> reconciled]

(* Mutant: only an answer that counts ends the waiting.                    *)
WaitingIfFresh(q) == IF Fresh(q) THEN 0 ELSE drawer.pending

(* The mutation the component observes is over, whatever came.             *)
Waiting(q) == IF drawer.pending = q.id THEN 0 ELSE drawer.pending

GenerateAnswered(q) ==
  /\ q \in sent
  /\ sent' = sent \ {q}
  /\ \E reconciled \in BOOLEAN :
       LET r == Generated(q, reconciled)
       IN  drawer' =
             IF Fresh(q)
             THEN [drawer EXCEPT !.pending = Waiting(q), !.draft = r.draft, !.result = r,
                     !.proposal = IF @ = None THEN r ELSE @,
                     !.validated = q.revision, !.rejected = FALSE, !.error = FALSE]
             ELSE [drawer EXCEPT !.pending = Waiting(q)]
  /\ UNCHANGED <<page, applying, stored, version>>

GenerateFailed(q) ==
  /\ q \in sent
  /\ sent' = sent \ {q}
  /\ drawer' = [drawer EXCEPT !.pending = Waiting(q), !.error = @ \/ Fresh(q)]
  /\ UNCHANGED <<page, applying, stored, version>>

----------------------------------------------------------------------------
(* Applying.                                                               *)

ResultIsStale == drawer.validated # drawer.revision

(* isApplyableResult                                                       *)
Applyable(r) == r.signed /\ r.periods # {}

CanApply ==
  /\ Visible /\ drawer.result # None /\ ~ ResultIsStale
  /\ drawer.pending = 0 /\ applying = None /\ ~ drawer.rejected
  /\ Applyable(drawer.result)

Apply ==
  /\ CanApply
  /\ applying' = [project |-> page.project, plan |-> drawer.result, outcome |-> "sent"]
  /\ UNCHANGED <<page, drawer, sent, stored, version>>

(* The server applies what was reviewed of the project as it is now; it    *)
(* changes the project.                                                    *)
ServeApply ==
  /\ applying # None /\ applying.outcome = "sent"
  /\ LET p == applying.project
         current == applying.plan.project = p /\ applying.plan.version = version[p]
     IN  /\ current => version[p] < MaxVersion
         /\ applying' = [applying EXCEPT !.outcome = IF current THEN "applied" ELSE "refused"]
         /\ version' = [version EXCEPT ![p] = IF current THEN @ + 1 ELSE @]
  /\ UNCHANGED <<page, drawer, sent, stored>>

ApplyAnswered ==
  /\ applying # None /\ applying.outcome # "sent"
  /\ IF applying.outcome = "applied"
     THEN /\ drawer' = [drawer EXCEPT !.done = TRUE, !.error = FALSE, !.rejected = FALSE]
          /\ page' = [page EXCEPT !.open = FALSE, !.seed = None]
     ELSE /\ drawer' = [drawer EXCEPT !.rejected = TRUE, !.error = TRUE]
          /\ UNCHANGED page
  /\ applying' = None
  /\ UNCHANGED <<sent, stored, version>>

(* No answer, or one that says nothing of the proof: it may be applied or  *)
(* not.                                                                    *)
ApplyLost ==
  /\ applying # None
  /\ drawer' = [drawer EXCEPT !.error = TRUE]
  /\ applying' = None
  /\ UNCHANGED <<page, sent, stored, version>>

(* Somebody else edits the project.                                        *)
OtherChange(p) ==
  /\ version[p] < MaxVersion
  /\ version' = [version EXCEPT ![p] = @ + 1]
  /\ UNCHANGED <<page, drawer, sent, applying, stored>>

----------------------------------------------------------------------------
Init ==
  /\ page \in [project : Project, open : {FALSE}, seed : {None}]
  /\ drawer = Blank /\ sent = {} /\ applying = None
  /\ stored \in [Project -> (Settings \ {Default}) \cup {None}]
  /\ version = [p \in Project |-> 0]

Answers ==
  \/ \E q \in sent : GenerateAnswered(q) \/ GenerateFailed(q)
  \/ ApplyAnswered \/ ApplyLost

Next ==
  \/ Open \/ Close \/ Reload \/ RolesChange
  \/ \E p \in Project : Navigate(p) \/ OtherChange(p)
  \/ \E s \in Settings : ChangeSettings(s)
  \/ ResetToDefaults \/ EditDraft
  \/ RunGenerate \/ Apply \/ ServeApply
  \/ Answers

(* A request that was sent is answered or fails.                           *)
Spec == Init /\ [][Next]_vars /\ WF_vars(Answers)

----------------------------------------------------------------------------
(* Properties.                                                             *)

(* A plan is sent to be applied only to the project it was generated for,  *)
(* from just the settings and the draft that are on the screen, whatever   *)
(* answers came late, were overtaken, or belonged to an earlier opening.   *)
AppliesWhatIsShown ==
  [][applying = None /\ applying' # None =>
       LET plan == applying'.plan
       IN  /\ plan.project = page.project /\ applying'.project = page.project
           /\ plan.settings = drawer.settings
           /\ plan.draft = drawer.draft]_vars

Staff(draft, role, w) ==
  {<<e.heads, e.locked>> : e \in {e \in draft.edits : e.role = role /\ e.from <= w /\ w < e.until}}

(* The state has its type, and the draft says one thing of a role and week, *)
(* however its cells were cut, so that the server accepts it.               *)
DraftSound ==
  /\ TypeOK
  /\ drawer.draft # None =>
       \A e, f \in drawer.draft.edits :
         e.role = f.role /\ e # f => e.until <= f.from \/ f.until <= e.from

(* The draft is changed by the user alone, one placement lock or one cell   *)
(* at a time: no answer, and no edit of another cell or role, changes what  *)
(* was edited or locked before.                                             *)
DraftKept ==
  [][LET was == drawer.draft
         is == drawer'.draft
     IN  was # None /\ is # None /\ is # was =>
           /\ drawer'.revision = drawer.revision + 1
           /\ \/ /\ is.edits = was.edits
                 /\ \E i \in Item : \A j \in Item \ {i} : j \in is.pins <=> j \in was.pins
              \/ /\ is.pins = was.pins
                 /\ \E role \in Role, cell \in Cells :
                      \A r \in Role, w \in 0 .. LastWeek - 1 :
                        Staff(is, r, w) # Staff(was, r, w) =>
                          r = role /\ cell.from <= w /\ w < cell.until]_vars

(* The drawer does not wait for ever: every request it shows as pending    *)
(* ends, also one whose answer no longer counts.                           *)
WaitingEnds == drawer.pending # 0 \/ applying # None ~> drawer.pending = 0 /\ applying = None
=============================================================================
