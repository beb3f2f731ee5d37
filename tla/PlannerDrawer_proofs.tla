------------------------ MODULE PlannerDrawer_proofs ------------------------
(***************************************************************************)
(* Proofs about the Squad Planner drawer.                                  *)
(***************************************************************************)
EXTENDS PlannerDrawer, TLAPS

(* Two edits of one role have no week in common.                           *)
Apart(draft) ==
  \A e, f \in draft.edits :
    e.role = f.role /\ e # f => e.until <= f.from \/ f.until <= e.from

(* What is on the screen and what was sent with a request.                 *)
DraftsApart ==
  /\ drawer.draft # None => Apart(drawer.draft)
  /\ \A q \in sent : q.draft # None => Apart(q.draft)

(* Requests have ids of their own, up to the last that was given.          *)
IdsDiffer ==
  /\ drawer.active <= drawer.lastId
  /\ \A q \in sent : q.id <= drawer.lastId
  /\ \A q, p \in sent : q.id = p.id => q = p

(* A request whose answer would count asks for what is on the screen.      *)
AsksWhatIsShown ==
  \A q \in sent : q.id = drawer.active =>
    /\ q.revision <= drawer.revision
    /\ q.revision = drawer.revision =>
         /\ q.settings = drawer.settings /\ q.draft = drawer.draft
         /\ page.open => q.project = page.project

(* A result that is not stale answers what is on the screen.               *)
ResultIsShown ==
  /\ drawer.validated <= drawer.revision
  /\ drawer.result # None /\ ~ ResultIsStale =>
       /\ drawer.result.settings = drawer.settings
       /\ drawer.result.draft = drawer.draft
       /\ page.open => drawer.result.project = page.project

(* There is a draft to edit once there is a result.                        *)
ResultHasDraft == drawer.result # None => drawer.draft # None

Shown == DraftsApart /\ IdsDiffer /\ AsksWhatIsShown /\ ResultIsShown /\ ResultHasDraft

IInv == TypeOK /\ Shown

----------------------------------------------------------------------------
(* Ranges of weeks.                                                        *)

LEMMA RangeTyped ==
  ASSUME NEW r \in Range
  PROVE  r.from \in Nat /\ r.until \in Nat /\ r.from < r.until
BY DrawerAssumption DEF Range

LEMMA EditTyped ==
  ASSUME NEW e \in Edit
  PROVE  /\ e.role \in Role /\ e.from \in Nat /\ e.until \in Nat /\ e.from < e.until
         /\ e.until <= LastWeek
BY DrawerAssumption DEF Edit

(* What subtractRange leaves lies in the source, away from the blockers,   *)
(* and no two of its ranges have a week in common.                         *)
LEMMA FragmentsApart ==
  ASSUME NEW source, source.from \in Nat, source.until \in Nat,
         NEW blockers,
         \A b \in blockers : b.from \in Nat /\ b.until \in Nat /\ b.from < b.until
  PROVE  /\ \A f \in SubtractRange(source, blockers) :
               /\ f \in Range /\ source.from <= f.from /\ f.until <= source.until
               /\ \A b \in blockers : f.until <= b.from \/ b.until <= f.from
         /\ \A f, g \in SubtractRange(source, blockers) :
               f # g => f.until <= g.from \/ g.until <= f.from
<1>1. ASSUME NEW f \in SubtractRange(source, blockers)
      PROVE  /\ f \in Range /\ source.from <= f.from /\ f.until <= source.until
             /\ \A b \in blockers : f.until <= b.from \/ b.until <= f.from
  BY RangeTyped DEF SubtractRange, RangesOverlap
<1>2. ASSUME NEW f \in SubtractRange(source, blockers),
             NEW g \in SubtractRange(source, blockers),
             f.from < g.until, g.from < f.until
      PROVE  f.from = g.from
  <2>1. f \in Range /\ g \in Range
    BY <1>1
  <2>2. ~ (f.from < g.from)
    BY <1>1, <1>2, <2>1, RangeTyped DEF SubtractRange, RangesOverlap
  <2>3. ~ (g.from < f.from)
    BY <1>1, <1>2, <2>1, RangeTyped DEF SubtractRange, RangesOverlap
  <2> QED  BY <2>1, <2>2, <2>3, RangeTyped
<1>3. ASSUME NEW f \in SubtractRange(source, blockers),
             NEW g \in SubtractRange(source, blockers),
             f.from < g.until, g.from < f.until
      PROVE  f.until = g.until
  <2>1. f \in Range /\ g \in Range
    BY <1>1
  <2>2. ~ (f.until < g.until)
    BY <1>1, <1>3, <2>1, RangeTyped DEF SubtractRange, RangesOverlap
  <2>3. ~ (g.until < f.until)
    BY <1>1, <1>3, <2>1, RangeTyped DEF SubtractRange, RangesOverlap
  <2> QED  BY <2>1, <2>2, <2>3, RangeTyped
<1>4. ASSUME NEW f \in Range, NEW g \in Range, f.from = g.from, f.until = g.until
      PROVE  f = g
  BY <1>4 DEF Range
<1> QED
  <2> SUFFICES ASSUME NEW f \in SubtractRange(source, blockers),
                      NEW g \in SubtractRange(source, blockers),
                      f # g, ~ (f.until <= g.from \/ g.until <= f.from)
               PROVE  FALSE
    BY <1>1
  <2>1. f \in Range /\ g \in Range
    BY <1>1
  <2>2. f.from < g.until /\ g.from < f.until
    BY <2>1, RangeTyped
  <2> QED  BY <1>2, <1>3, <1>4, <2>1, <2>2

(* Cut by one cell it meets, a range keeps every week outside of the cell. *)
LEMMA FragmentsCover ==
  ASSUME NEW source, source.from \in 0 .. LastWeek, source.until \in 0 .. LastWeek,
         NEW cell \in Range, RangesOverlap(source, cell),
         NEW w \in Nat, source.from <= w, w < source.until,
         ~ (cell.from <= w /\ w < cell.until)
  PROVE  \E f \in SubtractRange(source, {cell}) : f.from <= w /\ w < f.until
<1> DEFINE before == [from |-> source.from, until |-> cell.from]
           after == [from |-> cell.until, until |-> source.until]
<1>1. cell.from \in 0 .. LastWeek /\ cell.until \in 0 .. LastWeek /\ cell.from < cell.until
      /\ LastWeek \in Nat
  BY DrawerAssumption DEF Range
<1>2. CASE w < cell.from
  <2>1. before \in Range
    BY <1>1, <1>2 DEF Range
  <2>2. before \in SubtractRange(source, {cell})
    BY <1>1, <1>2, <2>1 DEF SubtractRange, RangesOverlap
  <2> QED  BY <1>2, <2>2
<1>3. CASE cell.until <= w
  <2>1. after \in Range
    BY <1>1, <1>3 DEF Range
  <2>2. after \in SubtractRange(source, {cell})
    BY <1>1, <1>3, <2>1 DEF SubtractRange, RangesOverlap
  <2> QED  BY <1>3, <2>2
<1> QED  BY <1>1, <1>2, <1>3

(* Each edit that is written for a range has the range and, otherwise, what *)
(* it is written from.                                                     *)
Piece(x, e, r) ==
  /\ x.role = e.role /\ x.heads = e.heads /\ x.locked = e.locked
  /\ x.from = r.from /\ x.until = r.until

LEMMA WithinTyped ==
  ASSUME NEW e \in Edit, NEW rs, rs \subseteq Range, NEW x \in Within(e, rs)
  PROVE  x \in Edit /\ \E r \in rs : Piece(x, e, r)
<1>1. PICK r \in rs : x = [e EXCEPT !.from = r.from, !.until = r.until]
  BY DEF Within
<1>2. r \in Range
  OBVIOUS
<1>3. x = [role |-> e.role, from |-> r.from, until |-> r.until,
           heads |-> e.heads, locked |-> e.locked]
  BY <1>1 DEF Edit
<1> QED  BY <1>1, <1>2, <1>3 DEF Edit, Range, Piece

LEMMA WithinHas ==
  ASSUME NEW e \in Edit, NEW rs, rs \subseteq Range, NEW r \in rs
  PROVE  \E x \in Within(e, rs) : Piece(x, e, r)
<1> DEFINE x == [e EXCEPT !.from = r.from, !.until = r.until]
<1>1. x \in Within(e, rs)
  BY DEF Within
<1>2. Piece(x, e, r)
  BY DEF Edit, Piece
<1> HIDE DEF x
<1> QED  BY <1>1, <1>2

LEMMA PiecesEqual ==
  ASSUME NEW e, NEW r, NEW x \in Edit, NEW y \in Edit, Piece(x, e, r), Piece(y, e, r)
  PROVE  x = y
BY DEF Piece, Edit

----------------------------------------------------------------------------
(* updateCapacityEdit, as a function of the edits there are.               *)

Met(edits, role, cell) == {e \in edits : e.role = role /\ RangesOverlap(e, cell)}

Recut(edits, cut, kept, cell, edit) ==
  (edits \ cut) \cup (UNION {Within(e, SubtractRange(e, {cell})) : e \in cut})
  \cup Within(edit, SubtractRange(cell, kept))

(* What an edit after the update is: one from before that keeps off the    *)
(* cell or is locked, a piece of one that was cut, outside of the cell, or  *)
(* the cell's own, inside of it and away from what is locked.              *)
Off(x, y) == x.until <= y.from \/ y.until <= x.from
In(x, y) == y.from <= x.from /\ x.until <= y.until

Uncut(x, edits, role, cell, kept) ==
  x \in edits /\ (x \in kept \/ (x.role = role => Off(x, cell)))

PieceOf(x, e, cell) ==
  /\ \E f \in SubtractRange(e, {cell}) : Piece(x, e, f)
  /\ In(x, e) /\ Off(x, cell)

OwnPiece(x, edit, cell, kept) ==
  /\ \E f \in SubtractRange(cell, kept) : Piece(x, edit, f)
  /\ In(x, cell) /\ \A b \in kept : Off(x, b)

LEMMA RecutFrom ==
  ASSUME NEW edits \in SUBSET Edit, NEW role \in Role, NEW cell \in Range,
         NEW kept \in SUBSET Met(edits, role, cell),
         NEW edit \in Edit, edit.role = role,
         NEW cut, cut = Met(edits, role, cell) \ kept,
         NEW x \in Recut(edits, cut, kept, cell, edit)
  PROVE  /\ x \in Edit
         /\ \/ Uncut(x, edits, role, cell, kept)
            \/ \E e \in cut : PieceOf(x, e, cell)
            \/ OwnPiece(x, edit, cell, kept)
<1>1. /\ cut \subseteq edits /\ kept \subseteq edits
      /\ \A e \in cut : e.role = role
      /\ cut \cup kept = Met(edits, role, cell)
  BY DEF Met
<1>2. \A e \in edits : /\ e \in Edit /\ e.from \in Nat /\ e.until \in Nat /\ e.from < e.until
  BY EditTyped
<1>3. cell.from \in Nat /\ cell.until \in Nat /\ cell.from < cell.until
  BY RangeTyped
<1>4. \A s, bs : SubtractRange(s, bs) \subseteq Range
  BY DEF SubtractRange
<1>5. CASE x \in edits \ cut
  <2>1. x \in Met(edits, role, cell) => x \in kept
    BY <1>1, <1>5
  <2>2. x \in Edit /\ x.from \in Nat /\ x.until \in Nat
    BY <1>2, <1>5
  <2>3. x.role = role => x \in kept \/ Off(x, cell)
    BY <1>3, <1>5, <2>1, <2>2 DEF Met, RangesOverlap, Off
  <2> QED  BY <1>5, <2>2, <2>3 DEF Uncut
<1>6. ASSUME NEW e \in cut, x \in Within(e, SubtractRange(e, {cell}))
      PROVE  x \in Edit /\ PieceOf(x, e, cell)
  <2>1. e \in Edit /\ e.from \in Nat /\ e.until \in Nat /\ e.role = role
    BY <1>1, <1>2
  <2>2. \A f \in SubtractRange(e, {cell}) : In(f, e) /\ Off(f, cell)
    <3>1. \A b \in {cell} : b.from \in Nat /\ b.until \in Nat /\ b.from < b.until
      BY <1>3
    <3> QED  BY <2>1, <3>1, FragmentsApart DEF In, Off
  <2>3. SubtractRange(e, {cell}) \subseteq Range
    BY <1>4
  <2>4. x \in Edit /\ \E r \in SubtractRange(e, {cell}) : Piece(x, e, r)
    BY <1>6, <2>1, <2>3, WithinTyped
  <2> QED  BY <2>2, <2>4 DEF PieceOf, Piece, In, Off
<1>7. ASSUME x \in Within(edit, SubtractRange(cell, kept))
      PROVE  x \in Edit /\ OwnPiece(x, edit, cell, kept)
  <2>1. \A f \in SubtractRange(cell, kept) : In(f, cell) /\ \A b \in kept : Off(f, b)
    <3>1. \A b \in kept : b.from \in Nat /\ b.until \in Nat /\ b.from < b.until
      BY <1>1, <1>2
    <3> QED  BY <1>3, <3>1, FragmentsApart DEF In, Off
  <2>2. SubtractRange(cell, kept) \subseteq Range
    BY <1>4
  <2>3. x \in Edit /\ \E r \in SubtractRange(cell, kept) : Piece(x, edit, r)
    BY <1>7, <2>2, WithinTyped
  <2> QED  BY <2>1, <2>3 DEF OwnPiece, Piece, In, Off
<1>8. \/ x \in edits \ cut
      \/ \E e \in cut : x \in Within(e, SubtractRange(e, {cell}))
      \/ x \in Within(edit, SubtractRange(cell, kept))
  BY DEF Recut
<1> QED  BY <1>5, <1>6, <1>7, <1>8

(* Edits that had no week in common have none afterwards.                  *)
LEMMA RecutApart ==
  ASSUME NEW edits \in SUBSET Edit, NEW role \in Role, NEW cell \in Range,
         NEW kept \in SUBSET Met(edits, role, cell),
         NEW edit \in Edit, edit.role = role,
         NEW cut, cut = Met(edits, role, cell) \ kept,
         \A e, f \in edits : e.role = f.role /\ e # f => Off(e, f),
         NEW x \in Recut(edits, cut, kept, cell, edit),
         NEW y \in Recut(edits, cut, kept, cell, edit),
         x.role = y.role, x # y
  PROVE  Off(x, y)
<1> DEFINE Kind(z) == \/ Uncut(z, edits, role, cell, kept)
                      \/ \E e \in cut : PieceOf(z, e, cell)
                      \/ OwnPiece(z, edit, cell, kept)
<1>1. Kind(x) /\ Kind(y) /\ x \in Edit /\ y \in Edit
  BY RecutFrom
<1>2. /\ cut \subseteq edits /\ kept \subseteq edits
      /\ \A e \in cut : e.role = role /\ e \notin kept /\ ~ Off(e, cell)
  <2>1. \A e \in Met(edits, role, cell) : e.role = role /\ ~ Off(e, cell)
    BY RangeTyped, EditTyped DEF Met, RangesOverlap, Off
  <2> QED  BY <2>1 DEF Met
<1>3. \A e \in edits : e \in Edit /\ e.from \in Nat /\ e.until \in Nat /\ e.from < e.until
  BY EditTyped
<1>4. cell.from \in Nat /\ cell.until \in Nat /\ cell.from < cell.until
  BY RangeTyped
<1>5. ASSUME NEW a \in Edit, NEW b \in Edit, a.role = b.role,
             Uncut(a, edits, role, cell, kept), NEW e \in cut, PieceOf(b, e, cell)
      PROVE  Off(a, b) /\ Off(b, a)
  <2>1. a \in edits /\ e \in edits /\ a.role = e.role
    BY <1>2, <1>5 DEF Uncut, PieceOf, Piece
  <2>2. a # e
    BY <1>2, <1>5 DEF Uncut
  <2>3. Off(a, e)
    BY <2>1, <2>2
  <2>4. In(b, e)
    BY <1>5 DEF PieceOf
  <2>5. /\ a.from \in Nat /\ a.until \in Nat /\ b.from \in Nat /\ b.until \in Nat
        /\ e.from \in Nat /\ e.until \in Nat
    BY <1>3, <2>1, EditTyped
  <2> QED  BY <2>3, <2>4, <2>5 DEF Off, In
<1>6. ASSUME NEW a \in Edit, NEW b \in Edit, a.role = b.role,
             Uncut(a, edits, role, cell, kept), OwnPiece(b, edit, cell, kept)
      PROVE  Off(a, b) /\ Off(b, a)
  <2>1. b.role = role /\ In(b, cell)
    BY <1>6 DEF OwnPiece, Piece
  <2>2. CASE a \in kept
    BY <1>6, <2>2 DEF OwnPiece, Off
  <2>3. CASE Off(a, cell)
    <3>1. a.from \in Nat /\ a.until \in Nat /\ b.from \in Nat /\ b.until \in Nat
      BY EditTyped
    <3> QED  BY <1>4, <2>1, <2>3, <3>1 DEF Off, In
  <2> QED  BY <1>6, <2>1, <2>2, <2>3 DEF Uncut
<1>7. ASSUME NEW a \in Edit, NEW b \in Edit, NEW e \in cut,
             PieceOf(a, e, cell), OwnPiece(b, edit, cell, kept)
      PROVE  Off(a, b) /\ Off(b, a)
  <2>1. Off(a, cell) /\ In(b, cell)
    BY <1>7 DEF PieceOf, OwnPiece
  <2>2. a.from \in Nat /\ a.until \in Nat /\ b.from \in Nat /\ b.until \in Nat
    BY EditTyped
  <2> QED  BY <1>4, <2>1, <2>2 DEF Off, In
<1>8. ASSUME OwnPiece(x, edit, cell, kept), OwnPiece(y, edit, cell, kept)
      PROVE  Off(x, y)
  <2>1. PICK f \in SubtractRange(cell, kept) : Piece(x, edit, f)
    BY <1>8 DEF OwnPiece
  <2>2. PICK g \in SubtractRange(cell, kept) : Piece(y, edit, g)
    BY <1>8 DEF OwnPiece
  <2>3. f # g
    BY <1>1, <2>1, <2>2, PiecesEqual
  <2>4. \A b \in kept : b.from \in Nat /\ b.until \in Nat /\ b.from < b.until
    BY <1>2, <1>3
  <2>5. Off(f, g)
    BY <1>4, <2>3, <2>4, FragmentsApart DEF Off
  <2> QED  BY <2>1, <2>2, <2>5 DEF Off, Piece
<1>9. ASSUME NEW e \in cut, PieceOf(x, e, cell), NEW d \in cut, PieceOf(y, d, cell)
      PROVE  Off(x, y)
  <2>1. CASE e = d
    <3>1. PICK f \in SubtractRange(e, {cell}) : Piece(x, e, f)
      BY <1>9 DEF PieceOf
    <3>2. PICK g \in SubtractRange(e, {cell}) : Piece(y, e, g)
      BY <1>9, <2>1 DEF PieceOf
    <3>3. f # g
      BY <1>1, <3>1, <3>2, PiecesEqual
    <3>4. \A b \in {cell} : b.from \in Nat /\ b.until \in Nat /\ b.from < b.until
      BY <1>4
    <3>5. e.from \in Nat /\ e.until \in Nat
      BY <1>2, <1>3
    <3>6. Off(f, g)
      BY <3>3, <3>4, <3>5, FragmentsApart DEF Off
    <3> QED  BY <3>1, <3>2, <3>6 DEF Off, Piece
  <2>2. CASE e # d
    <3>1. e \in edits /\ d \in edits /\ e.role = d.role
      BY <1>2
    <3>2. Off(e, d)
      BY <2>2, <3>1
    <3>3. In(x, e) /\ In(y, d)
      BY <1>9 DEF PieceOf
    <3>4. /\ x.from \in Nat /\ x.until \in Nat /\ y.from \in Nat /\ y.until \in Nat
          /\ e.from \in Nat /\ e.until \in Nat /\ d.from \in Nat /\ d.until \in Nat
      BY <1>1, <1>3, <3>1, EditTyped
    <3> QED  BY <3>2, <3>3, <3>4 DEF Off, In
  <2> QED  BY <2>1, <2>2
<1>10. Uncut(x, edits, role, cell, kept) /\ Uncut(y, edits, role, cell, kept) => Off(x, y)
  BY DEF Uncut
<1> QED  BY <1>1, <1>5, <1>6, <1>7, <1>8, <1>9, <1>10

(* Nothing but the cell's weeks of the role changes.                       *)
LEMMA RecutStaff ==
  ASSUME NEW edits \in SUBSET Edit, NEW role \in Role, NEW cell \in Range,
         NEW kept \in SUBSET Met(edits, role, cell),
         NEW edit \in Edit, edit.role = role,
         NEW cut, cut = Met(edits, role, cell) \ kept,
         NEW was, was.edits = edits,
         NEW is, is.edits = Recut(edits, cut, kept, cell, edit),
         NEW r \in Role, NEW w \in 0 .. LastWeek - 1,
         ~ (r = role /\ cell.from <= w /\ w < cell.until)
  PROVE  Staff(is, r, w) = Staff(was, r, w)
<1>1. w \in Nat /\ cell.from \in Nat /\ cell.until \in Nat
  BY RangeTyped, DrawerAssumption
<1>2. /\ cut \subseteq edits
      /\ \A e \in cut : e \in Edit /\ e.role = role /\ RangesOverlap(e, cell)
                     /\ e.from \in 0 .. LastWeek /\ e.until \in 0 .. LastWeek
                     /\ e.from \in Nat /\ e.until \in Nat
  BY DrawerAssumption DEF Met, Edit
<1>3. ASSUME NEW x \in is.edits, x.role = r, x.from <= w, w < x.until
      PROVE  \E e \in edits : /\ e.role = r /\ e.from <= w /\ w < e.until
                            /\ e.heads = x.heads /\ e.locked = x.locked
  <2> x \in Recut(edits, cut, kept, cell, edit)
    OBVIOUS
  <2>0. /\ x \in Edit
        /\ \/ Uncut(x, edits, role, cell, kept)
           \/ \E e \in cut : PieceOf(x, e, cell)
           \/ OwnPiece(x, edit, cell, kept)
    BY RecutFrom
  <2>1. x \in Edit /\ x.from \in Nat /\ x.until \in Nat
    BY <2>0, EditTyped
  <2>2. \/ x \in edits
        \/ \E e \in cut : /\ x.role = role /\ x.heads = e.heads /\ x.locked = e.locked
                         /\ e.from <= x.from /\ x.until <= e.until
        \/ x.role = role /\ cell.from <= x.from /\ x.until <= cell.until
    BY <1>2, <2>0 DEF Uncut, PieceOf, OwnPiece, Piece, In
  <2>3. CASE x \in edits
    BY <1>3, <2>3
  <2>4. ASSUME NEW e \in cut, x.role = role, x.heads = e.heads, x.locked = e.locked,
               e.from <= x.from, x.until <= e.until
        PROVE  \E d \in edits : /\ d.role = r /\ d.from <= w /\ w < d.until
                              /\ d.heads = x.heads /\ d.locked = x.locked
    <3>1. e \in edits /\ e.role = r /\ e.from <= w /\ w < e.until
      BY <1>1, <1>2, <1>3, <2>1, <2>4
    <3> QED  BY <2>4, <3>1
  <2>5. ~ (x.role = role /\ cell.from <= x.from /\ x.until <= cell.until)
    BY <1>1, <1>3, <2>1
  <2> QED  BY <2>2, <2>3, <2>4, <2>5
<1>4. ASSUME NEW e \in edits, e.role = r, e.from <= w, w < e.until
      PROVE  \E x \in is.edits : /\ x.role = r /\ x.from <= w /\ w < x.until
                               /\ e.heads = x.heads /\ e.locked = x.locked
  <2>1. CASE e \notin cut
    BY <1>4, <2>1 DEF Recut
  <2>2. CASE e \in cut
    <3>1. ~ (cell.from <= w /\ w < cell.until)
      BY <1>2, <1>4, <2>2
    <3>2. PICK f \in SubtractRange(e, {cell}) : f.from <= w /\ w < f.until
      BY <1>1, <1>2, <1>4, <2>2, <3>1, FragmentsCover
    <3>3. SubtractRange(e, {cell}) \subseteq Range
      BY DEF SubtractRange
    <3>4. PICK x \in Within(e, SubtractRange(e, {cell})) :
            Piece(x, e, f)
      BY <1>2, <2>2, <3>3, WithinHas
    <3>5. x \in is.edits
      BY <2>2, <3>4 DEF Recut
    <3> QED  BY <1>4, <3>2, <3>4, <3>5 DEF Piece
  <2> QED  BY <2>1, <2>2
<1>5. Staff(is, r, w) \subseteq Staff(was, r, w)
  BY <1>3, ZenonT(60) DEF Staff
<1>6. Staff(was, r, w) \subseteq Staff(is, r, w)
  BY <1>4 DEF Staff
<1> QED  BY <1>5, <1>6

----------------------------------------------------------------------------
(* What the handlers write has its type.                                   *)

LEMMA Typed ==
  /\ Default \in Settings /\ Reopened \in Draft /\ Apart(Reopened)
  /\ 0 \in 0 .. MaxId /\ 0 \in 0 .. MaxRevision /\ 0 \in Version
<1>1. LastWeek \in Nat /\ 0 < LastWeek /\ 0 \in Floors /\ 1 \in Heads
  BY DrawerAssumption
<1>2. Default \in Settings
  BY <1>1 DEF Default, Settings, Long
<1>3. \A r \in Role : [role |-> r, from |-> 0, until |-> LastWeek, heads |-> 1, locked |-> FALSE] \in Edit
  BY <1>1 DEF Edit
<1>4. Reopened \in Draft
  BY <1>3 DEF Reopened, Draft
<1>5. Apart(Reopened)
  <2>1. \A e \in Reopened.edits :
          e = [role |-> e.role, from |-> 0, until |-> LastWeek, heads |-> 1, locked |-> FALSE]
    BY DEF Reopened
  <2> QED  BY <2>1 DEF Apart
<1> QED  BY <1>2, <1>4, <1>5, DrawerAssumption DEF Version

LEMMA CellsTyped == Cells \subseteq Range
BY DEF Cells

(* The edit that a cell stands for.                                        *)
LEMMA CellEditTyped ==
  ASSUME drawer.draft.edits \subseteq Edit, NEW role \in Role, NEW cell \in Range
  PROVE  CellEdit(role, cell) \in Edit /\ CellEdit(role, cell).role = role
<1>1. CASE Selected(role, cell) # {}
  <2>1. CellEdit(role, cell) \in Selected(role, cell)
    BY <1>1 DEF CellEdit
  <2> QED  BY <2>1 DEF Selected
<1>2. CASE Selected(role, cell) = {}
  <2>1. CellEdit(role, cell) = [role |-> role, from |-> cell.from, until |-> cell.until,
                                heads |-> 1, locked |-> FALSE]
    BY <1>2 DEF CellEdit
  <2>2. CellEdit(role, cell) \in Edit
    BY <2>1, DrawerAssumption DEF Edit, Range
  <2> QED  BY <2>1, <2>2
<1> QED  BY <1>1, <1>2

(* An edit of the draft replaces the placement lock of one item, or the     *)
(* edits by those that the update of one cell leaves.                      *)
OneLock(draft) ==
  /\ draft.edits = drawer.draft.edits
  /\ \E i \in Item : \A j \in Item \ {i} : j \in draft.pins <=> j \in drawer.draft.pins

OneCut(draft, role, cell, kept, edit) ==
  /\ edit.role = role
  /\ draft.edits = Recut(drawer.draft.edits, Met(drawer.draft.edits, role, cell) \ kept,
                         kept, cell, edit)

OneUpdate(draft) ==
  /\ draft.pins = drawer.draft.pins
  /\ \E role \in Role, cell \in Cells :
       \E kept \in SUBSET Met(drawer.draft.edits, role, cell), edit \in Edit :
         OneCut(draft, role, cell, kept, edit)

LEMMA EditsDraft ==
  ASSUME drawer.draft \in Draft, EditDraft
  PROVE  \E draft \in Draft : ReplaceDraft(draft) /\ (OneLock(draft) \/ OneUpdate(draft))
<1> DEFINE edits == drawer.draft.edits
<1>0. edits \in SUBSET Edit /\ drawer.draft.pins \in SUBSET Item
  BY DEF Draft
<1>1. ASSUME NEW role \in Role, NEW cell \in Cells, NEW edit \in Edit, edit.role = role,
             UpdateCapacityEdit(role, cell, edit)
      PROVE  \E draft \in Draft :
           /\ ReplaceDraft(draft)
           /\ draft.pins = drawer.draft.pins
           /\ \E kept \in SUBSET Met(edits, role, cell) :
                draft.edits = Recut(edits, Met(edits, role, cell) \ kept, kept, cell, edit)
  <2> DEFINE met == Met(edits, role, cell)
             kept == {e \in met \ Selected(role, cell) : e.locked}
             new == Recut(edits, met \ kept, kept, cell, edit)
             draft == [drawer.draft EXCEPT !.edits = new]
  <2>1. ReplaceDraft(draft)
    BY <1>1 DEF UpdateCapacityEdit, Recut, Met
  <2>2. draft.edits = new /\ draft.pins = drawer.draft.pins
    BY DEF Draft
  <2>3. kept \in SUBSET met
    OBVIOUS
  <2>4. new \subseteq Edit
    <3> SUFFICES ASSUME NEW x \in new  PROVE x \in Edit
      OBVIOUS
    <3> HIDE DEF kept, edits
    <3>1. cell \in Range
      BY CellsTyped
    <3> QED  BY <1>0, <1>1, <2>3, <3>1, RecutFrom
  <2>5. draft \in Draft
    <3> HIDE DEF new
    <3> QED  BY <1>0, <2>4 DEF Draft
  <2> HIDE DEF draft, kept
  <2> QED  BY <2>1, <2>2, <2>3, <2>5
<1>2. ASSUME NEW i \in Item, TogglePlacementLock(i)
      PROVE  \E draft \in Draft : ReplaceDraft(draft) /\ OneLock(draft)
  <2> DEFINE draft == [drawer.draft EXCEPT !.pins = IF i \in @ THEN @ \ {i} ELSE @ \cup {i}]
  <2>1. ReplaceDraft(draft) /\ draft.edits = edits
    BY <1>2 DEF TogglePlacementLock, Draft
  <2>2. draft \in Draft
    BY <1>0 DEF Draft
  <2>3. draft.pins = IF i \in drawer.draft.pins THEN drawer.draft.pins \ {i}
                                               ELSE drawer.draft.pins \cup {i}
    BY DEF Draft
  <2> HIDE DEF draft
  <2>4. \A j \in Item \ {i} : j \in draft.pins <=> j \in drawer.draft.pins
    BY <2>3
  <2> QED  BY <2>1, <2>2, <2>4 DEF OneLock
<1>3. ASSUME NEW role \in Role, NEW cell \in Cells, NEW heads \in Heads,
             EditHeads(role, cell, heads)
      PROVE  \E edit \in Edit : edit.role = role /\ UpdateCapacityEdit(role, cell, edit)
  <2>1. CellEdit(role, cell) \in Edit /\ CellEdit(role, cell).role = role
    BY <1>0, CellEditTyped, CellsTyped
  <2> DEFINE edit == [CellEdit(role, cell) EXCEPT !.heads = heads]
  <2>2. edit \in Edit /\ edit.role = role
    BY <2>1 DEF Edit
  <2>3. UpdateCapacityEdit(role, cell, edit)
    BY <1>3 DEF EditHeads
  <2> HIDE DEF edit
  <2> QED  BY <2>2, <2>3
<1>4. ASSUME NEW role \in Role, NEW cell \in Cells, ToggleCapacityLock(role, cell)
      PROVE  \E edit \in Edit : edit.role = role /\ UpdateCapacityEdit(role, cell, edit)
  <2>1. CellEdit(role, cell) \in Edit /\ CellEdit(role, cell).role = role
    BY <1>0, CellEditTyped, CellsTyped
  <2> DEFINE edit == [CellEdit(role, cell) EXCEPT !.locked = ~ @]
  <2>2. edit \in Edit /\ edit.role = role
    BY <2>1 DEF Edit
  <2>3. UpdateCapacityEdit(role, cell, edit)
    BY <1>4 DEF ToggleCapacityLock
  <2> HIDE DEF edit
  <2> QED  BY <2>2, <2>3
<1> HIDE DEF edits
<1>5. CASE \E role \in Role, cell \in Cells :
             (\E heads \in Heads : EditHeads(role, cell, heads)) \/ ToggleCapacityLock(role, cell)
  <2>1. PICK role \in Role, cell \in Cells :
             (\E heads \in Heads : EditHeads(role, cell, heads)) \/ ToggleCapacityLock(role, cell)
    BY <1>5
  <2>2. PICK edit \in Edit : edit.role = role /\ UpdateCapacityEdit(role, cell, edit)
    BY <1>3, <1>4, <2>1
  <2>3. PICK draft \in Draft :
           /\ ReplaceDraft(draft)
           /\ draft.pins = drawer.draft.pins
           /\ \E kept \in SUBSET Met(edits, role, cell) :
                draft.edits = Recut(edits, Met(edits, role, cell) \ kept, kept, cell, edit)
    BY <1>1, <2>2
  <2> QED  BY <2>2, <2>3 DEF edits, OneUpdate, OneCut
<1>6. CASE \E i \in Item : TogglePlacementLock(i)
  BY <1>2, <1>6
<1> QED  BY <1>5, <1>6 DEF EditDraft

----------------------------------------------------------------------------
(* Types.                                                                  *)

Pages == [project : Project, open : BOOLEAN, seed : Floors \cup {None}]
Drawers ==
  [settings : Settings, draft : Draft \cup {None},
   result : Result \cup {None}, proposal : Result \cup {None},
   revision : 0 .. MaxRevision, validated : 0 .. MaxRevision,
   lastId : 0 .. MaxId, active : 0 .. MaxId, pending : 0 .. MaxId,
   rejected : BOOLEAN, error : BOOLEAN, done : BOOLEAN]
Requests ==
  [id : 0 .. MaxId, revision : 0 .. MaxRevision, project : Project,
   settings : Settings, draft : Draft \cup {None}]
Applications ==
  [project : Project, plan : Result, outcome : {"sent", "applied", "refused"}] \cup {None}

LEMMA TypeOKIs ==
  TypeOK <=>
  /\ page \in Pages /\ drawer \in Drawers /\ sent \subseteq Requests
  /\ applying \in Applications
  /\ stored \in [Project -> Settings \cup {None}] /\ version \in [Project -> Version]
BY DEF TypeOK, Pages, Drawers, Requests, Applications

LEMMA TypeOKNext ==
  TypeOK' <=>
  /\ page' \in Pages /\ drawer' \in Drawers /\ sent' \subseteq Requests
  /\ applying' \in Applications
  /\ stored' \in [Project -> Settings \cup {None}] /\ version' \in [Project -> Version]
BY DEF TypeOK, Pages, Drawers, Requests, Applications

LEMMA BlankTyped == Blank \in Drawers
BY Typed DEF Blank, Drawers

LEMMA TypeInit == Init => TypeOK
<1> SUFFICES ASSUME Init PROVE TypeOK
  OBVIOUS
<1>1. page \in Pages
  BY DEF Init, Pages
<1>2. version \in [Project -> Version]
  BY Typed DEF Init
<1>3. stored \in [Project -> Settings \cup {None}]
  BY DEF Init
<1> QED  BY <1>1, <1>2, <1>3, BlankTyped, TypeOKIs DEF Init, Applications

LEMMA SavedTyped ==
  ASSUME TypeOK, NEW p \in Project, NEW s \in Settings
  PROVE  Saved(p, s) \in [Project -> Settings \cup {None}]
BY DEF TypeOK, Saved

LEMMA RestoredTyped ==
  ASSUME drawer \in Drawers, NEW saved \in Settings \cup {None}, NEW seed \in Floors \cup {None},
         RestoreSettings(saved, seed)
  PROVE  /\ drawer' \in Drawers
         /\ drawer'.draft = None /\ drawer'.result = None
         /\ drawer'.revision = 0 /\ drawer'.validated = 0
         /\ drawer'.lastId = drawer.lastId + 1 /\ drawer'.active = drawer.lastId + 1
<1> DEFINE s == IF saved = None THEN Default ELSE saved
           t == IF seed = None THEN s ELSE [s EXCEPT !.floor = seed]
<1>1. s \in Settings
  BY Typed
<1>2. t \in Settings
  BY <1>1 DEF Settings
<1>3. drawer.lastId + 1 \in 0 .. MaxId
  BY DrawerAssumption DEF RestoreSettings, Drawers
<1>4. drawer' = [Blank EXCEPT !.settings = t, !.lastId = drawer.lastId + 1,
                              !.active = drawer.lastId + 1]
  BY DEF RestoreSettings
<1> HIDE DEF t
<1> QED  BY <1>2, <1>3, <1>4, BlankTyped, Typed DEF Blank, Drawers

LEMMA MarkedTyped ==
  ASSUME NEW d \in Drawers, d.revision = drawer.revision, MarkChanged(d)
  PROVE  /\ drawer' \in Drawers
         /\ drawer'.revision = drawer.revision + 1
         /\ drawer'.settings = d.settings /\ drawer'.draft = d.draft
         /\ drawer'.result = d.result /\ drawer'.validated = d.validated
         /\ drawer'.lastId = d.lastId /\ drawer'.active = d.active
<1>1. d.revision + 1 \in 0 .. MaxRevision
  BY DrawerAssumption DEF MarkChanged, Drawers
<1>2. drawer' = [d EXCEPT !.revision = d.revision + 1, !.error = FALSE]
  BY DEF MarkChanged
<1> QED  BY <1>1, <1>2 DEF Drawers

LEMMA GeneratedTyped ==
  ASSUME TypeOK, NEW q \in Requests, NEW reconciled \in BOOLEAN
  PROVE  /\ Generated(q, reconciled) \in Result
         /\ Generated(q, reconciled).draft \in Draft
         /\ Generated(q, reconciled).project = q.project
         /\ Generated(q, reconciled).settings = q.settings
         /\ Generated(q, reconciled).draft = IF q.draft = None THEN Reopened ELSE q.draft
<1>1. q.project \in Project /\ q.settings \in Settings /\ q.draft \in Draft \cup {None}
  BY DEF Requests
<1>2. version[q.project] \in Version
  BY <1>1 DEF TypeOK
<1>3. Periods(q.settings) \subseteq Range
  BY DEF Periods
<1> QED  BY <1>1, <1>2, <1>3, Typed DEF Generated, Result

----------------------------------------------------------------------------
(* Three kinds of steps that keep what is shown.                           *)

(* The drawer keeps its settings, draft and result, and requests, if        *)
(* anything, end; the page stays as it is, or is closed.                   *)
LEMMA NothingShown ==
  ASSUME IInv, sent' \subseteq sent, drawer' \in Drawers,
         drawer'.settings = drawer.settings, drawer'.draft = drawer.draft,
         drawer'.result = drawer.result, drawer'.revision = drawer.revision,
         drawer'.validated = drawer.validated, drawer'.lastId = drawer.lastId,
         drawer'.active = drawer.active,
         page' = page \/ ~ page'.open
  PROVE  Shown'
<1> USE DEF IInv, Shown
<1>1. DraftsApart'
  BY DEF DraftsApart
<1>2. IdsDiffer'
  BY DEF IdsDiffer
<1>3. AsksWhatIsShown'
  BY DEF AsksWhatIsShown
<1>4. ResultIsShown'
  BY DEF ResultIsShown, ResultIsStale
<1>5. ResultHasDraft'
  BY DEF ResultHasDraft
<1> QED  BY <1>1, <1>2, <1>3, <1>4, <1>5

(* Draft and result are gone and requests on their way disowned.           *)
LEMMA AllDisowned ==
  ASSUME IInv, sent' = sent, drawer' \in Drawers,
         drawer'.draft = None, drawer'.result = None,
         drawer'.revision = 0, drawer'.validated = 0,
         drawer'.lastId = drawer.lastId + 1, drawer'.active = drawer.lastId + 1
  PROVE  Shown'
<1> USE DEF IInv, Shown
<1>0. /\ drawer.lastId \in Nat
      /\ \A q \in sent : q.id \in Nat /\ q.id <= drawer.lastId
  BY DrawerAssumption, TypeOKIs DEF Drawers, Requests, IdsDiffer
<1>1. DraftsApart'
  BY DEF DraftsApart
<1>2. IdsDiffer'
  BY <1>0 DEF IdsDiffer
<1>3. AsksWhatIsShown'
  BY <1>0 DEF AsksWhatIsShown
<1>4. ResultIsShown'
  BY DEF ResultIsShown
<1>5. ResultHasDraft'
  BY DEF ResultHasDraft
<1> QED  BY <1>1, <1>2, <1>3, <1>4, <1>5

(* The user changes something: what was sent and answered before is stale. *)
LEMMA AllStale ==
  ASSUME IInv, sent' = sent, page' = page, drawer' \in Drawers,
         drawer'.revision = drawer.revision + 1, drawer'.validated = drawer.validated,
         drawer'.result = drawer.result,
         drawer'.draft # None => Apart(drawer'.draft),
         drawer.draft # None => drawer'.draft # None,
         \/ drawer'.lastId = drawer.lastId /\ drawer'.active = drawer.active
         \/ drawer'.lastId = drawer.lastId + 1 /\ drawer'.active = drawer.lastId + 1
  PROVE  Shown'
<1> USE DEF IInv, Shown
<1>0. /\ drawer.lastId \in Nat /\ drawer.active \in Nat /\ drawer.revision \in Nat
      /\ drawer.validated \in Nat
      /\ \A q \in sent : /\ q.id \in Nat /\ q.id <= drawer.lastId
                      /\ q.revision \in Nat
  BY DrawerAssumption, TypeOKIs DEF Drawers, Requests, IdsDiffer
<1>1. DraftsApart'
  BY DEF DraftsApart
<1>2. IdsDiffer'
  BY <1>0 DEF IdsDiffer
<1>3. AsksWhatIsShown'
  BY <1>0 DEF AsksWhatIsShown
<1>4. ResultIsShown'
  BY <1>0 DEF ResultIsShown, ResultIsStale
<1>5. ResultHasDraft'
  BY DEF ResultHasDraft
<1> QED  BY <1>1, <1>2, <1>3, <1>4, <1>5

(* Replacing the draft, by one whose edits keep apart.                     *)
LEMMA DraftReplaced ==
  ASSUME IInv, NEW draft \in Draft, Apart(draft), ReplaceDraft(draft)
  PROVE  IInv' /\ drawer'.draft = draft /\ drawer'.revision = drawer.revision + 1
<1> DEFINE d == [drawer EXCEPT !.draft = draft]
<1>1. drawer \in Drawers
  BY TypeOKIs DEF IInv
<1>2. /\ d \in Drawers /\ d.draft = draft /\ d.settings = drawer.settings
      /\ d.result = drawer.result /\ d.validated = drawer.validated
      /\ d.revision = drawer.revision /\ d.lastId = drawer.lastId /\ d.active = drawer.active
  BY <1>1 DEF Drawers
<1>3. MarkChanged(d) /\ UNCHANGED <<page, sent, applying, stored, version>>
  BY DEF ReplaceDraft
<1> HIDE DEF d
<1>4. /\ drawer' \in Drawers /\ drawer'.revision = drawer.revision + 1
      /\ drawer'.settings = d.settings /\ drawer'.draft = d.draft
      /\ drawer'.result = d.result /\ drawer'.validated = d.validated
      /\ drawer'.lastId = d.lastId /\ drawer'.active = d.active
  BY <1>2, <1>3, MarkedTyped
<1>5. TypeOK'
  BY <1>3, <1>4, TypeOKIs, TypeOKNext DEF IInv
<1>6. draft # None
  BY NoneAssumption
<1>7. Shown'
  BY <1>2, <1>3, <1>4, <1>6, AllStale
<1> QED  BY <1>2, <1>4, <1>5, <1>7 DEF IInv

----------------------------------------------------------------------------
(* The inductive invariant.                                                *)

LEMMA InvInit == Init => IInv
<1> SUFFICES ASSUME Init PROVE IInv
  OBVIOUS
<1>1. TypeOK
  BY TypeInit
<1>2. /\ drawer.draft = None /\ drawer.result = None /\ sent = {}
      /\ drawer.validated = 0 /\ drawer.revision = 0 /\ drawer.active = 0 /\ drawer.lastId = 0
  BY DEF Init, Blank
<1> QED  BY <1>1, <1>2 DEF IInv, Shown, DraftsApart, IdsDiffer, AsksWhatIsShown, ResultIsShown, ResultHasDraft

LEMMA OpensStep ==
  ASSUME IInv, NEW p \in Project, NEW seed \in Floors \cup {None}, Opens(p, seed)
  PROVE  IInv' /\ drawer'.draft = None
<1>1. drawer \in Drawers /\ drawer.settings \in Settings /\ TypeOK
  BY TypeOKIs DEF IInv, Drawers
<1>2. page' \in Pages
  BY DEF Opens, Pages
<1>3. stored' \in [Project -> Settings \cup {None}]
  BY <1>1, SavedTyped DEF Opens
<1>4. stored'[p] \in Settings \cup {None} /\ RestoreSettings(stored'[p], seed)
  BY <1>3 DEF Opens
<1>5. /\ drawer' \in Drawers
      /\ drawer'.draft = None /\ drawer'.result = None
      /\ drawer'.revision = 0 /\ drawer'.validated = 0
      /\ drawer'.lastId = drawer.lastId + 1 /\ drawer'.active = drawer.lastId + 1
  BY <1>1, <1>4, RestoredTyped
<1>6. UNCHANGED <<sent, applying, version>>
  BY DEF Opens
<1>7. TypeOK'
  BY <1>1, <1>2, <1>3, <1>5, <1>6, TypeOKIs, TypeOKNext
<1>8. Shown'
  BY <1>5, <1>6, AllDisowned
<1> QED  BY <1>5, <1>7, <1>8 DEF IInv

LEMMA PageStep ==
  ASSUME IInv, Open \/ Close \/ Reload \/ RolesChange \/ (\E p \in Project : Navigate(p))
  PROVE  IInv' /\ (drawer'.draft = drawer.draft \/ drawer'.draft = None)
<1> USE DEF IInv
<1>0. /\ page \in Pages /\ page.project \in Project /\ page.seed \in Floors \cup {None}
      /\ drawer \in Drawers /\ TypeOK
  BY TypeOKIs DEF Pages
<1>1. CASE Open
  BY <1>0, <1>1, OpensStep DEF Open
<1>2. CASE Close
  <2>1. page' \in Pages /\ ~ page'.open
    BY <1>0, <1>2 DEF Close, Pages
  <2>2. UNCHANGED <<drawer, sent, applying, stored, version>>
    BY <1>2 DEF Close
  <2>3. TypeOK'
    BY <2>1, <2>2, TypeOKIs, TypeOKNext
  <2> QED  BY <1>0, <2>1, <2>2, <2>3, NothingShown
<1>3. CASE Reload
  <2>1. page' \in Pages
    BY <1>0, <1>3 DEF Reload, Pages
  <2>2. drawer' = Blank /\ sent' = {} /\ applying' = None /\ UNCHANGED <<stored, version>>
    BY <1>3 DEF Reload
  <2>3. TypeOK'
    BY <2>1, <2>2, BlankTyped, TypeOKIs, TypeOKNext DEF Applications
  <2>4. /\ drawer'.draft = None /\ drawer'.result = None
        /\ drawer'.validated = 0 /\ drawer'.revision = 0 /\ drawer'.active = 0 /\ drawer'.lastId = 0
    BY <2>2 DEF Blank
  <2>5. Shown'
    BY <2>2, <2>4 DEF Shown, DraftsApart, IdsDiffer, AsksWhatIsShown, ResultIsShown, ResultHasDraft
  <2> QED  BY <2>3, <2>4, <2>5
<1>4. CASE RolesChange
  <2>1. /\ drawer' \in Drawers
        /\ drawer'.draft = None /\ drawer'.result = None
        /\ drawer'.revision = 0 /\ drawer'.validated = 0
        /\ drawer'.lastId = drawer.lastId + 1 /\ drawer'.active = drawer.lastId + 1
    <3>1. stored[page.project] \in Settings \cup {None}
      BY <1>0, TypeOKIs
    <3> QED  BY <1>0, <1>4, <3>1, RestoredTyped DEF RolesChange
  <2>2. UNCHANGED <<page, sent, applying, stored, version>>
    BY <1>4 DEF RolesChange
  <2>3. TypeOK'
    BY <2>1, <2>2, TypeOKIs, TypeOKNext
  <2> QED  BY <2>1, <2>2, <2>3, AllDisowned
<1>5. ASSUME NEW p \in Project, Navigate(p)
      PROVE  IInv' /\ (drawer'.draft = drawer.draft \/ drawer'.draft = None)
  <2>1. CASE page.open
    BY <1>0, <1>5, <2>1, OpensStep DEF Navigate
  <2>2. CASE ~ page.open
    <3>1. page' = [page EXCEPT !.project = p] /\ UNCHANGED <<drawer, sent, applying, stored, version>>
      BY <1>5, <2>2 DEF Navigate
    <3>2. page' \in Pages /\ ~ page'.open
      BY <1>0, <2>2, <3>1 DEF Pages
    <3>3. TypeOK'
      BY <3>1, <3>2, TypeOKIs, TypeOKNext
    <3> QED  BY <1>0, <3>1, <3>2, <3>3, NothingShown
  <2> QED  BY <2>1, <2>2
<1> QED  BY <1>1, <1>2, <1>3, <1>4, <1>5

LEMMA SettingsStep ==
  ASSUME IInv, (\E s \in Settings : ChangeSettings(s)) \/ ResetToDefaults
  PROVE  IInv' /\ drawer'.draft = drawer.draft
<1> USE DEF IInv
<1>0. page \in Pages /\ page.project \in Project /\ drawer \in Drawers /\ TypeOK
  BY TypeOKIs DEF Pages
<1>1. ASSUME NEW d \in Drawers, NEW s \in Settings,
             d.draft = drawer.draft, d.result = drawer.result,
             d.validated = drawer.validated, d.revision = drawer.revision,
             \/ d.lastId = drawer.lastId /\ d.active = drawer.active
             \/ d.lastId = drawer.lastId + 1 /\ d.active = drawer.lastId + 1,
             MarkChanged(d), stored' = Saved(page.project, s),
             UNCHANGED <<page, sent, applying, version>>
      PROVE  IInv' /\ drawer'.draft = drawer.draft
  <2>1. /\ drawer' \in Drawers /\ drawer'.revision = drawer.revision + 1
        /\ drawer'.settings = d.settings /\ drawer'.draft = d.draft
        /\ drawer'.result = d.result /\ drawer'.validated = d.validated
        /\ drawer'.lastId = d.lastId /\ drawer'.active = d.active
    BY <1>1, MarkedTyped
  <2>2. stored' \in [Project -> Settings \cup {None}]
    BY <1>0, <1>1, SavedTyped
  <2>3. TypeOK'
    BY <1>1, <2>1, <2>2, TypeOKIs, TypeOKNext
  <2>4. drawer.draft # None => Apart(drawer.draft)
    BY DEF Shown, DraftsApart
  <2>5. Shown'
    BY <1>1, <2>1, <2>4, AllStale
  <2> QED  BY <1>1, <2>1, <2>3, <2>5
<1>2. ASSUME NEW s \in Settings, ChangeSettings(s)
      PROVE  IInv' /\ drawer'.draft = drawer.draft
  <2> DEFINE d == [drawer EXCEPT !.settings = s]
  <2>1. /\ d \in Drawers /\ d.draft = drawer.draft /\ d.result = drawer.result
        /\ d.validated = drawer.validated /\ d.revision = drawer.revision
        /\ d.lastId = drawer.lastId /\ d.active = drawer.active
    BY <1>0 DEF Drawers
  <2>2. /\ MarkChanged(d) /\ stored' = Saved(page.project, s)
        /\ UNCHANGED <<page, sent, applying, version>>
    BY <1>2 DEF ChangeSettings
  <2> HIDE DEF d
  <2> QED  BY <1>1, <2>1, <2>2
<1>3. CASE ResetToDefaults
  <2> DEFINE d == [drawer EXCEPT !.settings = Default, !.pending = 0,
                    !.lastId = drawer.lastId + 1, !.active = drawer.lastId + 1]
  <2>1. drawer.lastId + 1 \in 0 .. MaxId
    BY <1>0, <1>3, DrawerAssumption DEF ResetToDefaults, Drawers
  <2>2. /\ d \in Drawers /\ d.draft = drawer.draft /\ d.result = drawer.result
        /\ d.validated = drawer.validated /\ d.revision = drawer.revision
        /\ d.lastId = drawer.lastId + 1 /\ d.active = drawer.lastId + 1
    BY <1>0, <2>1, Typed DEF Drawers
  <2>3. /\ MarkChanged(d) /\ stored' = Saved(page.project, Default)
        /\ UNCHANGED <<page, sent, applying, version>>
    BY <1>0, <1>3 DEF ResetToDefaults, Drawers
  <2> HIDE DEF d
  <2> QED  BY <1>1, <2>2, <2>3, Typed
<1> QED  BY <1>2, <1>3

LEMMA EditStep ==
  ASSUME IInv, EditDraft
  PROVE  IInv'
<1>1. /\ drawer.draft # None /\ drawer.draft \in Draft /\ drawer.draft.edits \in SUBSET Edit
      /\ Apart(drawer.draft)
  <2>1. drawer.draft # None
    BY DEF IInv, Shown, ResultHasDraft, EditDraft
  <2>2. drawer.draft \in Draft
    BY <2>1, TypeOKIs DEF IInv, Drawers
  <2> QED  BY <2>1, <2>2 DEF IInv, Shown, DraftsApart, Draft
<1>2. PICK draft \in Draft : ReplaceDraft(draft) /\ (OneLock(draft) \/ OneUpdate(draft))
  BY <1>1, EditsDraft
<1>3. Apart(draft)
  <2>1. CASE OneLock(draft)
    BY <1>1, <2>1 DEF Apart, OneLock
  <2>2. ASSUME NEW role \in Role, NEW cell \in Cells,
               NEW kept \in SUBSET Met(drawer.draft.edits, role, cell),
               NEW edit \in Edit, OneCut(draft, role, cell, kept, edit)
        PROVE  Apart(draft)
    <3>1. \A e, f \in drawer.draft.edits : e.role = f.role /\ e # f => Off(e, f)
      BY <1>1 DEF Apart, Off
    <3>2. cell \in Range
      BY CellsTyped
    <3>3. \A e, f \in draft.edits : e.role = f.role /\ e # f => Off(e, f)
      BY <1>1, <2>2, <3>1, <3>2, RecutApart DEF OneCut
    <3> QED  BY <3>3 DEF Apart, Off
  <2> QED  BY <1>2, <2>1, <2>2 DEF OneUpdate
<1> QED  BY <1>2, <1>3, DraftReplaced

LEMMA RunStep ==
  ASSUME IInv, RunGenerate
  PROVE  IInv' /\ drawer'.draft = drawer.draft
<1> USE DEF IInv
<1>0. page \in Pages /\ page.project \in Project /\ drawer \in Drawers /\ sent \subseteq Requests
  BY TypeOKIs DEF Pages
<1> DEFINE id == drawer.lastId + 1
           q == [id |-> id, revision |-> drawer.revision, project |-> page.project,
                 settings |-> drawer.settings, draft |-> drawer.draft]
<1>1. id \in 0 .. MaxId
  BY <1>0, DrawerAssumption DEF RunGenerate, Drawers
<1>2. drawer' = [drawer EXCEPT !.lastId = id, !.active = id, !.pending = id, !.error = FALSE]
      /\ sent' = sent \cup {q} /\ UNCHANGED <<page, applying, stored, version>>
  BY DEF RunGenerate
<1>3. q \in Requests
  BY <1>0, <1>1 DEF Requests, Drawers
<1>4. q.id = id /\ q.revision = drawer.revision /\ q.project = page.project
      /\ q.settings = drawer.settings /\ q.draft = drawer.draft
  OBVIOUS
<1> HIDE DEF q
<1>5. /\ drawer' \in Drawers
      /\ drawer'.settings = drawer.settings /\ drawer'.draft = drawer.draft
      /\ drawer'.result = drawer.result /\ drawer'.revision = drawer.revision
      /\ drawer'.validated = drawer.validated /\ drawer'.lastId = id /\ drawer'.active = id
  BY <1>0, <1>1, <1>2 DEF Drawers
<1>6. /\ drawer.lastId \in Nat /\ drawer.revision \in Nat
      /\ \A p \in sent : p.id \in Nat /\ p.id <= drawer.lastId
  BY <1>0, DrawerAssumption DEF Drawers, Requests, Shown, IdsDiffer
<1>7. TypeOK'
  BY <1>0, <1>2, <1>3, <1>5, TypeOKIs, TypeOKNext
<1>8. DraftsApart'
  BY <1>2, <1>4, <1>5 DEF Shown, DraftsApart
<1>9. IdsDiffer'
  BY <1>2, <1>4, <1>5, <1>6 DEF Shown, IdsDiffer
<1>10. AsksWhatIsShown'
  BY <1>2, <1>4, <1>5, <1>6 DEF Shown, AsksWhatIsShown
<1>11. ResultIsShown'
  BY <1>2, <1>5 DEF Shown, ResultIsShown, ResultIsStale
<1>12. ResultHasDraft'
  BY <1>5 DEF Shown, ResultHasDraft
<1> QED  BY <1>5, <1>7, <1>8, <1>9, <1>10, <1>11, <1>12 DEF Shown

(* An answer that counts shows the draft it was asked with; the others     *)
(* show nothing.                                                           *)
LEMMA AnswerStep ==
  ASSUME IInv, NEW q \in sent, GenerateAnswered(q) \/ GenerateFailed(q)
  PROVE  IInv' /\ (drawer.draft # None => drawer'.draft = drawer.draft)
<1> USE DEF IInv
<1>0. drawer \in Drawers /\ sent \subseteq Requests /\ q \in Requests /\ TypeOK
  BY TypeOKIs
<1>1. sent' = sent \ {q} /\ UNCHANGED <<page, applying, stored, version>>
  BY DEF GenerateAnswered, GenerateFailed
<1>2. Waiting(q) \in 0 .. MaxId
  BY <1>0, Typed DEF Waiting, Drawers
<1>3. ASSUME NEW error \in BOOLEAN,
             drawer' = [drawer EXCEPT !.pending = Waiting(q), !.error = error]
      PROVE  IInv' /\ drawer'.draft = drawer.draft
  <2>1. /\ drawer' \in Drawers
        /\ drawer'.settings = drawer.settings /\ drawer'.draft = drawer.draft
        /\ drawer'.result = drawer.result /\ drawer'.revision = drawer.revision
        /\ drawer'.validated = drawer.validated /\ drawer'.lastId = drawer.lastId
        /\ drawer'.active = drawer.active
    BY <1>0, <1>2, <1>3 DEF Drawers
  <2>2. TypeOK'
    BY <1>0, <1>1, <2>1, TypeOKIs, TypeOKNext
  <2>3. Shown'
    BY <1>1, <2>1, NothingShown
  <2> QED  BY <2>1, <2>2, <2>3
<1>4. CASE GenerateFailed(q)
  <2>1. drawer' = [drawer EXCEPT !.pending = Waiting(q), !.error = drawer.error \/ Fresh(q)]
    BY <1>0, <1>4 DEF GenerateFailed, Drawers
  <2>2. (drawer.error \/ Fresh(q)) \in BOOLEAN
    OBVIOUS
  <2> QED  BY <1>3, <2>1, <2>2
<1>5. CASE GenerateAnswered(q) /\ ~ Fresh(q)
  <2>1. drawer' = [drawer EXCEPT !.pending = Waiting(q)]
    BY <1>5 DEF GenerateAnswered
  <2>2. drawer' = [drawer EXCEPT !.pending = Waiting(q), !.error = drawer.error]
    BY <1>0, <2>1 DEF Drawers
  <2>3. drawer.error \in BOOLEAN
    BY <1>0 DEF Drawers
  <2> QED  BY <1>3, <2>2, <2>3
<1>6. CASE GenerateAnswered(q) /\ Fresh(q)
  <2>1. PICK reconciled \in BOOLEAN :
          drawer' = [drawer EXCEPT !.pending = Waiting(q), !.draft = Generated(q, reconciled).draft,
                       !.result = Generated(q, reconciled),
                       !.proposal = IF @ = None THEN Generated(q, reconciled) ELSE @,
                       !.validated = q.revision, !.rejected = FALSE, !.error = FALSE]
    BY <1>6 DEF GenerateAnswered
  <2> DEFINE r == Generated(q, reconciled)
  <2>2. /\ r \in Result /\ r.draft \in Draft
        /\ r.project = q.project /\ r.settings = q.settings
        /\ r.draft = IF q.draft = None THEN Reopened ELSE q.draft
    BY <1>0, GeneratedTyped
  <2> HIDE DEF r
  <2>3. drawer' = [drawer EXCEPT !.pending = Waiting(q), !.draft = r.draft, !.result = r,
                     !.proposal = IF drawer.proposal = None THEN r ELSE drawer.proposal,
                     !.validated = q.revision, !.rejected = FALSE, !.error = FALSE]
    BY <1>0, <2>1 DEF r, Drawers
  <2>4. q.revision \in 0 .. MaxRevision /\ q.id = drawer.active /\ q.revision = drawer.revision
    BY <1>0, <1>6 DEF Requests, Fresh
  <2>5. /\ drawer' \in Drawers
        /\ drawer'.settings = drawer.settings /\ drawer'.draft = r.draft
        /\ drawer'.result = r /\ drawer'.revision = drawer.revision
        /\ drawer'.validated = q.revision /\ drawer'.lastId = drawer.lastId
        /\ drawer'.active = drawer.active
    BY <1>0, <1>2, <2>2, <2>3, <2>4 DEF Drawers
  <2>6. /\ q.settings = drawer.settings /\ q.draft = drawer.draft
        /\ page.open => q.project = page.project
    BY <2>4 DEF Shown, AsksWhatIsShown
  <2>7. r.draft # None /\ Apart(r.draft)
    BY <2>2, Typed, NoneAssumption DEF Shown, DraftsApart
  <2>8. TypeOK'
    BY <1>0, <1>1, <2>5, TypeOKIs, TypeOKNext
  <2>9. DraftsApart'
    BY <1>1, <2>5, <2>7 DEF Shown, DraftsApart
  <2>10. IdsDiffer'
    BY <1>1, <2>5 DEF Shown, IdsDiffer
  <2>11. AsksWhatIsShown'
    <3>1. \A p \in sent' : p.id # drawer'.active
      BY <1>1, <2>4, <2>5 DEF Shown, IdsDiffer
    <3> QED  BY <3>1 DEF AsksWhatIsShown
  <2>12. ResultIsShown'
    <3>1. q.revision <= drawer.revision
      BY <2>4, DrawerAssumption
    <3> QED  BY <1>1, <2>2, <2>5, <2>6, <3>1 DEF ResultIsShown, ResultIsStale
  <2>13. ResultHasDraft'
    BY <2>5, <2>7 DEF ResultHasDraft
  <2> QED  BY <2>2, <2>5, <2>6, <2>8, <2>9, <2>10, <2>11, <2>12, <2>13 DEF Shown
<1> QED  BY <1>3, <1>4, <1>5, <1>6

LEMMA ApplyStep ==
  ASSUME IInv, \/ Apply \/ ServeApply \/ ApplyAnswered \/ ApplyLost
               \/ \E p \in Project : OtherChange(p)
  PROVE  IInv' /\ drawer'.draft = drawer.draft
<1> USE DEF IInv
<1>0. /\ page \in Pages /\ page.project \in Project /\ drawer \in Drawers
      /\ applying \in Applications /\ version \in [Project -> Version] /\ TypeOK
  BY TypeOKIs DEF Pages
<1>1. UNCHANGED <<sent, stored>>
  BY DEF Apply, ServeApply, ApplyAnswered, ApplyLost, OtherChange
<1>2. page' \in Pages /\ (page' = page \/ ~ page'.open)
  BY <1>0 DEF Apply, ServeApply, ApplyAnswered, ApplyLost, OtherChange, Pages
<1>3. /\ drawer' \in Drawers
      /\ drawer'.settings = drawer.settings /\ drawer'.draft = drawer.draft
      /\ drawer'.result = drawer.result /\ drawer'.revision = drawer.revision
      /\ drawer'.validated = drawer.validated /\ drawer'.lastId = drawer.lastId
      /\ drawer'.active = drawer.active
  <2>1. CASE ApplyAnswered
    BY <1>0, <2>1, ZenonT(60) DEF ApplyAnswered, Drawers
  <2>2. CASE ApplyLost
    BY <1>0, <2>2 DEF ApplyLost, Drawers
  <2>3. CASE Apply \/ ServeApply \/ \E p \in Project : OtherChange(p)
    BY <1>0, <2>3 DEF Apply, ServeApply, OtherChange
  <2> QED  BY <2>1, <2>2, <2>3
<1>4. applying' \in Applications
  <2>1. CASE Apply
    <3>1. drawer.result \in Result
      BY <1>0, <2>1 DEF Apply, CanApply, Drawers
    <3> QED  BY <1>0, <2>1, <3>1 DEF Apply, Applications
  <2>2. CASE ServeApply
    BY <1>0, <2>2 DEF ServeApply, Applications
  <2>3. CASE ApplyAnswered \/ ApplyLost
    BY <2>3 DEF ApplyAnswered, ApplyLost, Applications
  <2>4. CASE \E p \in Project : OtherChange(p)
    BY <1>0, <2>4 DEF OtherChange
  <2> QED  BY <2>1, <2>2, <2>3, <2>4
<1>5. version' \in [Project -> Version]
  <2>1. CASE ServeApply
    <3>1. applying.project \in Project
      BY <1>0, <2>1 DEF ServeApply, Applications
    <3>2. version[applying.project] < MaxVersion => version[applying.project] + 1 \in Version
      BY <1>0, <3>1, DrawerAssumption DEF Version
    <3> QED  BY <1>0, <2>1, <3>1, <3>2 DEF ServeApply
  <2>2. ASSUME NEW p \in Project, OtherChange(p)
        PROVE  version' \in [Project -> Version]
    <3>1. version[p] + 1 \in Version
      BY <1>0, <2>2, DrawerAssumption DEF Version, OtherChange
    <3> QED  BY <1>0, <2>2, <3>1 DEF OtherChange
  <2>3. CASE Apply \/ ApplyAnswered \/ ApplyLost
    BY <1>0, <2>3 DEF Apply, ApplyAnswered, ApplyLost
  <2> QED  BY <2>1, <2>2, <2>3
<1>6. TypeOK'
  BY <1>0, <1>1, <1>2, <1>3, <1>4, <1>5, TypeOKIs, TypeOKNext
<1>7. Shown'
  BY <1>1, <1>2, <1>3, NothingShown
<1> QED  BY <1>3, <1>6, <1>7

(* Every step preserves the invariant and, but for an edit, keeps a draft.  *)
LEMMA InvStep ==
  ASSUME IInv, [Next]_vars
  PROVE  /\ IInv'
         /\ drawer'.draft = drawer.draft \/ drawer.draft = None \/ drawer'.draft = None \/ EditDraft
<1>1. CASE UNCHANGED vars
  <2>1. IInv'
    BY <1>1 DEF vars, IInv, TypeOK, Shown, DraftsApart, IdsDiffer, AsksWhatIsShown,
                ResultIsShown, ResultIsStale, ResultHasDraft
  <2> QED  BY <1>1, <2>1 DEF vars
<1>2. CASE Open \/ Close \/ Reload \/ RolesChange \/ \E p \in Project : Navigate(p)
  BY <1>2, PageStep
<1>3. CASE (\E s \in Settings : ChangeSettings(s)) \/ ResetToDefaults
  BY <1>3, SettingsStep
<1>4. CASE EditDraft
  BY <1>4, EditStep
<1>5. CASE RunGenerate
  BY <1>5, RunStep
<1>6. CASE \E q \in sent : GenerateAnswered(q) \/ GenerateFailed(q)
  BY <1>6, AnswerStep
<1>7. CASE \/ Apply \/ ServeApply \/ ApplyAnswered \/ ApplyLost
           \/ \E p \in Project : OtherChange(p)
  BY <1>7, ApplyStep
<1> QED  BY <1>1, <1>2, <1>3, <1>4, <1>5, <1>6, <1>7 DEF Next, Answers

(* The invariant holds always.                                             *)
THEOREM DrawerInvariant == Spec => []IInv
<1>1. IInv /\ [Next]_vars => IInv'
  BY InvStep
<1> QED  BY InvInit, <1>1, PTL DEF Spec

----------------------------------------------------------------------------
(* The properties.                                                         *)

(* The draft says one thing of a role and week (updateCapacityEdit).       *)
THEOREM DraftStaysSound == Spec => []DraftSound
<1>1. IInv => DraftSound
  BY DEF IInv, Shown, DraftsApart, Apart, DraftSound
<1> QED  BY <1>1, DrawerInvariant, PTL

(* What is sent to be applied is what is on the screen (handleApply).      *)
THEOREM AppliedAsShown == Spec => AppliesWhatIsShown
<1>1. ASSUME IInv, [Next]_vars, applying = None, applying' # None
      PROVE  LET plan == applying'.plan
             IN  /\ plan.project = page.project /\ applying'.project = page.project
                 /\ plan.settings = drawer.settings
                 /\ plan.draft = drawer.draft
  <2>1. Apply
    BY <1>1 DEF Next, vars, Open, Opens, Close, Reload, RolesChange, Navigate, OtherChange,
                ChangeSettings, ResetToDefaults, EditDraft, EditHeads, ToggleCapacityLock,
                UpdateCapacityEdit, TogglePlacementLock, ReplaceDraft, RunGenerate, ServeApply,
                Answers, GenerateAnswered, GenerateFailed, ApplyAnswered, ApplyLost
  <2>2. /\ applying'.project = page.project /\ applying'.plan = drawer.result
        /\ page.open /\ drawer.result # None /\ ~ ResultIsStale
    BY <2>1 DEF Apply, CanApply, Visible
  <2> QED  BY <1>1, <2>2 DEF IInv, Shown, ResultIsShown
<1> QED  BY <1>1, DrawerInvariant, PTL DEF Spec, AppliesWhatIsShown

(* Only the user changes the draft, one lock or cell at a time             *)
(* (updateCapacityEdit, toggleFeatureLock, runGenerate's answer).          *)
THEOREM DraftIsKept == Spec => DraftKept
<1>1. ASSUME IInv, [Next]_vars,
             drawer.draft # None, drawer'.draft # None, drawer'.draft # drawer.draft
      PROVE  LET was == drawer.draft
                 is == drawer'.draft
             IN  /\ drawer'.revision = drawer.revision + 1
                 /\ \/ /\ is.edits = was.edits
                       /\ \E i \in Item : \A j \in Item \ {i} : j \in is.pins <=> j \in was.pins
                    \/ /\ is.pins = was.pins
                       /\ \E role \in Role, cell \in Cells :
                            \A r \in Role, w \in 0 .. LastWeek - 1 :
                              Staff(is, r, w) # Staff(was, r, w) =>
                                r = role /\ cell.from <= w /\ w < cell.until
  <2>1. EditDraft
    BY <1>1, InvStep
  <2>2. drawer \in Drawers /\ drawer.draft \in Draft /\ drawer.draft.edits \in SUBSET Edit
    BY <1>1, TypeOKIs DEF IInv, Drawers, Draft
  <2>3. PICK draft \in Draft : ReplaceDraft(draft) /\ (OneLock(draft) \/ OneUpdate(draft))
    BY <2>1, <2>2, EditsDraft
  <2>4. drawer'.draft = draft /\ drawer'.revision = drawer.revision + 1
    BY <2>2, <2>3 DEF ReplaceDraft, MarkChanged, Drawers
  <2> DEFINE OneCell(role, cell) ==
               \A r \in Role, w \in 0 .. LastWeek - 1 :
                 Staff(draft, r, w) # Staff(drawer.draft, r, w) =>
                   r = role /\ cell.from <= w /\ w < cell.until
  <2>5. CASE OneLock(draft)
    BY <2>4, <2>5 DEF OneLock
  <2>6. ASSUME NEW role \in Role, NEW cell \in Cells,
               NEW kept \in SUBSET Met(drawer.draft.edits, role, cell),
               NEW edit \in Edit, OneCut(draft, role, cell, kept, edit)
        PROVE  OneCell(role, cell)
    <3>1. cell \in Range
      BY CellsTyped
    <3> QED  BY <2>2, <2>6, <3>1, RecutStaff DEF OneCut
  <2> HIDE DEF OneCell
  <2>7. CASE draft.pins = drawer.draft.pins /\ \E role \in Role, cell \in Cells : OneCell(role, cell)
    BY <2>4, <2>7 DEF OneCell
  <2>8. \/ OneLock(draft)
        \/ draft.pins = drawer.draft.pins /\ \E role \in Role, cell \in Cells : OneCell(role, cell)
    BY <2>3, <2>6 DEF OneUpdate
  <2> QED  BY <2>5, <2>7, <2>8
<1> QED  BY <1>1, DrawerInvariant, PTL DEF Spec, DraftKept
=============================================================================
