------------------------ MODULE ScheduleStore_proofs ------------------------
(* That the cached demand belongs to the stored rows and pins, and when a  *)
(* schedule may take a pin, for any features, stories and number of        *)
(* requests, which overlap, fail half-way and are edited under in any way. *)
EXTENDS ScheduleStore, TLAPS

Pins == UNION {[S -> Value] : S \in SUBSET Item}

(* What a plan says of the pins, whoever has computed it.                  *)
PlanApart(r) ==
  /\ plan[r] \in Plan
  /\ plan[r].placed \cap DOMAIN plan[r].pins = {}
  /\ plan[r].inactive \cap (plan[r].placed \cup DOMAIN plan[r].pins) = {}

(* A plan is of the pins that are stored, as long as nothing overlaps.     *)
InPlace(r) ==
  r \notin overlapped /\ op[r].kind # "draft" =>
    /\ \A i \in DOMAIN plan[r].pins : status[i] = "gone" \/ row[i] = Manual(plan[r].pins[i])
    /\ \A i \in plan[r].placed : ~Pinned(i)

(* Between the two statements of a feature's pin the cache is empty, or    *)
(* from a request that overlapped it.                                      *)
HalfPinned(r) == pc[r] = "half" /\ op[r].kind = "pin" /\ cache # None => cache.by \in overlapped

RequestOK(r) ==
  r \in InFlight =>
    /\ op[r] \in Op
    /\ pc[r] = "computed" =>
         /\ PlanApart(r)
         /\ op[r].kind \in {"schedule", "level", "squad", "draft"}
         /\ InPlace(r)
    /\ pc[r] \in {"half", "otherHalf"} => op[r].kind \in {"pin", "clearPins"}
    /\ HalfPinned(r)

(* Requests begin in turn; of two that are there together both overlap,    *)
(* and one that began while another was there overlapped it.               *)
InTurn == \A r, q \in Request : q < r /\ pc[r] # "unborn" => pc[q] # "unborn"

Overlaps ==
  /\ \A r, q \in InFlight : r # q => r \in overlapped
  /\ \A q \in InFlight, r \in Request : q < r /\ pc[r] # "unborn" => r \in overlapped

FromRows == \A i \in cache.placed : AutoRow(i) => row[i].of = cache.by \/ Unsettled(row[i].of)

KnowsPins ==
  \A i \in cache.placed \cup DOMAIN cache.pins :
    \/ status[i] = "gone"
    \/ \E q \in Request : PinUnsettled(q, i)
    \/ IF i \in DOMAIN cache.pins THEN row[i] = Manual(cache.pins[i]) ELSE ~Pinned(i)

CacheKept ==
  cache # None =>
    /\ cache.by = Past \/ pc[cache.by] = "done"
    /\ FromRows
    /\ cache.by \notin overlapped => KnowsPins

IInv == TypeOK /\ (\A r \in Request : RequestOK(r)) /\ InTurn /\ Overlaps /\ CacheKept

----------------------------------------------------------------------------
LEMMA RowForms ==
  /\ \A v \in Value : /\ Manual(v) \in Row /\ Manual(v) # None
                       /\ Manual(v).kind = "manual" /\ Manual(v).of = v
  /\ \A r \in Request \cup {Past} : /\ Placed(r) \in Row /\ Placed(r) # None
                                    /\ Placed(r).kind = "auto" /\ Placed(r).of = r
<1>1. \A v \in Value : Manual(v) \in Row /\ Manual(v).kind = "manual" /\ Manual(v).of = v
  BY DEF Manual, Row
<1>2. \A r \in Request \cup {Past} : Placed(r) \in Row /\ Placed(r).kind = "auto" /\ Placed(r).of = r
  BY DEF Placed, Row
<1>3. QED
  BY <1>1, <1>2, StoreAssumption

LEMMA PinsRead ==
  ASSUME TypeOK
  PROVE  /\ ReadPins \in Pins /\ DOMAIN ReadPins = {i \in Active : Pinned(i)}
         /\ \A i \in DOMAIN ReadPins : row[i] = Manual(ReadPins[i]) /\ ReadPins[i] \in Value
<1>1. DOMAIN ReadPins = {i \in Active : Pinned(i)}
  BY DEF ReadPins
<1>2. ASSUME NEW i \in Active, Pinned(i)
      PROVE  row[i] \in [kind : {"manual"}, of : Value] /\ ReadPins[i] = row[i].of
  <2>1. row[i] \in Row /\ row[i].kind = "manual"
    BY <1>2 DEF TypeOK, Pinned, Active
  <2>2. QED
    BY <1>2, <2>1 DEF Row, ReadPins
<1>3. \A i \in DOMAIN ReadPins : row[i] = Manual(ReadPins[i]) /\ ReadPins[i] \in Value
  BY <1>1, <1>2 DEF Manual
<1>4. ReadPins \in [{i \in Active : Pinned(i)} -> Value]
  BY <1>1, <1>3 DEF ReadPins
<1>5. {i \in Active : Pinned(i)} \in SUBSET Item
  BY DEF Active
<1>6. QED
  BY <1>1, <1>3, <1>4, <1>5 DEF Pins

LEMMA PlanTyped ==
  ASSUME TypeOK, NEW pins \in Pins
  PROVE  /\ PlanWith(pins) \in Plan
         /\ \A k : Cleaning(PlanWith(pins), k) \in Plan
         /\ \A k : /\ Cleaning(PlanWith(pins), k).pins = pins
                   /\ Cleaning(PlanWith(pins), k).placed = Active \ DOMAIN pins
                   /\ Cleaning(PlanWith(pins), k).inactive \cap Active = {}
  BY DEF PlanWith, Cleaning, Plan, Pins, Active

(* Nothing is stored that a first computation has not placed.              *)
LEMMA InitInv == Init => IInv
<1> SUFFICES ASSUME Init PROVE IInv
  OBVIOUS
<1>1. /\ row \in [Item -> Row \cup {None}] /\ cache \in Cache \cup {None}
      /\ cache # None => FromRows /\ KnowsPins
  <2>1. CASE row = [i \in Item |-> None] /\ cache = None
    BY <2>1
  <2>2. ASSUME NEW S \in SUBSET Item, NEW pins \in [S -> Value],
               row = [i \in Item |-> IF i \in S THEN Manual(pins[i]) ELSE Placed(Past)],
               cache \in {None, [by |-> Past, placed |-> Item \ S, pins |-> pins]}
        PROVE  /\ row \in [Item -> Row \cup {None}] /\ cache \in Cache \cup {None}
               /\ cache # None => FromRows /\ KnowsPins
    <3>1. /\ Past \in Request \cup {Past} /\ S \subseteq Item /\ DOMAIN pins = S
          /\ \A i \in S : pins[i] \in Value
      OBVIOUS
    <3>2. \A i \in Item : /\ i \in S => row[i] = Manual(pins[i]) /\ Pinned(i) /\ ~AutoRow(i)
                          /\ i \notin S => row[i] = Placed(Past) /\ ~Pinned(i)
      BY <2>2, <3>1, RowForms DEF Pinned, AutoRow
    <3>3. row \in [Item -> Row \cup {None}]
      BY <2>2, <3>1, RowForms
    <3>4. cache \in Cache \cup {None}
      BY <2>2, <3>1 DEF Cache
    <3>5. ASSUME cache # None PROVE FromRows /\ KnowsPins
      <4>1. cache.by = Past /\ cache.placed = Item \ S /\ cache.pins = pins
        BY <2>2, <3>5
      <4>2. FromRows
        BY <3>1, <3>2, <4>1, RowForms DEF FromRows
      <4>3. KnowsPins
        BY <3>1, <3>2, <4>1 DEF KnowsPins
      <4>4. QED
        BY <4>2, <4>3
    <3>6. QED
      BY <3>3, <3>4, <3>5
  <2>3. QED
    BY <2>1, <2>2 DEF Init, InitStored
<1>2. TypeOK
  BY <1>1 DEF Init, TypeOK, Control
<1>3. InFlight = {}
  BY DEF Init, InFlight
<1>4. QED
  <2>1. (\A r \in Request : RequestOK(r)) /\ InTurn /\ Overlaps
    BY <1>3 DEF RequestOK, Overlaps, InTurn, Init
  <2>2. CacheKept
    <3>1. cache # None => cache.by = Past
      BY DEF Init, InitStored
    <3>2. QED
      BY <1>1, <3>1 DEF CacheKept
  <2>3. QED
    BY <1>2, <2>1, <2>2 DEF IInv

----------------------------------------------------------------------------
LEMMA CacheTyped ==
  ASSUME TypeOK, cache # None
  PROVE  /\ cache.by \in Request \cup {Past} /\ cache.placed \subseteq Item /\ cache.pins \in Pins
         /\ DOMAIN cache.pins \subseteq Item
<1>1. cache \in Cache
  BY DEF TypeOK
<1>2. cache.by \in Request \cup {Past} /\ cache.placed \subseteq Item /\ cache.pins \in Pins
  BY <1>1 DEF Cache, Pins
<1>3. QED
  BY <1>2 DEF Pins

(* Numbers of requests.                                                    *)
LEMMA Numbers ==
  /\ Past \notin Request
  /\ \A q, r \in Request : q = r \/ q < r \/ q > r
  /\ \A q, r \in Request \cup {Past} : q > r <=> r < q
  /\ \A q \in Request : q > Past
BY StoreAssumption DEF Request, Past

(* A statement of one request leaves the others sound: they are not there, *)
(* or both overlap.  The cache stays, goes, or is that of the request.     *)
LEMMA OwnStep ==
  ASSUME IInv, NEW r \in InFlight, NEW c \in Control \ {"unborn"}, NEW x \in Plan \cup {None}, NEW o \in Op \cup {None},
         pc' = [pc EXCEPT ![r] = c], plan' = [plan EXCEPT ![r] = x], op' = [op EXCEPT ![r] = o],
         UNCHANGED <<planning, status, overlapped>>,
         row' \in [Item -> Row \cup {None}], cache' \in Cache \cup {None},
         cache' \in {cache, None} \/ cache'.by = r,
         RequestOK(r)', CacheKept'
  PROVE  IInv'
<1> USE DEF IInv
<1>1. r \in Request /\ pc[r] # "unborn"
  BY DEF InFlight
<1>2. /\ pc' \in [Request -> Control] /\ plan' \in [Request -> Plan \cup {None}] /\ op' \in [Request -> Op \cup {None}]
      /\ pc'[r] = c
      /\ \A q \in Request \ {r} : pc'[q] = pc[q] /\ plan'[q] = plan[q] /\ op'[q] = op[q]
  BY <1>1 DEF TypeOK
<1>3. TypeOK'
  BY <1>2 DEF TypeOK
<1>4. InFlight' \subseteq InFlight
  BY <1>1, <1>2 DEF InFlight
<1>5. InTurn' /\ Overlaps'
  BY <1>1, <1>2, <1>4 DEF InTurn, Overlaps
<1>6. ASSUME NEW q \in Request \ {r} PROVE RequestOK(q)'
  <2>1. CASE q \in InFlight
    <3>1. q \in overlapped /\ r \in overlapped
      BY <2>1 DEF Overlaps
    <3>2. cache' # None => cache' = cache \/ cache'.by \in overlapped
      BY <3>1
    <3>3. RequestOK(q)
      OBVIOUS
    <3>4. QED
      BY <1>2, <2>1, <3>1, <3>2, <3>3 DEF RequestOK, PlanApart, InPlace, HalfPinned, InFlight
  <2>2. CASE q \notin InFlight
    BY <1>4, <2>2 DEF RequestOK
  <2>3. QED
    BY <2>1, <2>2
<1>7. QED
  BY <1>3, <1>5, <1>6

----------------------------------------------------------------------------
(* The cache is not from who is still there, and what is there and began   *)
(* before the cache overlapped it.                                         *)
LEMMA FromOther ==
  ASSUME IInv, cache # None, NEW r \in InFlight
  PROVE  cache.by # r /\ (cache.by \notin overlapped => r > cache.by)
<1>1. r \in Request /\ pc[r] # "done" /\ cache.by \in Request \cup {Past}
  BY CacheTyped DEF InFlight, IInv
<1>2. cache.by # r
  BY <1>1, Numbers DEF IInv, CacheKept
<1>3. ASSUME cache.by \notin overlapped PROVE r > cache.by
  <2>1. CASE cache.by = Past
    BY <1>1, <2>1, Numbers
  <2>2. CASE cache.by \in Request
    BY <1>1, <1>2, <1>3, <2>2, Numbers DEF IInv, CacheKept, Overlaps
  <2>3. QED
    BY <1>1, <2>1, <2>2
<1>4. QED
  BY <1>2, <1>3

(* A step of a request that leaves the cache: the rows it makes automatic  *)
(* are its own, and unsettled; pins change only by a request of pins that  *)
(* is to clear the cache.                                                  *)
OthersStay(r) == \A q \in Request \ {r} : pc'[q] = pc[q] /\ op'[q] = op[q]

RowsSettle(r) ==
  \A i \in Item : row'[i] = row[i] \/ ~AutoRow(i)' \/ (pc'[r] = "written" /\ row'[i].of = r)

PinsSettle(r) ==
  \A i \in Item : /\ PinUnsettled(r, i) => PinUnsettled(r, i)'
                  /\ row'[i] = row[i] \/ (~Pinned(i) /\ ~Pinned(i)') \/ PinUnsettled(r, i)'

LEMMA CacheStep ==
  ASSUME IInv, NEW r \in InFlight, OthersStay(r), UNCHANGED <<status, overlapped, cache>>,
         pc[r] = "written" => pc'[r] = "failed",
         RowsSettle(r), cache # None /\ cache.by \notin overlapped => PinsSettle(r)
  PROVE  CacheKept'
<1> SUFFICES ASSUME cache # None PROVE CacheKept'
  BY DEF CacheKept
<1> USE DEF IInv
<1>1. r \in Request /\ \A q \in Request \ {r} : pc'[q] = pc[q] /\ op'[q] = op[q]
  BY DEF InFlight, OthersStay
<1>2. /\ cache.by \in Request \cup {Past} /\ cache.placed \subseteq Item /\ DOMAIN cache.pins \subseteq Item
      /\ cache.by # r
  BY CacheTyped, FromOther
<1>3. cache.by = Past \/ pc'[cache.by] = "done"
  BY <1>1, <1>2 DEF CacheKept
<1>4. FromRows'
  <2>1. \A q : Unsettled(q) => Unsettled(q)'
    BY <1>1 DEF Unsettled, InFlight
  <2>2. ASSUME NEW i \in cache.placed, AutoRow(i)' PROVE (row[i].of = cache.by \/ Unsettled(row[i].of))'
    <3>1. CASE row'[i] = row[i]
      <4>1. AutoRow(i)
        BY <2>2, <3>1 DEF AutoRow
      <4>2. row[i].of = cache.by \/ Unsettled(row[i].of)
        BY <4>1 DEF CacheKept, FromRows
      <4>3. QED
        BY <2>1, <3>1, <4>2 DEF Unsettled
    <3>2. CASE pc'[r] = "written" /\ row'[i].of = r
      BY <1>1, <3>2 DEF Unsettled
    <3>3. QED
      BY <1>2, <2>2, <3>1, <3>2 DEF RowsSettle
  <2>3. QED
    BY <2>2 DEF FromRows
<1>5. ASSUME cache.by \notin overlapped PROVE KnowsPins'
  <2>1. \A i \in Item, q \in Request : PinUnsettled(q, i) => PinUnsettled(q, i)'
    <3>1. \A i \in Item, q \in Request \ {r} : PinUnsettled(q, i) => PinUnsettled(q, i)'
      BY <1>1 DEF PinUnsettled
    <3>2. QED
      BY <1>5, <3>1 DEF PinsSettle
  <2>2. ASSUME NEW i \in cache.placed \cup DOMAIN cache.pins, status[i] # "gone",
               ~\E q \in Request : PinUnsettled(q, i)'
        PROVE  IF i \in DOMAIN cache.pins THEN row'[i] = Manual(cache.pins[i]) ELSE ~Pinned(i)'
    <3>1. i \in Item /\ ~PinUnsettled(r, i)' /\ ~\E q \in Request : PinUnsettled(q, i)
      BY <1>1, <1>2, <2>1, <2>2
    <3>2. IF i \in DOMAIN cache.pins THEN row[i] = Manual(cache.pins[i]) ELSE ~Pinned(i)
      BY <1>5, <2>2, <3>1 DEF CacheKept, KnowsPins
    <3>3. row'[i] = row[i] \/ (~Pinned(i) /\ ~Pinned(i)')
      BY <1>5, <3>1 DEF PinsSettle
    <3>4. i \in DOMAIN cache.pins => Pinned(i)
      <4>1. i \in DOMAIN cache.pins => cache.pins[i] \in Value
        BY CacheTyped DEF Pins
      <4>2. QED
        BY <3>2, <4>1, RowForms DEF Pinned
    <3>5. QED
      BY <3>2, <3>3, <3>4 DEF Pinned
  <2>3. QED
    BY <2>2 DEF KnowsPins
<1>6. QED
  BY <1>3, <1>4, <1>5 DEF CacheKept

LEMMA DoneStep ==
  ASSUME IInv, NEW r \in InFlight, Ends(r),
         row' \in [Item -> Row \cup {None}], cache' \in Cache \cup {None},
         cache' \in {cache, None} \/ cache'.by = r, CacheKept'
  PROVE  IInv'
<1>1. r \in Request /\ "done" \in Control \ {"unborn"}
  BY DEF InFlight, Control
<1>2. pc'[r] = "done"
  BY <1>1 DEF Ends, IInv, TypeOK
<1>3. RequestOK(r)'
  BY <1>2 DEF RequestOK, InFlight
<1>4. QED
  BY <1>1, <1>3, OwnStep DEF Ends

(* The end of a request that has cleared the cache or written its own.     *)
LEMMA EndStep ==
  ASSUME IInv, NEW r \in InFlight, Ends(r),
         row' \in [Item -> Row \cup {None}], cache' \in Cache \cup {None},
         cache' # None => /\ cache'.by = r
                          /\ FromRows'
                          /\ r \notin overlapped => KnowsPins'
  PROVE  IInv'
<1>1. r \in Request /\ pc'[r] = "done" /\ UNCHANGED overlapped
  BY DEF Ends, InFlight, IInv, TypeOK
<1>2. CacheKept'
  BY <1>1 DEF CacheKept
<1>3. QED
  BY <1>2, DoneStep

(* An end that touches neither rows nor cache.                             *)
LEMMA QuietEnd ==
  ASSUME IInv, NEW r \in InFlight, Ends(r), UNCHANGED <<row, cache>>,
         pc[r] \notin {"written", "half", "otherHalf", "failed"}
  PROVE  IInv'
<1>1. r \in Request /\ "done" \in Control
  BY DEF InFlight, Control
<1>2. OthersStay(r) /\ RowsSettle(r) /\ PinsSettle(r)
  <2>1. OthersStay(r)
    BY <1>1 DEF Ends, IInv, TypeOK, OthersStay
  <2>2. RowsSettle(r) /\ PinsSettle(r)
    BY DEF RowsSettle, PinsSettle, PinUnsettled
  <2>3. QED
    BY <2>1, <2>2
<1>3. CacheKept'
  BY <1>2, CacheStep DEF Ends
<1>4. row' \in [Item -> Row \cup {None}] /\ cache' \in Cache \cup {None}
  BY DEF IInv, TypeOK
<1>5. QED
  BY <1>3, <1>4, DoneStep

(* The next statement of a handler whose computation is over.              *)
LEMMA GoStep ==
  ASSUME IInv, NEW r \in InFlight, NEW c \in {"written", "half", "otherHalf", "failed"}, Goes(r, c),
         row' \in [Item -> Row \cup {None}], cache' \in {cache, None},
         c \in {"half", "otherHalf"} => op[r].kind \in {"pin", "clearPins"},
         c = "half" /\ op[r].kind = "pin" => cache' = None,
         CacheKept'
  PROVE  IInv'
<1>1. r \in Request /\ c \in Control \ {"unborn"} /\ op[r] \in Op /\ op \in [Request -> Op \cup {None}]
      /\ cache' \in Cache \cup {None}
  BY DEF InFlight, Control, IInv, RequestOK, TypeOK
<1>2. pc'[r] = c /\ op' = [op EXCEPT ![r] = op[r]] /\ op'[r] = op[r]
  BY <1>1 DEF Goes, IInv, TypeOK
<1>3. RequestOK(r)'
  BY <1>1, <1>2 DEF RequestOK, HalfPinned
<1>4. QED
  BY <1>1, <1>2, <1>3, OwnStep DEF Goes

----------------------------------------------------------------------------
LEMMA BeginStep ==
  ASSUME IInv, NEW r \in Request, NEW o \in Op, Begin(r, o)
  PROVE  IInv'
<1> USE DEF IInv
<1>1. /\ pc' \in [Request -> Control] /\ op' \in [Request -> Op \cup {None}]
      /\ pc[r] = "unborn" /\ pc'[r] = "begun" /\ op'[r] = o
      /\ \A q \in Request \ {r} : pc'[q] = pc[q] /\ op'[q] = op[q]
      /\ \A q \in Request : q < r => pc[q] # "unborn"
      /\ UNCHANGED <<planning, status, row, cache, plan>>
  BY DEF Begin, TypeOK, Control
<1>2. /\ overlapped \subseteq overlapped' /\ InFlight \subseteq overlapped' /\ overlapped' \subseteq Request
      /\ InFlight # {} => r \in overlapped'
      /\ \A q \in overlapped' \ overlapped : q \in InFlight \/ q = r
  BY DEF Begin, TypeOK, InFlight
<1>3. TypeOK' /\ InFlight' = InFlight \cup {r}
  BY <1>1, <1>2 DEF TypeOK, InFlight
<1>4. ASSUME NEW q \in Request PROVE RequestOK(q)'
  <2>1. CASE q = r
    BY <1>1, <2>1 DEF RequestOK, HalfPinned
  <2>2. CASE q \in InFlight /\ q # r
    <3>1. RequestOK(q) /\ q \in overlapped'
      BY <1>2, <2>2
    <3>2. QED
      BY <1>1, <1>2, <2>2, <3>1 DEF RequestOK, PlanApart, InPlace, HalfPinned
  <2>3. QED
    BY <1>3, <2>1, <2>2 DEF RequestOK
<1>5. InTurn'
  BY <1>1, Numbers DEF InTurn
<1>6. Overlaps'
  <2>1. \A p, q \in InFlight' : p # q => p \in overlapped'
    BY <1>2, <1>3
  <2>2. ASSUME NEW q \in InFlight', NEW p \in Request, q < p, pc'[p] # "unborn" PROVE p \in overlapped'
    <3>1. CASE p = r
      <4>1. q # r
        BY <2>2, <3>1, Numbers DEF Request
      <4>2. QED
        BY <1>2, <1>3, <2>2, <3>1, <4>1
    <3>2. CASE p # r /\ q = r
      BY <1>1, <2>2, <3>2 DEF InTurn
    <3>3. CASE p # r /\ q # r
      BY <1>1, <1>2, <1>3, <2>2, <3>3 DEF Overlaps
    <3>4. QED
      BY <3>1, <3>2, <3>3
  <2>3. QED
    BY <2>1, <2>2 DEF Overlaps
<1>7. CacheKept'
  <2> SUFFICES ASSUME cache # None PROVE CacheKept'
    BY <1>1 DEF CacheKept
  <2>1. cache.by = Past \/ pc'[cache.by] = "done"
    BY <1>1, CacheTyped DEF CacheKept
  <2>2. FromRows'
    <3>1. \A q : Unsettled(q) => Unsettled(q)'
      BY <1>1 DEF Unsettled
    <3>2. FromRows
      BY DEF CacheKept
    <3>3. QED
      BY <1>1, <3>1, <3>2 DEF FromRows, AutoRow
  <2>3. ASSUME cache.by \notin overlapped' PROVE KnowsPins'
    <3>1. \A i : \A q \in Request : PinUnsettled(q, i) => PinUnsettled(q, i)'
      BY <1>1 DEF PinUnsettled
    <3>2. KnowsPins
      BY <1>2, <2>3 DEF CacheKept
    <3>3. QED
      BY ONLY <1>1, <3>1, <3>2 DEF KnowsPins, Pinned
  <2>4. QED
    BY <1>1, <2>1, <2>2, <2>3 DEF CacheKept
<1>8. QED
  BY <1>3, <1>4, <1>5, <1>6, <1>7

LEMMA ComputeStep ==
  ASSUME IInv, NEW r \in InFlight,
         Compute(r) \/ \E S \in SUBSET Active : \E pins \in [S -> Value] : Generate(r, pins)
  PROVE  IInv'
<1> USE DEF IInv
<1>1. r \in Request /\ op[r] \in Op /\ op \in [Request -> Op \cup {None}] /\ pc[r] = "begun"
  BY DEF InFlight, RequestOK, TypeOK, Compute, Generate, At
<1>2. PICK x \in Plan :
        /\ Computes(r, x)
        /\ x.placed \cap DOMAIN x.pins = {}
        /\ x.inactive \cap (x.placed \cup DOMAIN x.pins) = {}
        /\ op[r].kind \in {"schedule", "level", "squad", "draft"}
        /\ op[r].kind # "draft" => x.pins = ReadPins /\ x.placed = Active \ DOMAIN ReadPins
  <2>1. CASE Compute(r)
    <3> DEFINE x == Cleaning(PlanWith(ReadPins), op[r].kind)
    <3>1. /\ x \in Plan /\ x.pins = ReadPins /\ x.placed = Active \ DOMAIN ReadPins
          /\ x.inactive \cap Active = {}
      BY PinsRead, PlanTyped
    <3>2. Computes(r, x) /\ op[r].kind \in {"schedule", "level", "squad"}
      BY <2>1 DEF Compute, At
    <3> HIDE DEF x
    <3>3. DOMAIN ReadPins \subseteq Active
      BY PinsRead
    <3>4. QED
      BY <3>1, <3>2, <3>3
  <2>2. CASE \E S \in SUBSET Active : \E pins \in [S -> Value] : Generate(r, pins)
    <3>0. PICK S \in SUBSET Active : \E pins \in [S -> Value] : Generate(r, pins)
      BY <2>2
    <3>1. PICK pins \in [S -> Value] : Generate(r, pins)
      BY <3>0
    <3>2. pins \in Pins
      BY DEF Pins, Active
    <3> DEFINE x == PlanWith(pins)
    <3>3. x \in Plan /\ x.placed \cap DOMAIN x.pins = {} /\ x.inactive = {}
      BY <3>2, PlanTyped DEF PlanWith
    <3>4. Computes(r, x) /\ op[r].kind = "draft"
      BY <3>1 DEF Generate, At
    <3> HIDE DEF x
    <3>5. QED
      BY <3>3, <3>4
  <2>3. QED
    BY <2>1, <2>2
<1>3. /\ pc' = [pc EXCEPT ![r] = "computed"] /\ plan' = [plan EXCEPT ![r] = x] /\ op' = [op EXCEPT ![r] = op[r]]
      /\ pc'[r] = "computed" /\ plan'[r] = x /\ op'[r] = op[r]
      /\ UNCHANGED <<planning, status, row, cache, overlapped>>
  BY <1>1, <1>2 DEF Computes, project, TypeOK
<1>4. InPlace(r)'
  <2>1. op[r].kind # "draft" =>
          /\ \A i \in DOMAIN x.pins : row[i] = Manual(x.pins[i])
          /\ \A i \in x.placed : ~Pinned(i)
    BY <1>2, PinsRead
  <2>2. QED
    BY <1>3, <2>1 DEF InPlace, Pinned
<1>5. RequestOK(r)'
  BY <1>1, <1>2, <1>3, <1>4 DEF RequestOK, PlanApart, HalfPinned
<1>6. CacheKept'
  <2>1. OthersStay(r)
    BY <1>1, <1>3 DEF OthersStay, TypeOK
  <2>2. RowsSettle(r) /\ PinsSettle(r)
    BY <1>1, <1>3 DEF RowsSettle, PinsSettle, PinUnsettled
  <2>3. QED
    BY <1>1, <1>3, <2>1, <2>2, CacheStep
<1>7. row' \in [Item -> Row \cup {None}] /\ cache' \in Cache \cup {None} /\ "computed" \in Control \ {"unborn"}
  BY <1>3 DEF TypeOK, Control
<1>8. QED
  BY <1>1, <1>2, <1>3, <1>5, <1>6, <1>7, OwnStep

----------------------------------------------------------------------------
(* What a computation has found, when its transaction comes to write it.   *)
LEMMA PlanFound ==
  ASSUME IInv, NEW r \in InFlight, pc[r] = "computed"
  PROVE  /\ r \in Request /\ plan[r].placed \subseteq Item
         /\ plan[r].pins \in Pins /\ DOMAIN plan[r].pins \subseteq Item
         /\ \A i \in DOMAIN plan[r].pins : plan[r].pins[i] \in Value
         /\ plan[r].placed \cap DOMAIN plan[r].pins = {}
         /\ plan[r].inactive \cap (plan[r].placed \cup DOMAIN plan[r].pins) = {}
         /\ CacheOf(r) \in Cache /\ CacheOf(r).by = r
         /\ CacheOf(r).placed = plan[r].placed /\ CacheOf(r).pins = plan[r].pins
<1>1. r \in Request /\ PlanApart(r) /\ plan[r] \in Plan
  BY DEF IInv, InFlight, RequestOK, PlanApart
<1>2. plan[r].placed \subseteq Item /\ plan[r].pins \in Pins
  BY <1>1 DEF Plan, Pins
<1>3. DOMAIN plan[r].pins \subseteq Item /\ \A i \in DOMAIN plan[r].pins : plan[r].pins[i] \in Value
  BY <1>2 DEF Pins
<1>4. /\ CacheOf(r) \in Cache /\ CacheOf(r).by = r
      /\ CacheOf(r).placed = plan[r].placed /\ CacheOf(r).pins = plan[r].pins
  BY <1>1, <1>2 DEF CacheOf, Cache, Pins
<1>5. QED
  BY <1>1, <1>2, <1>3, <1>4 DEF PlanApart

(* As long as nothing overlaps, what it has found is still there.          *)
LEMMA PlanStands ==
  ASSUME IInv, NEW r \in InFlight, pc[r] = "computed", r \notin overlapped, op[r].kind # "draft"
  PROVE  /\ \A i \in DOMAIN plan[r].pins : status[i] = "gone" \/ row[i] = Manual(plan[r].pins[i])
         /\ \A i \in plan[r].placed : ~Pinned(i)
BY DEF IInv, InFlight, RequestOK, InPlace

LEMMA PlacedRow ==
  ASSUME NEW r \in Request, NEW i, row'[i] = Placed(r)
  PROVE  ~Pinned(i)' /\ row'[i].of = r
  BY RowForms DEF Pinned

LEMMA PinnedRowForm ==
  ASSUME NEW v \in Value, NEW i, row'[i] = Manual(v)
  PROVE  Pinned(i)' /\ ~AutoRow(i)'
  BY RowForms DEF Pinned, AutoRow

LEMMA CommitScheduleStep ==
  ASSUME IInv, NEW r \in InFlight, CommitSchedule(r)
  PROVE  IInv'
<1> USE DEF IInv
<1>1. pc[r] = "computed" /\ op[r].kind = "schedule" /\ Ends(r) /\ UNCHANGED <<status, overlapped>>
  BY DEF CommitSchedule, At, Ends
<1>2. CASE ~Writable(r)
  BY <1>1, <1>2, QuietEnd DEF CommitSchedule
<1>3. CASE Writable(r)
  <2>1. row' = UpsertedRows(r) /\ cache' = CacheOf(r)
    BY <1>3 DEF CommitSchedule
  <2>2. /\ r \in Request /\ plan[r].placed \subseteq Item /\ DOMAIN plan[r].pins \subseteq Item
        /\ \A i \in DOMAIN plan[r].pins : plan[r].pins[i] \in Value
        /\ plan[r].placed \cap DOMAIN plan[r].pins = {}
        /\ cache' \in Cache /\ cache'.by = r /\ cache'.placed = plan[r].placed /\ cache'.pins = plan[r].pins
    BY <1>1, <2>1, PlanFound
  <2>3. row' \in [Item -> Row \cup {None}]
    <3>1. ASSUME NEW i \in Item PROVE row'[i] \in Row \cup {None}
      BY <2>1, <2>2, RowForms DEF UpsertedRows, TypeOK
    <3>2. QED
      BY <2>1, <3>1 DEF UpsertedRows
  <2>4. \A i \in plan[r].placed : row'[i] = None \/ row'[i] = Placed(r)
    BY <2>1, <2>2 DEF UpsertedRows
  <2>5. FromRows'
    BY <2>2, <2>4, PlacedRow DEF FromRows, AutoRow
  <2>6. ASSUME r \notin overlapped PROVE KnowsPins'
    <3>1. \A i \in plan[r].placed : ~Pinned(i)'
      BY <2>2, <2>4, PlacedRow DEF Pinned
    <3>2. ASSUME NEW i \in DOMAIN plan[r].pins, status[i] # "gone" PROVE row'[i] = Manual(plan[r].pins[i])
      <4>1. i \notin plan[r].inactive /\ i \notin plan[r].placed /\ row[i] = Manual(plan[r].pins[i])
        BY <1>1, <2>2, <2>6, <3>2, PlanFound, PlanStands
      <4>2. i \in Item /\ row[i] # None
        BY <2>2, <4>1, RowForms
      <4>3. QED
        BY <2>1, <4>1, <4>2 DEF UpsertedRows
    <3>3. QED
      BY <1>1, <2>2, <3>1, <3>2 DEF KnowsPins
  <2>7. QED
    BY <1>1, <2>2, <2>3, <2>5, <2>6, EndStep
<1>4. QED
  BY <1>2, <1>3

(* deleteMany and createMany, of rows that are not pinned.                 *)
LEMMA RowsReplaced ==
  ASSUME TypeOK, NEW r \in Request, NEW S \in SUBSET Item, row' = ReplacedRows(r, S)
  PROVE  /\ row' \in [Item -> Row \cup {None}]
         /\ \A i \in Item : Pinned(i) => row'[i] = row[i] /\ Pinned(i)' /\ ~AutoRow(i)'
         /\ \A i \in S : ~Pinned(i) => row'[i] = Placed(r) /\ ~Pinned(i)'
<1>1. ASSUME NEW i \in Item
      PROVE  /\ row'[i] \in Row \cup {None}
             /\ Pinned(i) => row'[i] = row[i] /\ Pinned(i)' /\ ~AutoRow(i)'
             /\ i \in S /\ ~Pinned(i) => row'[i] = Placed(r) /\ ~Pinned(i)'
  <2>1. row'[i] = IF Pinned(i) THEN row[i] ELSE IF i \in S THEN Placed(r) ELSE None
    BY DEF ReplacedRows
  <2>2. CASE Pinned(i)
    BY <2>1, <2>2 DEF Pinned, AutoRow, TypeOK
  <2>3. CASE ~Pinned(i)
    BY <2>1, <2>3, RowForms DEF Pinned, TypeOK
  <2>4. QED
    BY <2>2, <2>3
<1>2. QED
  BY <1>1 DEF ReplacedRows

LEMMA CommitSquadStep ==
  ASSUME IInv, NEW r \in InFlight, CommitSquad(r)
  PROVE  IInv'
<1> USE DEF IInv
<1>1. pc[r] = "computed" /\ op[r].kind = "squad" /\ Ends(r) /\ UNCHANGED <<status, overlapped>>
  BY DEF CommitSquad, At, Ends
<1>2. CASE ~Writable(r)
  BY <1>1, <1>2, QuietEnd DEF CommitSquad
<1>3. CASE Writable(r)
  <2>1. row' = ReplacedRows(r, plan[r].placed) /\ cache' = CacheOf(r)
    BY <1>3 DEF CommitSquad
  <2>2. /\ r \in Request /\ plan[r].placed \in SUBSET Item /\ DOMAIN plan[r].pins \subseteq Item
        /\ cache' \in Cache /\ cache'.by = r /\ cache'.placed = plan[r].placed /\ cache'.pins = plan[r].pins
        /\ plan[r].placed \cap DOMAIN plan[r].pins = {}
    BY <1>1, <2>1, PlanFound
  <2>3. /\ row' \in [Item -> Row \cup {None}]
        /\ \A i \in Item : Pinned(i) => row'[i] = row[i] /\ Pinned(i)' /\ ~AutoRow(i)'
        /\ \A i \in plan[r].placed : ~Pinned(i) => row'[i] = Placed(r) /\ ~Pinned(i)'
    BY <2>1, <2>2, RowsReplaced
  <2>4. FromRows'
    BY <2>2, <2>3, RowForms DEF FromRows, AutoRow
  <2>5. ASSUME r \notin overlapped PROVE KnowsPins'
    <3>1. /\ \A i \in DOMAIN plan[r].pins : status[i] = "gone" \/ row[i] = Manual(plan[r].pins[i])
          /\ \A i \in plan[r].placed : ~Pinned(i)
      BY <1>1, <2>5, PlanStands
    <3>2. ASSUME NEW i \in DOMAIN plan[r].pins, status[i] # "gone" PROVE row'[i] = Manual(plan[r].pins[i])
      <4>1. Pinned(i) /\ i \in Item
        BY <1>1, <2>2, <3>1, <3>2, PlanFound, RowForms DEF Pinned
      <4>2. QED
        BY <2>3, <3>1, <3>2, <4>1
    <3>3. QED
      BY <1>1, <2>2, <2>3, <3>1, <3>2 DEF KnowsPins
  <2>6. QED
    BY <1>1, <2>2, <2>3, <2>4, <2>5, EndStep
<1>4. QED
  BY <1>2, <1>3

LEMMA CommitDraftStep ==
  ASSUME IInv, NEW r \in InFlight, CommitDraft(r)
  PROVE  IInv'
<1> USE DEF IInv
<1>1. pc[r] = "computed" /\ Ends(r) /\ UNCHANGED <<status, overlapped>>
  BY DEF CommitDraft, At, Ends
<1>2. CASE UNCHANGED <<row, cache>>
  BY <1>1, <1>2, QuietEnd
<1>3. CASE ~UNCHANGED <<row, cache>>
  <2>1. /\ row' = [i \in Item |-> IF i \in plan[r].placed THEN Placed(r)
                                  ELSE IF i \in DOMAIN plan[r].pins THEN Manual(plan[r].pins[i]) ELSE None]
        /\ cache' = CacheOf(r)
    BY <1>3 DEF CommitDraft
  <2>2. /\ r \in Request /\ plan[r].placed \in SUBSET Item /\ DOMAIN plan[r].pins \subseteq Item
        /\ \A i \in DOMAIN plan[r].pins : plan[r].pins[i] \in Value
        /\ cache' \in Cache /\ cache'.by = r /\ cache'.placed = plan[r].placed /\ cache'.pins = plan[r].pins
        /\ plan[r].placed \cap DOMAIN plan[r].pins = {}
    BY <1>1, <2>1, PlanFound
  <2>3. /\ \A i \in plan[r].placed : row'[i] = Placed(r)
        /\ \A i \in DOMAIN plan[r].pins : row'[i] = Manual(plan[r].pins[i])
    BY <2>1, <2>2
  <2>4. row' \in [Item -> Row \cup {None}]
    BY <2>1, <2>2, RowForms
  <2>5. FromRows'
    BY <2>2, <2>3, RowForms DEF FromRows
  <2>6. KnowsPins'
    BY <2>2, <2>3, PlacedRow DEF KnowsPins
  <2>7. QED
    BY <1>1, <2>2, <2>4, <2>5, <2>6, EndStep
<1>4. QED
  BY <1>2, <1>3

LEMMA ReplaceLevelledStep ==
  ASSUME IInv, NEW r \in InFlight, ReplaceLevelled(r)
  PROVE  IInv'
<1> USE DEF IInv
<1>1. pc[r] = "computed" /\ UNCHANGED cache /\ r \in Request /\ plan[r].placed \in SUBSET Item
  BY PlanFound DEF ReplaceLevelled, At
<1>2. CASE UNCHANGED row /\ Ends(r)
  BY <1>1, <1>2, QuietEnd
<1>3. CASE row' = ReplacedRows(r, plan[r].placed) /\ Goes(r, "written")
  <2>1. /\ row' \in [Item -> Row \cup {None}]
        /\ \A i \in Item : Pinned(i) => row'[i] = row[i]
    BY <1>1, <1>3, RowsReplaced DEF TypeOK
  <2>2. \A i \in Item : ~Pinned(i) => row'[i] \in {Placed(r), None}
    BY <1>3 DEF ReplacedRows
  <2>3. pc'[r] = "written" /\ OthersStay(r) /\ UNCHANGED <<status, overlapped>>
    BY <1>1, <1>3 DEF Goes, TypeOK, OthersStay
  <2>4. RowsSettle(r) /\ PinsSettle(r)
    <3>1. ASSUME NEW i \in Item, ~Pinned(i) PROVE ~Pinned(i)' /\ (~AutoRow(i)' \/ row'[i].of = r)
      BY <1>1, <2>2, <3>1, RowForms DEF Pinned, AutoRow
    <3>2. RowsSettle(r)
      BY <2>1, <2>3, <3>1 DEF RowsSettle
    <3>3. \A i \in Item : ~PinUnsettled(r, i)
      BY <1>1 DEF PinUnsettled
    <3>4. PinsSettle(r)
      BY <2>1, <3>1, <3>3 DEF PinsSettle
    <3>5. QED
      BY <3>2, <3>4
  <2>5. CacheKept'
    BY <1>1, <2>3, <2>4, CacheStep
  <2>6. QED
    BY <1>1, <1>3, <2>1, <2>5, GoStep
<1>4. QED
  BY <1>2, <1>3 DEF ReplaceLevelled

LEMMA ApplyOptimiserStep ==
  ASSUME IInv, NEW r \in InFlight, ApplyOptimiser(r)
  PROVE  IInv'
<1>1. TypeOK /\ r \in Request /\ PlanWith(ReadPins).placed \in SUBSET Item
  BY DEF IInv, InFlight, PlanWith, Active
<1>2. row' \in [Item -> Row \cup {None}]
  BY <1>1, RowsReplaced DEF ApplyOptimiser
<1>3. QED
  BY <1>2, EndStep DEF ApplyOptimiser

----------------------------------------------------------------------------
LEMMA RefuseStep ==
  ASSUME IInv, NEW r \in InFlight, Refuse(r)
  PROVE  IInv'
<1>1. pc[r] \in {"begun", "computed"} /\ Ends(r) /\ UNCHANGED <<row, cache>>
  BY DEF Refuse, At
<1>2. QED
  BY <1>1, QuietEnd

LEMMA PinStep ==
  ASSUME IInv, NEW r \in InFlight, PinStory(r) \/ ClearForPin(r) \/ PinFeature(r)
  PROVE  IInv'
<1> USE DEF IInv
<1>1. /\ r \in Request /\ op[r] \in Op /\ op[r].kind = "pin" /\ pc[r] \in {"begun", "half"}
      /\ row \in [Item -> Row \cup {None}] /\ cache \in Cache \cup {None}
  BY DEF InFlight, RequestOK, TypeOK, PinStory, ClearForPin, PinFeature, At
<1>2. op[r].item \in Item /\ op[r].value \in Value
  BY <1>1 DEF Op, Planner
<1>3. ASSUME row' = PinnedRow(r)
      PROVE  /\ row' \in [Item -> Row \cup {None}]
             /\ \A i \in Item : row'[i] = row[i] \/ ~AutoRow(i)'
  <2>1. \A i \in Item : row'[i] = IF i = op[r].item THEN Manual(op[r].value) ELSE row[i]
    BY <1>1, <1>2, <1>3 DEF PinnedRow
  <2>2. row' \in [Item -> Row \cup {None}]
    BY <1>1, <1>2, <1>3, RowForms DEF PinnedRow
  <2>3. QED
    BY <1>2, <2>1, <2>2, RowForms DEF AutoRow
<1>4. op[r].item \in Item /\ \A i \in Item : row' = PinnedRow(r) => row'[i] = row[i] \/ op[r].item = i
  BY <1>1, <1>2 DEF PinnedRow
<1>5. cache # None /\ cache.by \notin overlapped => r > cache.by
  BY FromOther
<1>6. CASE PinStory(r)
  <2>1. CASE UNCHANGED row /\ Ends(r)
    BY <1>6, <2>1, QuietEnd DEF PinStory, At
  <2>2. CASE row' = PinnedRow(r) /\ Goes(r, "written")
    <3>1. pc[r] = "begun" /\ UNCHANGED <<status, overlapped, cache>> /\ pc'[r] = "written" /\ op'[r] = op[r]
      BY <1>1, <1>6, <2>2 DEF PinStory, At, Goes, TypeOK
    <3>2. OthersStay(r) /\ RowsSettle(r)
      BY <1>1, <1>3, <2>2 DEF Goes, OthersStay, RowsSettle, TypeOK
    <3>3. ASSUME cache # None, cache.by \notin overlapped PROVE PinsSettle(r)
      BY <1>4, <1>5, <2>2, <3>1, <3>3 DEF PinsSettle, PinUnsettled
    <3>4. CacheKept'
      BY <3>1, <3>2, <3>3, CacheStep
    <3>5. QED
      BY <1>1, <1>3, <2>2, <3>1, <3>4, GoStep
  <2>3. QED
    BY <1>6, <2>1, <2>2 DEF PinStory
<1>7. CASE ClearForPin(r)
  BY <1>1, <1>7, GoStep DEF ClearForPin, CacheKept
<1>8. CASE PinFeature(r)
  <2>1. /\ Ends(r) /\ UNCHANGED cache /\ pc[r] = "half" /\ (row' = PinnedRow(r) \/ row' = row)
    BY <1>8 DEF PinFeature, At
  <2>2. row' \in [Item -> Row \cup {None}] /\ \A i \in Item : row'[i] = row[i] \/ ~AutoRow(i)'
    BY <1>1, <1>3, <2>1
  <2>3. cache # None => cache.by \in overlapped
    BY <1>1, <2>1 DEF RequestOK, HalfPinned
  <2>4. OthersStay(r) /\ RowsSettle(r)
    BY <1>1, <2>1, <2>2 DEF Ends, TypeOK, OthersStay, RowsSettle
  <2>5. CacheKept'
    BY <2>1, <2>3, <2>4, CacheStep DEF Ends
  <2>6. QED
    BY <1>1, <2>1, <2>2, <2>5, DoneStep
<1>9. QED
  BY <1>6, <1>7, <1>8

LEMMA UnpinStep ==
  ASSUME IInv, NEW r \in InFlight, Unpin(r) \/ ClearFeaturePins(r) \/ ClearStoryPins(r)
  PROVE  IInv'
<1> USE DEF IInv
<1>1. /\ r \in Request /\ op[r] \in Op /\ UNCHANGED cache
      /\ row \in [Item -> Row \cup {None}] /\ cache \in Cache \cup {None}
  BY DEF InFlight, RequestOK, TypeOK, Unpin, ClearFeaturePins, ClearStoryPins
<1>2. /\ row' \in [Item -> Row \cup {None}]
      /\ \A i \in Item : row'[i] = row[i] \/ ~AutoRow(i)'
  <2>1. \A i \in Item : row'[i] = row[i] \/ row'[i] = None
    BY <1>1 DEF Unpin, ClearFeaturePins, ClearStoryPins, WithoutPins
  <2>2. row' \in [Item -> Row \cup {None}]
    BY <1>1 DEF Unpin, ClearFeaturePins, ClearStoryPins, WithoutPins
  <2>3. QED
    BY <2>1, <2>2 DEF AutoRow
<1>3. PICK c \in {"written", "half", "otherHalf"} :
        /\ Goes(r, c)
        /\ c # "written" => op[r].kind = "clearPins"
        /\ pc[r] # c /\ pc[r] # "written"
  BY DEF Unpin, ClearFeaturePins, ClearStoryPins, At
<1>4. pc'[r] = c /\ op' = op /\ c \in Control
  BY <1>1, <1>3 DEF Goes, TypeOK, Control
<1>5. \A i \in Item : row'[i] = row[i] \/ op[r].kind = "clearPins" \/ op[r].item = i
  BY <1>1 DEF Unpin, ClearFeaturePins, ClearStoryPins, At
<1>6. ASSUME cache # None, cache.by \notin overlapped PROVE PinsSettle(r)
  BY <1>1, <1>3, <1>4, <1>5, <1>6, FromOther DEF PinsSettle, PinUnsettled
<1>7. CacheKept'
  <2>1. OthersStay(r) /\ RowsSettle(r) /\ UNCHANGED <<status, overlapped>>
    BY <1>1, <1>2, <1>3 DEF Goes, OthersStay, RowsSettle, TypeOK
  <2>2. QED
    BY <1>1, <1>3, <1>6, <2>1, CacheStep
<1>8. QED
  BY <1>1, <1>2, <1>3, <1>7, GoStep DEF CacheKept

LEMMA ClearCacheStep ==
  ASSUME IInv, NEW r \in InFlight, ClearCache(r)
  PROVE  IInv'
  BY EndStep DEF ClearCache, IInv, TypeOK

(* A failure leaves what is unsettled unsettled.                           *)
LEMMA FailStep ==
  ASSUME IInv, NEW r \in InFlight, FailHalfWay(r)
  PROVE  IInv'
<1>1. /\ Goes(r, "failed") /\ UNCHANGED <<row, cache>> /\ "failed" \in Control /\ r \in Request
      /\ row' \in [Item -> Row \cup {None}] /\ pc'[r] = "failed" /\ op' = op
  BY DEF FailHalfWay, Goes, Control, InFlight, IInv, TypeOK
<1>2. PinsSettle(r) /\ RowsSettle(r)
  BY <1>1 DEF PinsSettle, PinUnsettled, RowsSettle
<1>3. CacheKept'
  <2>1. OthersStay(r) /\ UNCHANGED <<status, overlapped>>
    BY <1>1 DEF Goes, OthersStay, IInv, TypeOK
  <2>2. QED
    BY <1>1, <1>2, <2>1, CacheStep
<1>4. QED
  BY <1>1, <1>3, GoStep

----------------------------------------------------------------------------
LEMMA OtherWritersStep ==
  ASSUME IInv, OtherWriters
  PROVE  IInv'
<1> USE DEF IInv
<1>1. Elsewhere
  BY DEF OtherWriters, Delete, SetActive, InvalidateDemand, ResetPlanning, CompleteReplanning
<1>2. UNCHANGED <<op, pc, plan, InFlight>>
  BY <1>1 DEF Elsewhere, InFlight
<1>3. /\ row' \in [Item -> Row \cup {None}]
      /\ \A i \in Item : \/ row'[i] = row[i]
                         \/ row'[i] = None /\ (status'[i] = "gone" \/ cache' = None)
      /\ \A i \in Item : status'[i] = "gone" \/ status[i] # "gone"
      /\ cache' \in {cache, None} /\ status' \in [Item -> {"active", "inactive", "gone"}]
      /\ planning' \in {"CURRENT", "NEEDS_REPLAN"}
      /\ overlapped \subseteq overlapped' /\ overlapped' \subseteq Request
      /\ \/ InFlight \subseteq overlapped'
         \/ \A i \in Item : row'[i] = row[i] \/ (row'[i] = None /\ status'[i] = "gone")
  <2>1. ASSUME NEW j \in Item, Delete(j) PROVE <1>3
    BY <2>1 DEF Delete, TypeOK
  <2>2. ASSUME NEW j \in Item, NEW t \in {"active", "inactive"}, SetActive(j, t) PROVE <1>3
    BY <2>2 DEF SetActive, TypeOK
  <2>3. CASE InvalidateDemand \/ ResetPlanning \/ CompleteReplanning
    BY <2>3 DEF InvalidateDemand, ResetPlanning, CompleteReplanning, TypeOK, InFlight
  <2>4. QED
    BY <2>1, <2>2, <2>3 DEF OtherWriters
<1>4. TypeOK'
  BY <1>2, <1>3 DEF TypeOK
<1>5. ASSUME NEW r \in Request PROVE RequestOK(r)'
  <2> SUFFICES ASSUME r \in InFlight PROVE RequestOK(r)'
    BY <1>2 DEF RequestOK
  <2>1. RequestOK(r)
    OBVIOUS
  <2>2. HalfPinned(r)'
    BY <1>2, <1>3, <2>1 DEF RequestOK, HalfPinned
  <2>3. ASSUME pc[r] = "computed" PROVE PlanApart(r)' /\ InPlace(r)'
    <3>1. PlanApart(r) /\ InPlace(r)
      BY <2>1, <2>3 DEF RequestOK
    <3>2. PlanApart(r)'
      BY <1>2, <3>1 DEF PlanApart
    <3>3. DOMAIN plan[r].pins \subseteq Item /\ plan[r].placed \subseteq Item
      BY <2>3, PlanFound
    <3>4. ASSUME r \notin overlapped', op[r].kind # "draft"
          PROVE  /\ \A i \in DOMAIN plan[r].pins : status'[i] = "gone" \/ row'[i] = Manual(plan[r].pins[i])
                 /\ \A i \in plan[r].placed : ~Pinned(i)'
      <4>1. /\ \A i \in Item : row'[i] = row[i] \/ (row'[i] = None /\ status'[i] = "gone")
            /\ r \notin overlapped
        BY <1>3, <3>4
      <4>2. QED
        BY <1>3, <3>1, <3>3, <3>4, <4>1 DEF InPlace, Pinned
    <3>5. QED
      BY <1>2, <3>2, <3>4 DEF InPlace
  <2>4. QED
    BY <1>2, <2>1, <2>2, <2>3 DEF RequestOK
<1>6. InTurn' /\ Overlaps'
  BY <1>2, <1>3 DEF InTurn, Overlaps
<1>7. CacheKept'
  <2> SUFFICES ASSUME cache' # None PROVE CacheKept'
    BY DEF CacheKept
  <2>1. UNCHANGED cache /\ cache # None /\ cache.placed \cup DOMAIN cache.pins \subseteq Item
    BY <1>3, CacheTyped
  <2>2. FromRows'
    <3>1. FromRows
      BY <2>1 DEF CacheKept
    <3>2. \A q : Unsettled(q) => Unsettled(q)'
      BY <1>2 DEF Unsettled
    <3>3. \A i \in Item : AutoRow(i)' => AutoRow(i) /\ row'[i] = row[i]
      BY <1>3 DEF AutoRow
    <3>4. QED
      BY <2>1, <3>1, <3>2, <3>3 DEF FromRows
  <2>3. ASSUME cache.by \notin overlapped' PROVE KnowsPins'
    <3>1. KnowsPins
      BY <1>3, <2>1, <2>3 DEF CacheKept
    <3>2. \A i : \A q \in Request : PinUnsettled(q, i) => PinUnsettled(q, i)'
      BY <1>2, <2>1 DEF PinUnsettled
    <3>3. \A i \in Item : row'[i] = row[i] \/ status'[i] = "gone"
      BY <1>3, <2>1
    <3>4. QED
      BY ONLY <1>3, <2>1, <3>1, <3>2, <3>3 DEF KnowsPins, Pinned
  <2>4. QED
    BY <1>2, <2>1, <2>2, <2>3 DEF CacheKept
<1>8. QED
  BY <1>4, <1>5, <1>6, <1>7

----------------------------------------------------------------------------
LEMMA StepsInFlight ==
  ASSUME TypeOK, NEW r \in Request, Statement(r)
  PROVE  (\E o \in Op : Begin(r, o)) \/ r \in InFlight
  BY DEF Statement, InFlight, At, Compute, Generate, Refuse, CommitSchedule, ReplaceLevelled, ApplyOptimiser,
         CommitSquad, CommitDraft, PinStory, ClearForPin, PinFeature, Unpin, ClearFeaturePins, ClearStoryPins, ClearCache,
         FailHalfWay

LEMMA StepInv == IInv /\ [Next]_vars => IInv'
<1> SUFFICES ASSUME IInv, [Next]_vars PROVE IInv'
  OBVIOUS
<1>1. ASSUME NEW r \in Request, Statement(r) PROVE IInv'
  <2>1. CASE \E o \in Op : Begin(r, o)
    BY <2>1, BeginStep
  <2>2. CASE r \in InFlight /\ ~\E o \in Op : Begin(r, o)
    BY <1>1, <2>2, ComputeStep, RefuseStep, CommitScheduleStep, ReplaceLevelledStep, ApplyOptimiserStep,
       CommitSquadStep, CommitDraftStep, PinStep, UnpinStep, ClearCacheStep, FailStep DEF Statement
  <2>3. QED
    BY <1>1, <2>1, <2>2, StepsInFlight DEF IInv
<1>2. CASE Next
  BY <1>1, <1>2, OtherWritersStep DEF Next
<1>3. CASE UNCHANGED vars
  BY <1>3 DEF vars, IInv, TypeOK, RequestOK, PlanApart, InPlace, HalfPinned, InTurn, Overlaps, CacheKept, FromRows,
              KnowsPins, Unsettled, PinUnsettled, InFlight, AutoRow, Pinned
<1>4. QED
  BY <1>2, <1>3

LEMMA Invariance == Spec => []IInv
  BY InitInv, StepInv, PTL DEF Spec

(* The cached demand belongs to the stored rows, but for those of a         *)
(* levelling that has not cleared it or failed before, and, when nobody     *)
(* overlapped the request it is from, to the stored pins, but for those     *)
(* a later request has not settled (scheduleProject.ts, timeline.ts,        *)
(* optimiserApplyService.ts, squadPlan.ts).                                 *)
THEOREM SoundCache == Spec => []CacheSound
<1>1. IInv => CacheSound
  BY DEF IInv, CacheSound, CacheOfRows, CacheKnowsPins, CacheKept, FromRows, KnowsPins
<1>2. QED
  BY <1>1, Invariance, PTL

(* A handler that computes a schedule from the stored pins leaves them      *)
(* alone, however it overlaps with others; only POST /timeline/schedule     *)
(* takes a pin, and only one that it did not find (scheduleProject.ts).     *)
THEOREM SurvivingPins == Spec => PinsSurvive
<1>1. ASSUME IInv, [Next]_vars, NEW r \in InFlight, pc'[r] # pc[r], op[r].kind \in Planner,
             NEW i \in Active, Pinned(i), row'[i] # row[i]
      PROVE  /\ op[r].kind = "schedule"
             /\ i \notin DOMAIN plan[r].pins
             /\ r \in overlapped \/ i \in plan[r].inactive
  <2> USE DEF IInv
  <2>1. r \in Request /\ i \in Item /\ pc \in [Request -> Control] /\ op[r].kind \notin {"draft", "clearPins", "unpin", "pin"}
    BY <1>1 DEF InFlight, Active, TypeOK, Planner
  <2>2. PICK q \in Request : Statement(q)
    BY <1>1 DEF Next, vars, OtherWriters, Delete, SetActive, InvalidateDemand, ResetPlanning, CompleteReplanning, Elsewhere
  <2>3. \/ CommitSchedule(q) \/ ReplaceLevelled(q) \/ ApplyOptimiser(q) \/ CommitSquad(q) \/ CommitDraft(q)
        \/ PinStory(q) \/ PinFeature(q) \/ Unpin(q) \/ ClearFeaturePins(q) \/ ClearStoryPins(q)
    BY <1>1, <2>2 DEF Statement, Begin, Compute, Generate, Computes, project, Refuse, ClearForPin, ClearCache, FailHalfWay
  <2>4. \E c \in Control : pc' = [pc EXCEPT ![q] = c]
    BY <2>3 DEF CommitSchedule, ReplaceLevelled, ApplyOptimiser, CommitSquad, CommitDraft, PinStory, PinFeature,
                Unpin, ClearFeaturePins, ClearStoryPins, Goes, Ends, Control
  <2>5. q = r
    BY <1>1, <2>1, <2>4
  <2>6. CommitSchedule(r) \/ ReplaceLevelled(r) \/ ApplyOptimiser(r) \/ CommitSquad(r)
    BY <2>1, <2>3, <2>5 DEF CommitDraft, PinStory, PinFeature, Unpin, ClearFeaturePins, ClearStoryPins, At
  <2>7. \A S : row' = ReplacedRows(r, S) => row'[i] = row[i]
    BY <1>1, <2>1 DEF ReplacedRows
  <2>8. CommitSchedule(r)
    BY <1>1, <2>6, <2>7 DEF ReplaceLevelled, ApplyOptimiser, CommitSquad
  <2>9. pc[r] = "computed" /\ op[r].kind = "schedule" /\ row' = UpsertedRows(r)
    BY <1>1, <2>8 DEF CommitSchedule, At
  <2>10. i \in plan[r].inactive \/ i \in plan[r].placed
    BY <1>1, <2>1, <2>9 DEF UpsertedRows, Pinned
  <2>11. i \in plan[r].placed => r \in overlapped
    BY <1>1, <2>9, PlanStands
  <2>12. i \notin DOMAIN plan[r].pins
    BY <1>1, <2>9, <2>10, PlanFound
  <2>13. QED
    BY <2>9, <2>10, <2>11, <2>12
<1>2. ASSUME IInv, [Next]_vars PROVE KeepsPins
  BY <1>1, <1>2 DEF KeepsPins
<1>3. QED
  BY <1>2, Invariance, PTL DEF Spec, PinsSurvive
=============================================================================
