----------------------- MODULE PlanActivation_proofs -----------------------
(* That reviewed plans are applied to what was reviewed, one plan is       *)
(* active, and activations can be undone exactly, for any number of        *)
(* requests, contents, commits, attempts and snapshots kept.               *)
EXTENDS PlanActivation, SequenceTheorems, TLAPS

Snap == [by : Request \cup {None}, saved : Fingerprint]
Job == [setActive : BOOLEAN, proof : Fingerprint \cup {None}, began : State, seen : State,
        tries : 0..MaxRetries]
Parts == {"content", "plans"}

Typed ==
  /\ {state, swaps, reviews} \subseteq State /\ swaps <= state /\ reviews <= state
  /\ past \in [State -> Fingerprint]
  /\ origin \in [Request -> Origin]
  /\ snapshots \in Seq(Snap)
  /\ pc \in [Request -> Control]
  /\ job \in [Request -> Job]

(* Only what has committed has a plan, in any state or snapshot.           *)
Committed == {r \in Request : pc[r] \in {"applied", "done", "failed"}}

(* Who is active has been since the last swap, and a reviewed plan has     *)
(* been stored since the last swap and the last review.                    *)
SwapsKept ==
  \A k \in swaps..state :
    /\ past[k].plans.active = Now.plans.active
    /\ reviews <= k => \A p \in Now.plans.stored : origin[p].proof # None => p \in past[k].plans.stored

OneActive(S) == \A p, q \in S : p = q

PlansOK ==
  /\ \A k \in State : past[k].plans.stored \subseteq Committed /\ OneActive(past[k].plans.active)
  /\ \A i \in DOMAIN snapshots :
       /\ snapshots[i].saved.plans.stored \subseteq Committed
       /\ OneActive(snapshots[i].saved.plans.active)

(* A plan does not rest on a state that had it, and its snapshot is of     *)
(* what it rests on, but for what came back.                               *)
OriginOK(p) ==
  /\ origin[p].base <= state
  /\ origin[p].proof # None =>
     /\ p \in Committed /\ p \notin origin[p].proof.plans.stored
     /\ \A i \in DOMAIN snapshots : snapshots[i].by = p =>
          \A part \in Parts : snapshots[i].saved[part] = origin[p].proof[part] \/ CameBack(p, part)

(* Between first and last a part was as the proof says, and then as read.  *)
ReadAfter(r, part, read, last) ==
  \E i, k \in job[r].began..last :
    i <= k /\ past[i][part] = job[r].proof[part] /\ past[k][part] = read[part]

(* What a request holds fits what there is: its proof was met when it was  *)
(* verified, and its snapshot was read after that and before its           *)
(* transaction.                                                            *)
RequestOK(r) ==
  /\ job[r].began <= state /\ job[r].seen <= state
  /\ job[r].proof # None => job[r].proof.plans.stored \subseteq Committed
  /\ pc[r] \in {"verified", "checked"} /\ job[r].proof # None =>
       \A part \in Parts :
         \E i \in job[r].began..job[r].seen : past[i][part] = job[r].proof[part]
  /\ \A i \in DOMAIN snapshots : snapshots[i].by = r =>
       /\ pc[r] \in {"ready", "open", "conflict", "applied", "done", "failed"}
       /\ pc[r] \in {"ready", "open"} /\ job[r].proof # None =>
            \A part \in Parts :
              ReadAfter(r, part, snapshots[i].saved, IF pc[r] = "open" THEN job[r].seen ELSE state)

OneSnapshotEach ==
  \A i, j \in DOMAIN snapshots :
    snapshots[i].by = snapshots[j].by /\ snapshots[i].by # None => i = j

IInv ==
  /\ Typed /\ SwapsKept /\ PlansOK /\ OneSnapshotEach
  /\ \A p \in Request : OriginOK(p)
  /\ \A r \in Request : RequestOK(r)

----------------------------------------------------------------------------
LEMMA StateIsNat == State \subseteq Nat /\ 0 \in State /\ \A k \in State : 0..k \subseteq State
  BY ActivationAssumption DEF State

LEMMA FreshIsJob == Fresh \in Job
  BY StateIsNat, ActivationAssumption DEF Fresh, Job

LEMMA SnapshotTyped ==
  ASSUME Typed, NEW i \in DOMAIN snapshots
  PROVE  snapshots[i] \in Snap
<1>1. snapshots \in Seq(Snap)
  BY DEF Typed
<1>2. QED
  BY <1>1, LenProperties, ElementOfSeq

(* What is read in pieces is a planning state, each part of which was so   *)
(* at a moment of the reading.                                             *)
LEMMA ReadInPieces ==
  ASSUME Typed, NEW first \in State, NEW last \in State, NEW read \in ReadBetween(first, last)
  PROVE  /\ read \in Fingerprint
         /\ \A part \in Parts : \E i \in first..last : read[part] = past[i][part]
         /\ \E k \in first..last : read.plans = past[k].plans
<1>1. PICK i \in first..last, k \in first..last :
        read = [content |-> past[i].content, plans |-> past[k].plans]
  BY DEF ReadBetween
<1>2. i \in State /\ k \in State
  BY ActivationAssumption DEF State
<1>3. past[i] \in Fingerprint /\ past[k] \in Fingerprint
  BY <1>2 DEF Typed
<1>4. read["content"] = past[i]["content"] /\ read["plans"] = past[k]["plans"] /\ read.plans = past[k].plans
  BY <1>1
<1>5. QED
  BY <1>1, <1>3, <1>4 DEF Parts, Fingerprint

LEMMA InitInv == Init => IInv
<1> SUFFICES ASSUME Init PROVE IInv
  OBVIOUS
<1>1. DOMAIN snapshots = {} /\ snapshots \in Seq(Snap)
  BY EmptySeq DEF Init
<1>2. /\ \A k \in State : past[k].plans.stored = {} /\ past[k].plans.active = {}
      /\ \A p \in Request : origin[p].proof = None /\ origin[p].base = 0
      /\ state = 0 /\ swaps = 0 /\ reviews = 0 /\ 0 \in State
  BY StateIsNat DEF Init, NoPlans
<1>3. Typed
  <2>1. past \in [State -> Fingerprint]
    BY ActivationAssumption DEF Init, NoPlans, Fingerprint, Plans
  <2>2. origin \in [Request -> Origin]
    BY StateIsNat DEF Init, Origin
  <2>3. pc \in [Request -> Control] /\ job \in [Request -> Job]
    BY FreshIsJob DEF Init, Control
  <2>4. QED
    BY <1>1, <1>2, <2>1, <2>2, <2>3 DEF Typed
<1>4. \A r \in Request : RequestOK(r)
  BY <1>1, <1>2 DEF Init, RequestOK, Fresh
<1>5. SwapsKept /\ PlansOK /\ OneSnapshotEach
  <2>1. \A k \in swaps..state : k \in State
    BY <1>2
  <2>2. Now.plans.stored = {} /\ Now.plans.active = {}
    BY <1>2 DEF Now
  <2>3. QED
    BY <1>1, <1>2, <2>1, <2>2 DEF SwapsKept, PlansOK, OneActive, OneSnapshotEach
<1>6. \A p \in Request : OriginOK(p)
  BY <1>1, <1>2 DEF OriginOK
<1>7. QED
  BY <1>3, <1>4, <1>5, <1>6 DEF IInv

----------------------------------------------------------------------------
(* A step of one request that writes nothing is sound if it leaves the     *)
(* request sound.                                                          *)
LEMMA OwnStep ==
  ASSUME IInv, NEW r \in Request, NEW c \in Control, NEW j \in Job,
         Goes(r, c), job' = [job EXCEPT ![r] = j], UNCHANGED <<project, snapshots>>,
         r \in Committed => r \in Committed', RequestOK(r)'
  PROVE  IInv'
<1> USE DEF IInv
<1>1. /\ pc' \in [Request -> Control] /\ job' \in [Request -> Job]
      /\ \A q \in Request \ {r} : pc'[q] = pc[q] /\ job'[q] = job[q]
  BY DEF Goes, Typed
<1>2. UNCHANGED <<state, past, origin, swaps, reviews, snapshots, Now>>
  BY DEF project, Now
<1>3. Committed \subseteq Committed'
  BY <1>1 DEF Committed
<1>4. Typed'
  BY <1>1, <1>2 DEF Typed
<1>5. SwapsKept' /\ OneSnapshotEach'
  BY <1>2 DEF SwapsKept, OneSnapshotEach
<1>6. PlansOK'
  BY <1>2, <1>3 DEF PlansOK, OneActive
<1>7. \A p \in Request : OriginOK(p)'
  BY <1>2, <1>3 DEF OriginOK, CameBack
<1>8. \A q \in Request \ {r} : RequestOK(q)'
  BY <1>1, <1>2, <1>3 DEF RequestOK, ReadAfter
<1>9. QED
  BY <1>4, <1>5, <1>6, <1>7, <1>8

(* Everything a request does before it commits or takes a snapshot.        *)
LEMMA QuietStep ==
  ASSUME IInv, NEW r \in Request,
         \/ \E setActive \in BOOLEAN, proof \in Signed \cup {None} : Begin(r, setActive, proof)
         \/ VerifyProof(r) \/ Preflight(r) \/ Refuse(r) \/ Fail(r)
         \/ Open(r) \/ Conflict(r) \/ SerializationFailure(r)
  PROVE  IInv'
<1> USE DEF IInv
<1>1. job \in [Request -> Job] /\ pc \in [Request -> Control] /\ job[r] \in Job /\ RequestOK(r) /\ Typed
  BY DEF Typed
<1>2. state \in State /\ state \in Nat /\ state <= state
  <2>1. state \in State /\ state \in Nat
    BY StateIsNat DEF Typed
  <2>2. QED
    BY <2>1
<1>3. UNCHANGED <<project, snapshots>>
  BY DEF Begin, VerifyProof, Preflight, Refuse, Fail, Open, Conflict, SerializationFailure
<1>4. UNCHANGED <<state, past, snapshots>>
  BY <1>3 DEF project
<1>5. job[r].began \in Nat /\ job[r].seen \in Nat /\ job[r].began <= state /\ job[r].seen <= state
  BY <1>1, StateIsNat DEF Job, RequestOK
<1>6. r \in Committed => pc[r] \in {"applied", "done", "failed"}
  BY DEF Committed
<1>7. ASSUME NEW c \in Control, Goes(r, c), c # "unborn",
             pc[r] = "applied" => c = "failed", pc[r] \notin {"done", "failed"}
      PROVE  /\ pc' \in [Request -> Control] /\ pc'[r] = c
             /\ Committed \subseteq Committed'
  BY <1>1, <1>7 DEF Goes, Committed
<1>8. CASE \E setActive \in BOOLEAN, proof \in Signed \cup {None} : Begin(r, setActive, proof)
  <2>1. PICK setActive \in BOOLEAN, proof \in Signed \cup {None} : Begin(r, setActive, proof)
    BY <1>8
  <2> DEFINE j == [job[r] EXCEPT !.setActive = setActive, !.proof = proof, !.began = state]
  <2>2. proof # None => proof \in Fingerprint /\ proof.plans.stored \subseteq Committed
    <3> SUFFICES ASSUME proof # None PROVE proof \in Fingerprint /\ proof.plans.stored \subseteq Committed
      OBVIOUS
    <3>1. proof \in ReadBetween(0, state)
      BY DEF Signed
    <3>2. proof \in Fingerprint /\ \E k \in 0..state : proof.plans = past[k].plans
      BY <1>1, <1>2, <3>1, ReadInPieces, StateIsNat
    <3>3. QED
      BY <1>2, <3>2, StateIsNat DEF PlansOK
  <2>3. j \in Job /\ j.proof = proof /\ j.began = state /\ j.seen = job[r].seen
    BY <1>1, <1>2, <2>2 DEF Job
  <2>4. job' = [job EXCEPT ![r] = j] /\ job'[r] = j
    BY <2>1, <1>1 DEF Begin
  <2>5. pc[r] = "unborn" /\ Goes(r, "begun") /\ "begun" \in Control
    BY <2>1 DEF Begin, Control
  <2>6. pc'[r] = "begun" /\ Committed \subseteq Committed'
    BY <1>7, <2>5
  <2> HIDE DEF j
  <2>7. RequestOK(r)'
    BY <1>1, <1>2, <1>4, <1>5, <2>2, <2>3, <2>4, <2>5, <2>6 DEF RequestOK
  <2>8. QED
    BY <1>3, <2>3, <2>4, <2>5, <2>6, <2>7, OwnStep
<1>9. CASE VerifyProof(r)
  <2> DEFINE j == [job[r] EXCEPT !.seen = state]
  <2>1. j \in Job /\ j.proof = job[r].proof /\ j.began = job[r].began /\ j.seen = state
    BY <1>1, <1>2 DEF Job
  <2>2. job' = [job EXCEPT ![r] = j] /\ job'[r] = j /\ pc[r] = "begun" /\ Goes(r, "verified")
    BY <1>1, <1>9 DEF VerifyProof
  <2>3. pc'[r] = "verified" /\ Committed \subseteq Committed' /\ "verified" \in Control
    BY <1>7, <2>2 DEF Control
  <2>4. job[r].proof # None =>
          \A part \in Parts : \E i \in job[r].began..state : job[r].proof[part] = past[i][part]
    <3>1. job[r].began \in State
      BY <1>1 DEF Job
    <3>2. QED
      BY <1>1, <1>2, <1>9, <3>1, ReadInPieces DEF VerifyProof
  <2> HIDE DEF j
  <2>5. RequestOK(r)'
    BY <1>1, <1>2, <1>4, <1>5, <2>1, <2>2, <2>3, <2>4 DEF RequestOK
  <2>6. QED
    BY <1>3, <2>1, <2>2, <2>3, <2>5, OwnStep
<1>10. CASE Preflight(r)
  <2>1. job' = [job EXCEPT ![r] = job[r]] /\ job'[r] = job[r]
    BY <1>1, <1>10 DEF Preflight
  <2>2. PICK c \in {"checked", "ready"} : Goes(r, c)
    BY <1>10 DEF Preflight
  <2>3. pc[r] = "verified" /\ c \in Control
    BY <1>10 DEF Preflight, Control
  <2>4. pc'[r] = c /\ Committed \subseteq Committed'
    BY <1>7, <2>2, <2>3
  <2>5. RequestOK(r)'
    BY <1>1, <1>4, <2>1, <2>3, <2>4 DEF RequestOK
  <2>6. QED
    BY <1>1, <1>3, <2>1, <2>2, <2>3, <2>4, <2>5, OwnStep
<1>11. ASSUME NEW c \in {"refused", "failed", "conflict"}, Over(r, c),
              c = "refused" => pc[r] \in {"begun", "verified"},
              c = "conflict" => pc[r] = "open",
              c = "failed" => pc[r] \in {"ready", "open", "conflict", "applied"}
       PROVE  IInv'
  <2>1. job'[r] = Fresh /\ Goes(r, c) /\ job' = [job EXCEPT ![r] = Fresh] /\ c \in Control
    BY <1>1, <1>11 DEF Over, Control, Ended
  <2>2. pc'[r] = c /\ Committed \subseteq Committed'
    BY <1>7, <1>11, <2>1
  <2>3. RequestOK(r)'
    BY <1>1, <1>2, <1>4, <1>11, <2>1, <2>2 DEF RequestOK, Fresh
  <2>4. QED
    BY <1>3, <2>1, <2>2, <2>3, FreshIsJob, OwnStep
<1>12. CASE Refuse(r) \/ Fail(r) \/ Conflict(r)
  BY <1>11, <1>12 DEF Refuse, Fail, Conflict
<1>13. CASE Open(r)
  <2> DEFINE j == [job[r] EXCEPT !.seen = state]
  <2>1. j \in Job /\ j.proof = job[r].proof /\ j.began = job[r].began /\ j.seen = state
    BY <1>1, <1>2 DEF Job
  <2>2. job' = [job EXCEPT ![r] = j] /\ job'[r] = j /\ pc[r] = "ready" /\ Goes(r, "open")
    BY <1>1, <1>13 DEF Open
  <2>3. pc'[r] = "open" /\ Committed \subseteq Committed' /\ "open" \in Control
    BY <1>7, <2>2 DEF Control
  <2> HIDE DEF j
  <2>4. RequestOK(r)'
    BY <1>1, <1>2, <1>4, <2>1, <2>2, <2>3 DEF RequestOK, ReadAfter
  <2>5. QED
    BY <1>3, <2>1, <2>2, <2>3, <2>4, OwnStep
<1>14. CASE SerializationFailure(r)
  <2>1. CASE Over(r, "conflict")
    BY <1>11, <1>14, <2>1 DEF SerializationFailure
  <2>2. CASE job[r].tries < MaxRetries /\ Goes(r, "ready") /\ job' = [job EXCEPT ![r].tries = @ + 1]
    <3> DEFINE j == [job[r] EXCEPT !.tries = @ + 1]
    <3>1. j \in Job /\ j.proof = job[r].proof /\ j.began = job[r].began /\ j.seen = job[r].seen
      BY <1>1, <2>2, ActivationAssumption DEF Job
    <3>2. job' = [job EXCEPT ![r] = j] /\ job'[r] = j /\ pc[r] = "open"
      BY <1>1, <1>14, <2>2 DEF SerializationFailure
    <3>3. pc'[r] = "ready" /\ Committed \subseteq Committed' /\ "ready" \in Control
      BY <1>7, <2>2, <3>2 DEF Control
    <3>4. \A part, read : ReadAfter(r, part, read, job[r].seen) => ReadAfter(r, part, read, state)
      BY <1>2, <1>5 DEF ReadAfter
    <3> HIDE DEF j
    <3>5. RequestOK(r)'
      <4>1. \A part, read : ReadAfter(r, part, read, state) => ReadAfter(r, part, read, state)'
        BY <1>4, <3>1, <3>2 DEF ReadAfter
      <4>2. ASSUME NEW i \in DOMAIN snapshots', snapshots'[i].by = r, job'[r].proof # None, NEW part \in Parts
            PROVE  ReadAfter(r, part, snapshots[i].saved, state)'
        BY <1>1, <1>4, <3>1, <3>2, <3>4, <4>1, <4>2 DEF RequestOK
      <4>3. QED
        BY <1>1, <1>4, <3>1, <3>2, <3>3, <4>2 DEF RequestOK
    <3>6. QED
      BY <1>3, <2>2, <3>1, <3>2, <3>3, <3>5, OwnStep
  <2>3. QED
    BY <1>14, <2>1, <2>2 DEF SerializationFailure
<1>15. QED
  BY <1>8, <1>9, <1>10, <1>12, <1>13, <1>14

----------------------------------------------------------------------------
LEMMA NewestPart ==
  ASSUME NEW S, NEW s \in Seq(S)
  PROVE  /\ Newest(s) \in Seq(S)
         /\ \E k \in Nat : \A i \in DOMAIN Newest(s) : i + k \in DOMAIN s /\ Newest(s)[i] = s[i + k]
<1>1. Len(s) \in Nat /\ DOMAIN s = 1 .. Len(s) /\ \A i \in 1 .. Len(s) : s[i] \in S
  BY LenProperties, ElementOfSeq
<1> DEFINE m == IF Len(s) > Keep THEN Len(s) - Keep + 1 ELSE 1
<1>2. m \in Nat \ {0} /\ m \in Int /\ Len(s) \in Int
  BY <1>1, ActivationAssumption
<1> HIDE DEF m
<1>3. \A i \in m .. Len(s) : s[i] \in S
  BY <1>1, <1>2
<1>4. /\ SubSeq(s, m, Len(s)) \in Seq(S)
      /\ Len(SubSeq(s, m, Len(s))) = IF m <= Len(s) THEN Len(s) - m + 1 ELSE 0
      /\ \A i \in 1 .. Len(s) - m + 1 : SubSeq(s, m, Len(s))[i] = s[m + i - 1]
  BY <1>2, <1>3, SubSeqProperties
<1>5. Newest(s) = SubSeq(s, m, Len(s))
  BY DEF Newest, m
<1>6. DOMAIN Newest(s) = 1 .. Len(Newest(s))
  BY <1>4, <1>5, LenProperties
<1>7. m - 1 \in Nat /\ \A i \in DOMAIN Newest(s) : i + (m - 1) \in DOMAIN s /\ Newest(s)[i] = s[i + (m - 1)]
  BY <1>1, <1>2, <1>4, <1>5, <1>6
<1>8. QED
  BY <1>4, <1>5, <1>7

(* Snapshots go: what holds of all of them holds of those that stay.       *)
LEMMA FewerSnapshots ==
  ASSUME IInv, NEW r \in Request,
         pc[r] \in {"conflict", "applied"}, Over(r, IF pc[r] = "conflict" THEN "refused" ELSE "done"),
         UNCHANGED project, snapshots' \in Seq(Snap),
         pc[r] = "conflict" => \A i \in DOMAIN snapshots' : snapshots'[i].by # r,
         NEW f \in [DOMAIN snapshots' -> DOMAIN snapshots],
         \A i, j \in DOMAIN snapshots' : f[i] = f[j] => i = j,
         \A i \in DOMAIN snapshots' : snapshots'[i] = snapshots[f[i]]
  PROVE  IInv'
<1> USE DEF IInv
<1>1. UNCHANGED <<state, past, origin, swaps, reviews, Now>>
  BY DEF project, Now
<1>2. /\ pc' \in [Request -> Control] /\ job' \in [Request -> Job] /\ job'[r] = Fresh
      /\ pc'[r] = IF pc[r] = "conflict" THEN "refused" ELSE "done"
      /\ \A q \in Request \ {r} : pc'[q] = pc[q] /\ job'[q] = job[q]
  BY FreshIsJob DEF Over, Goes, Typed, Control, Ended
<1>3. Committed \subseteq Committed'
  BY <1>2 DEF Committed
<1>4. Typed'
  BY <1>1, <1>2 DEF Typed
<1>5. \A q \in Request \ {r} : RequestOK(q)'
  BY <1>1, <1>2, <1>3 DEF RequestOK, ReadAfter
<1>6. RequestOK(r)'
  <2>1. state \in Nat /\ 0 <= state
    <3>1. state \in Nat
      BY StateIsNat DEF Typed
    <3>2. QED
      BY <3>1
  <2>2. QED
    BY <1>1, <1>2, <2>1 DEF RequestOK, Fresh
<1>7. PlansOK'
  BY <1>1, <1>3 DEF PlansOK, OneActive
<1>8. OneSnapshotEach' /\ SwapsKept'
  BY <1>1 DEF OneSnapshotEach, SwapsKept
<1>9. \A p \in Request : OriginOK(p)'
  BY <1>1, <1>3 DEF OriginOK, CameBack
<1>10. QED
  BY <1>4, <1>5, <1>6, <1>7, <1>8, <1>9

LEMMA PruneStep ==
  ASSUME IInv, NEW r \in Request, Prune(r)
  PROVE  IInv'
<1>1. snapshots \in Seq(Snap)
  BY DEF IInv, Typed
<1>2. snapshots' = Newest(snapshots)
  BY DEF Prune
<1>3. snapshots' \in Seq(Snap)
  BY <1>1, <1>2, NewestPart
<1>4. PICK k \in Nat : \A i \in DOMAIN snapshots' :
                        i + k \in DOMAIN snapshots /\ snapshots'[i] = snapshots[i + k]
  BY <1>1, <1>2, NewestPart
<1>5. DOMAIN snapshots' \subseteq Nat
  BY <1>3, LenProperties
<1> DEFINE f == [i \in DOMAIN snapshots' |-> i + k]
<1>6. /\ f \in [DOMAIN snapshots' -> DOMAIN snapshots]
      /\ \A i, j \in DOMAIN snapshots' : f[i] = f[j] => i = j
      /\ \A i \in DOMAIN snapshots' : snapshots'[i] = snapshots[f[i]]
  BY <1>4, <1>5
<1> HIDE DEF f
<1>7. QED
  BY <1>3, <1>6, FewerSnapshots DEF Prune

LEMMA RemovedPart ==
  ASSUME NEW S, NEW s \in Seq(S), NEW i \in DOMAIN s
  PROVE  /\ RemoveAt(s, i) \in Seq(S)
         /\ \A j \in DOMAIN RemoveAt(s, i) :
              LET k == IF j < i THEN j ELSE j + 1
              IN  k \in DOMAIN s \ {i} /\ RemoveAt(s, i)[j] = s[k]
<1>1. Len(s) \in Nat /\ DOMAIN s = 1 .. Len(s) /\ \A j \in 1 .. Len(s) : s[j] \in S
  BY LenProperties, ElementOfSeq
<1>2. /\ SubSeq(s, 1, i - 1) \in Seq(S) /\ Len(SubSeq(s, 1, i - 1)) = i - 1
      /\ \A j \in 1 .. i - 1 : SubSeq(s, 1, i - 1)[j] = s[j]
  <2>1. 1 \in Int /\ i - 1 \in Int /\ \A j \in 1 .. i - 1 : s[j] \in S
    BY <1>1
  <2>2. QED
    BY <1>1, <2>1, SubSeqProperties
<1>3. /\ SubSeq(s, i + 1, Len(s)) \in Seq(S) /\ Len(SubSeq(s, i + 1, Len(s))) = Len(s) - i
      /\ \A j \in 1 .. Len(s) - i : SubSeq(s, i + 1, Len(s))[j] = s[i + j]
  <2>1. i + 1 \in Int /\ Len(s) \in Int /\ \A j \in i + 1 .. Len(s) : s[j] \in S
    BY <1>1
  <2>2. /\ SubSeq(s, i + 1, Len(s)) \in Seq(S)
        /\ Len(SubSeq(s, i + 1, Len(s))) = IF i + 1 <= Len(s) THEN Len(s) - (i + 1) + 1 ELSE 0
        /\ \A j \in 1 .. Len(s) - (i + 1) + 1 : SubSeq(s, i + 1, Len(s))[j] = s[(i + 1) + j - 1]
    BY <2>1, SubSeqProperties
  <2>3. /\ Len(s) - (i + 1) + 1 = Len(s) - i /\ i <= Len(s)
        /\ \A j \in 1 .. Len(s) - i : j \in Int /\ (i + 1) + j - 1 = i + j
    BY <1>1
  <2>4. Len(SubSeq(s, i + 1, Len(s))) = Len(s) - i
    BY <1>1, <2>2, <2>3
  <2>5. \A j \in 1 .. Len(s) - i : SubSeq(s, i + 1, Len(s))[j] = s[i + j]
    BY <2>2, <2>3, Zenon
  <2>6. QED
    BY <2>2, <2>4, <2>5
<1>4. /\ RemoveAt(s, i) \in Seq(S) /\ Len(RemoveAt(s, i)) = Len(s) - 1
      /\ \A j \in 1 .. Len(s) - 1 : RemoveAt(s, i)[j] = IF j < i THEN s[j] ELSE s[j + 1]
  <2> DEFINE a == SubSeq(s, 1, i - 1)
             b == SubSeq(s, i + 1, Len(s))
  <2>1. /\ a \o b \in Seq(S) /\ Len(a \o b) = Len(a) + Len(b)
        /\ \A j \in 1 .. Len(a) + Len(b) : (a \o b)[j] = IF j <= Len(a) THEN a[j] ELSE b[j - Len(a)]
    BY <1>2, <1>3, ConcatProperties
  <2>2. RemoveAt(s, i) = a \o b
    BY DEF RemoveAt
  <2>3. /\ Len(a) = i - 1 /\ Len(b) = Len(s) - i
        /\ \A j \in 1 .. i - 1 : a[j] = s[j]
        /\ \A j \in 1 .. Len(s) - i : b[j] = s[i + j]
    BY <1>2, <1>3
  <2> HIDE DEF a, b
  <2>4. Len(a) + Len(b) = Len(s) - 1
    BY <1>1, <2>3
  <2>5. ASSUME NEW j \in 1 .. Len(s) - 1
        PROVE  (a \o b)[j] = IF j < i THEN s[j] ELSE s[j + 1]
    <3>1. (a \o b)[j] = IF j <= i - 1 THEN a[j] ELSE b[j - (i - 1)]
      BY <2>1, <2>3, <2>4
    <3>2. CASE j < i
      BY <1>1, <2>3, <3>1, <3>2
    <3>3. CASE ~(j < i)
      <4>1. j - (i - 1) \in 1 .. Len(s) - i /\ i + (j - (i - 1)) = j + 1 /\ ~(j <= i - 1)
        BY <1>1, <3>3
      <4>2. QED
        BY <2>3, <3>1, <3>3, <4>1
    <3>4. QED
      BY <3>2, <3>3
  <2>6. QED
    BY <2>1, <2>2, <2>4, <2>5
<1>5. DOMAIN RemoveAt(s, i) = 1 .. Len(s) - 1
  BY <1>4, LenProperties
<1>6. QED
  BY <1>1, <1>4, <1>5

LEMMA CompensateStep ==
  ASSUME IInv, NEW r \in Request, Compensate(r)
  PROVE  IInv'
<1>1. /\ snapshots \in Seq(Snap) /\ DOMAIN snapshots \subseteq Nat
      /\ OneSnapshotEach /\ r # None
  BY LenProperties, ActivationAssumption DEF IInv, Typed
<1>2. CASE UNCHANGED snapshots /\ \A i \in DOMAIN snapshots : snapshots[i].by # r
  <2> DEFINE f == [i \in DOMAIN snapshots |-> i]
  <2>1. /\ f \in [DOMAIN snapshots' -> DOMAIN snapshots]
        /\ \A i, j \in DOMAIN snapshots' : f[i] = f[j] => i = j
        /\ \A i \in DOMAIN snapshots' : snapshots'[i] = snapshots[f[i]]
    BY <1>2
  <2>2. QED
    BY <1>1, <1>2, <2>1, FewerSnapshots DEF Compensate
<1>3. ASSUME NEW i \in DOMAIN snapshots, snapshots[i].by = r, snapshots' = RemoveAt(snapshots, i)
      PROVE  IInv'
  <2> DEFINE f == [j \in DOMAIN snapshots' |-> IF j < i THEN j ELSE j + 1]
  <2>1. /\ snapshots' \in Seq(Snap)
        /\ \A j \in DOMAIN snapshots' :
             f[j] \in DOMAIN snapshots \ {i} /\ snapshots'[j] = snapshots[f[j]]
    BY <1>1, <1>3, RemovedPart
  <2>2. DOMAIN snapshots' \subseteq Nat
    BY <2>1, LenProperties
  <2>3. \A j, k \in DOMAIN snapshots' : f[j] = f[k] => j = k
    BY <1>1, <2>2
  <2>4. f \in [DOMAIN snapshots' -> DOMAIN snapshots]
    BY <2>1
  <2>5. \A j \in DOMAIN snapshots' : snapshots'[j].by # r
    BY <1>1, <1>3, <2>1 DEF OneSnapshotEach
  <2> HIDE DEF f
  <2>6. QED
    BY <2>1, <2>3, <2>4, <2>5, FewerSnapshots DEF Compensate
<1>4. QED
  BY <1>2, <1>3 DEF Compensate

----------------------------------------------------------------------------
(* What was stays as it was, and what has committed has committed.         *)
Onward ==
  /\ state' \in State /\ state <= state'
  /\ past' \in [State -> Fingerprint]
  /\ \A k \in 0..state : past'[k] = past[k]
  /\ Committed \subseteq Committed'

OldSnapshots(r) ==
  \A i \in DOMAIN snapshots' : snapshots'[i].by = r =>
    \E j \in DOMAIN snapshots : snapshots'[i] = snapshots[j]

LEMMA MovesOn ==
  ASSUME IInv, NEW content \in Content, NEW plans \in Plans, Moves(content, plans)
  PROVE  /\ state' \in State /\ state < state' /\ state <= state' /\ state' = state + 1
         /\ past' \in [State -> Fingerprint]
         /\ \A k \in 0..state : past'[k] = past[k]
         /\ \A k \in State : past'[k] = past[k] \/ past'[k].plans = plans
         /\ Now'.plans = plans
<1>1. state \in Nat /\ state + 1 \in State /\ past \in [State -> Fingerprint]
  BY ActivationAssumption DEF IInv, Typed, Moves, State
<1>2. [content |-> content, plans |-> plans] \in Fingerprint
  BY DEF Fingerprint
<1>3. /\ past' \in [State -> Fingerprint] /\ past'[state + 1] = [content |-> content, plans |-> plans]
      /\ \A k \in State : k # state + 1 => past'[k] = past[k]
  BY <1>1, <1>2 DEF Moves
<1>4. \A k \in 0..state : k \in State /\ k # state + 1
  BY <1>1, StateIsNat DEF IInv, Typed
<1>5. state' = state + 1
  BY DEF Moves
<1>6. Now' = past'[state + 1]
  BY <1>5 DEF Now
<1>7. QED
  BY <1>1, <1>3, <1>4, <1>5, <1>6

(* A request that does nothing stays sound.                                *)
LEMMA Bystander ==
  ASSUME IInv, Onward, NEW r \in Request, pc'[r] = pc[r], job'[r] = job[r], OldSnapshots(r)
  PROVE  RequestOK(r)'
<1>1. RequestOK(r) /\ job[r] \in Job /\ {state, state', job[r].began, job[r].seen} \subseteq Nat
  BY StateIsNat DEF IInv, Typed, Job, Onward
<1>2. \A i \in job[r].began..state : past'[i] = past[i] /\ i <= state' /\ i <= state
  BY <1>1 DEF Onward
<1>3. job'[r].began <= state' /\ job'[r].seen <= state'
  BY <1>1 DEF Onward, RequestOK
<1>4. job'[r].proof # None => job'[r].proof.plans.stored \subseteq Committed'
  BY <1>1 DEF Onward, RequestOK
<1>5. ASSUME pc'[r] \in {"verified", "checked"}, job'[r].proof # None, NEW part \in Parts
      PROVE  \E i \in job'[r].began..job'[r].seen : past'[i][part] = job'[r].proof[part]
  <2>1. PICK i \in job[r].began..job[r].seen : past[i][part] = job[r].proof[part]
    BY <1>1, <1>5 DEF RequestOK
  <2>2. i \in job[r].began..state
    BY <1>1, <2>1 DEF RequestOK
  <2>3. QED
    BY <1>2, <2>1, <2>2
<1>6. ASSUME NEW part \in Parts, NEW read, NEW last \in Nat, last <= state, NEW then \in Nat, last <= then,
             ReadAfter(r, part, read, last)
      PROVE  \E i, k \in job'[r].began..then :
               i <= k /\ past'[i][part] = job'[r].proof[part] /\ past'[k][part] = read[part]
  <2>1. PICK i, k \in job[r].began..last :
          i <= k /\ past[i][part] = job[r].proof[part] /\ past[k][part] = read[part]
    BY <1>6 DEF ReadAfter
  <2>2. i \in job[r].began..then /\ k \in job[r].began..then /\ i \in job[r].began..state /\ k \in job[r].began..state
    BY <1>1, <1>6, <2>1
  <2>3. QED
    BY <1>2, <2>1, <2>2
<1>7. ASSUME NEW i \in DOMAIN snapshots', snapshots'[i].by = r
      PROVE  /\ pc'[r] \in {"ready", "open", "conflict", "applied", "done", "failed"}
             /\ pc'[r] \in {"ready", "open"} /\ job'[r].proof # None =>
                  \A part \in Parts :
                    ReadAfter(r, part, snapshots[i].saved, IF pc[r] = "open" THEN job[r].seen ELSE state)'
  <2>1. PICK j \in DOMAIN snapshots : snapshots'[i] = snapshots[j]
    BY <1>7 DEF OldSnapshots
  <2>2. /\ pc[r] \in {"ready", "open", "conflict", "applied", "done", "failed"}
        /\ pc[r] \in {"ready", "open"} /\ job[r].proof # None =>
             \A part \in Parts :
               ReadAfter(r, part, snapshots[j].saved, IF pc[r] = "open" THEN job[r].seen ELSE state)
    BY <1>1, <1>7, <2>1 DEF RequestOK
  <2>3. ASSUME pc[r] \in {"ready", "open"}, job[r].proof # None, NEW part \in Parts
        PROVE  ReadAfter(r, part, snapshots[i].saved, IF pc[r] = "open" THEN job[r].seen ELSE state)'
    <3>1. CASE pc[r] = "open"
      <4>1. ReadAfter(r, part, snapshots[j].saved, job[r].seen) /\ job[r].seen <= job[r].seen
        BY <1>1, <2>2, <2>3, <3>1
      <4>2. job[r].seen <= state
        BY <1>1 DEF RequestOK
      <4>3. \E a, b \in job'[r].began..job[r].seen :
              /\ a <= b /\ past'[a][part] = job'[r].proof[part]
              /\ past'[b][part] = snapshots[j].saved[part]
        BY <1>1, <1>6, <4>1, <4>2
      <4>4. QED
        BY <2>1, <3>1, <4>3 DEF ReadAfter
    <3>2. CASE pc[r] = "ready"
      <4>1. ReadAfter(r, part, snapshots[j].saved, state) /\ state <= state /\ state <= state'
        BY <1>1, <2>2, <2>3, <3>2 DEF Onward
      <4>2. \E a, b \in job'[r].began..state' :
              /\ a <= b /\ past'[a][part] = job'[r].proof[part]
              /\ past'[b][part] = snapshots[j].saved[part]
        BY <1>1, <1>6, <4>1
      <4>3. QED
        BY <2>1, <3>2, <4>2 DEF ReadAfter
    <3>3. QED
      BY <2>3, <3>1, <3>2
  <2>4. QED
    BY <2>2, <2>3
<1>8. QED
  BY <1>3, <1>4, <1>5, <1>7 DEF RequestOK

LEMMA OriginKept ==
  ASSUME IInv, Onward, NEW p \in Request, origin'[p] = origin[p], OldSnapshots(p)
  PROVE  OriginOK(p)'
<1>1. OriginOK(p) /\ origin[p] \in Origin /\ {state, state', origin[p].began, origin[p].base} \subseteq Nat
  BY StateIsNat DEF IInv, Typed, Origin, Onward
<1>2. \A k \in origin[p].began..origin[p].base : past'[k] = past[k]
  BY <1>1 DEF Onward, OriginOK
<1>3. \A part : CameBack(p, part) => CameBack(p, part)'
  <2>1. SUFFICES ASSUME NEW part, CameBack(p, part) PROVE CameBack(p, part)'
    OBVIOUS
  <2>2. PICK i, k \in origin[p].began..origin[p].base :
          /\ i < k
          /\ past[i][part] = origin[p].proof[part] /\ past[k][part] # origin[p].proof[part]
          /\ past[origin[p].base][part] = origin[p].proof[part]
    BY <2>1 DEF CameBack
  <2>3. past'[i] = past[i] /\ past'[k] = past[k] /\ past'[origin[p].base] = past[origin[p].base]
    BY <1>1, <1>2, <2>2
  <2>4. QED
    BY <2>2, <2>3 DEF CameBack
<1>4. origin'[p].base <= state'
  BY <1>1 DEF OriginOK, Onward
<1>5. ASSUME origin[p].proof # None, NEW i \in DOMAIN snapshots', snapshots'[i].by = p, NEW part \in Parts
      PROVE  snapshots'[i].saved[part] = origin[p].proof[part] \/ CameBack(p, part)'
  <2>1. PICK j \in DOMAIN snapshots : snapshots'[i] = snapshots[j]
    BY <1>5 DEF OldSnapshots
  <2>2. snapshots[j].saved[part] = origin[p].proof[part] \/ CameBack(p, part)
    BY <1>1, <1>5, <2>1 DEF OriginOK
  <2>3. QED
    BY <1>3, <2>1, <2>2
<1>6. origin[p].proof # None => p \in Committed' /\ p \notin origin[p].proof.plans.stored
  BY <1>1 DEF OriginOK, Onward
<1>7. QED
  BY <1>4, <1>5, <1>6 DEF OriginOK

(* Edits, resets and rollbacks.                                            *)
LEMMA ElsewhereStep ==
  ASSUME IInv, Edit \/ Reset \/ \E i \in DOMAIN snapshots : Rollback(i)
  PROVE  IInv'
<1> USE DEF IInv
<1>1. UNCHANGED <<origin, pc, job, reviews>>
  BY DEF Edit, Reset, Rollback
<1>2. Now \in Fingerprint /\ Now.plans \in Plans /\ state \in State
  BY DEF Typed, Now, Fingerprint
<1>3. PICK content \in Content, plans \in Plans :
        /\ Moves(content, plans)
        /\ plans.stored \subseteq Committed /\ OneActive(plans.active)
        /\ \/ swaps' = state'
           \/ swaps' = swaps /\ plans = Now.plans
  <2>1. CASE Edit
    BY <1>2, <2>1 DEF Edit, PlansOK, Now
  <2>2. CASE Reset
    BY <2>2 DEF Reset, Plans, OneActive
  <2>3. ASSUME NEW i \in DOMAIN snapshots, Rollback(i)
        PROVE  \E content \in Content :
                 /\ Moves(content, snapshots[i].saved.plans) /\ swaps' = state'
                 /\ snapshots[i].saved.plans \in Plans
                 /\ snapshots[i].saved.plans.stored \subseteq Committed
                 /\ OneActive(snapshots[i].saved.plans.active)
    BY <2>3, SnapshotTyped DEF Rollback, Snap, Fingerprint, PlansOK
  <2>4. QED
    BY <2>1, <2>2, <2>3
<1>4. /\ state' \in State /\ state < state' /\ state <= state' /\ state' = state + 1
      /\ past' \in [State -> Fingerprint]
      /\ \A k \in 0..state : past'[k] = past[k]
      /\ \A k \in State : past'[k] = past[k] \/ past'[k].plans = plans
      /\ Now'.plans = plans
  BY <1>3, MovesOn
<1>5. Committed' = Committed
  BY <1>1 DEF Committed
<1>6. Onward
  BY <1>4, <1>5 DEF Onward
<1> DEFINE n == [by |-> None, saved |-> Now]
<1>7. n \in Snap /\ n.by = None /\ n.saved = Now
  BY <1>2 DEF Snap
<1>8. /\ snapshots' \in Seq(Snap)
      /\ \A i \in DOMAIN snapshots' : snapshots'[i] = n \/ \E j \in DOMAIN snapshots : snapshots'[i] = snapshots[j]
      /\ OneSnapshotEach'
  <2>1. CASE UNCHANGED snapshots
    BY <2>1 DEF Typed, OneSnapshotEach
  <2>2. CASE \E i \in DOMAIN snapshots : Rollback(i)
    <3> DEFINE t == Append(snapshots, n)
    <3>1. snapshots' = Newest(t)
      BY <2>2 DEF Rollback
    <3>2. /\ t \in Seq(Snap) /\ Len(snapshots) \in Nat /\ DOMAIN snapshots = 1 .. Len(snapshots)
          /\ DOMAIN t = 1 .. Len(snapshots) + 1
          /\ \A i \in DOMAIN t : t[i] = IF i = Len(snapshots) + 1 THEN n ELSE snapshots[i]
      BY <1>7, LenProperties, AppendProperties DEF Typed
    <3> HIDE DEF t, n
    <3>3. snapshots' \in Seq(Snap) /\ DOMAIN snapshots' \subseteq Nat
      BY <3>1, <3>2, NewestPart, LenProperties
    <3>4. PICK k \in Nat : \A i \in DOMAIN snapshots' : i + k \in DOMAIN t /\ snapshots'[i] = t[i + k]
      BY <3>1, <3>2, NewestPart
    <3>5. \A i \in DOMAIN snapshots' :
            \/ snapshots'[i] = n
            \/ i + k \in DOMAIN snapshots /\ snapshots'[i] = snapshots[i + k]
      BY <3>2, <3>3, <3>4
    <3>6. OneSnapshotEach'
      <4> SUFFICES ASSUME NEW i \in DOMAIN snapshots', NEW j \in DOMAIN snapshots',
                          snapshots'[i].by = snapshots'[j].by, snapshots'[i].by # None
                   PROVE  i = j
        BY DEF OneSnapshotEach
      <4>1. i + k = j + k
        BY <1>7, <3>5 DEF OneSnapshotEach
      <4>2. QED
        BY <3>3, <4>1
    <3>7. QED
      BY <3>3, <3>5, <3>6
  <2>3. QED
    BY <2>1, <2>2 DEF Edit, Reset
<1> HIDE DEF n
<1>9. Typed'
  <2>1. {state, swaps, reviews, state'} \subseteq Nat
    BY <1>4, StateIsNat DEF Typed
  <2>2. swaps' \in State /\ swaps' <= state' /\ reviews' <= state'
    BY <1>1, <1>3, <1>4, <2>1 DEF Typed
  <2>3. QED
    BY <1>1, <1>4, <1>8, <2>2 DEF Typed
<1>10. \A r \in Request : OldSnapshots(r)
  BY <1>7, <1>8, ActivationAssumption DEF OldSnapshots
<1>11. \A r \in Request : RequestOK(r)' /\ OriginOK(r)'
  BY <1>1, <1>6, <1>10, Bystander, OriginKept
<1>12. PlansOK'
  <2>1. \A k \in State : past'[k].plans.stored \subseteq Committed /\ OneActive(past'[k].plans.active)
    BY <1>3, <1>4 DEF PlansOK
  <2>2. Now.plans.stored \subseteq Committed /\ OneActive(Now.plans.active)
    BY <1>2 DEF PlansOK, Now
  <2>3. \A i \in DOMAIN snapshots' :
          /\ snapshots'[i].saved.plans.stored \subseteq Committed
          /\ OneActive(snapshots'[i].saved.plans.active)
    BY <1>7, <1>8, <2>2 DEF PlansOK
  <2>4. QED
    BY <1>5, <2>1, <2>3 DEF PlansOK, OneActive
<1>13. SwapsKept'
  <2>1. {state, swaps, swaps', state'} \subseteq Nat
    BY <1>4, <1>9, StateIsNat DEF Typed
  <2>2. past'[state'].plans = plans
    BY <1>4 DEF Now
  <2> SUFFICES ASSUME NEW k \in swaps'..state'
               PROVE  /\ past'[k].plans.active = plans.active
                      /\ reviews <= k => \A p \in plans.stored : origin[p].proof # None => p \in past'[k].plans.stored
    BY <1>1, <1>4 DEF SwapsKept
  <2>3. CASE k = state'
    BY <2>2, <2>3
  <2>4. CASE k # state'
    <3>1. swaps' = swaps /\ plans = Now.plans /\ k \in swaps..state
      BY <1>3, <1>4, <2>1, <2>4
    <3>2. past'[k] = past[k]
      BY <1>4, <2>1, <3>1
    <3>3. QED
      BY <3>1, <3>2 DEF SwapsKept
  <2>5. QED
    BY <2>3, <2>4
<1>14. QED
  BY <1>8, <1>9, <1>11, <1>12, <1>13

----------------------------------------------------------------------------
LEMMA TakeSnapshotStep ==
  ASSUME IInv, NEW r \in Request, TakeSnapshot(r)
  PROVE  IInv'
<1> USE DEF IInv
<1>1. PICK read \in ReadBetween(job[r].seen, state) :
        snapshots' = Append(snapshots, [by |-> r, saved |-> read])
  BY DEF TakeSnapshot
<1> DEFINE n == [by |-> r, saved |-> read]
<1>2. /\ pc[r] = "checked" /\ job[r] \in Job /\ RequestOK(r) /\ r # None
      /\ UNCHANGED <<state, past, origin, swaps, reviews, job, Now>>
  BY ActivationAssumption DEF TakeSnapshot, project, Now, Typed
<1>3. /\ pc' \in [Request -> Control] /\ pc'[r] = "ready"
      /\ \A q \in Request \ {r} : pc'[q] = pc[q]
  BY DEF TakeSnapshot, Goes, Typed, Control
<1>4. Committed' = Committed
  BY <1>2, <1>3 DEF Committed
<1>5. /\ read \in Fingerprint
      /\ \A part \in Parts : \E i \in job[r].seen..state : read[part] = past[i][part]
      /\ \E k \in job[r].seen..state : read.plans = past[k].plans
  <2>1. job[r].seen \in State /\ state \in State
    BY <1>2 DEF Job, Typed
  <2>2. QED
    BY <2>1, ReadInPieces
<1>6. n \in Snap /\ n.by = r /\ n.saved = read
  BY <1>5 DEF Snap
<1>7. /\ snapshots' \in Seq(Snap) /\ Len(snapshots) \in Nat
      /\ DOMAIN snapshots = 1 .. Len(snapshots) /\ DOMAIN snapshots' = 1 .. Len(snapshots) + 1
      /\ \A i \in DOMAIN snapshots : snapshots'[i] = snapshots[i]
      /\ snapshots'[Len(snapshots) + 1] = n
  BY <1>1, <1>6, LenProperties, AppendProperties DEF Typed
<1> HIDE DEF n
<1>8. \A i \in DOMAIN snapshots' : snapshots'[i] = n \/ (i \in DOMAIN snapshots /\ snapshots'[i] = snapshots[i])
  BY <1>7
<1>9. \A i \in DOMAIN snapshots : snapshots[i].by # r
  BY <1>2 DEF RequestOK
<1>10. {state, job[r].began, job[r].seen} \subseteq Nat /\ state \in State /\ 0..state \subseteq State
  BY <1>2, StateIsNat DEF Typed, Job
<1>11. Onward /\ \A q \in Request \ {r} : OldSnapshots(q)
  <2>1. state <= state
    BY <1>10
  <2>2. QED
    BY <1>2, <1>4, <1>6, <1>8, <1>10, <2>1 DEF Onward, OldSnapshots, Typed
<1>12. Typed'
  BY <1>2, <1>3, <1>7 DEF Typed
<1>13. \A q \in Request \ {r} : RequestOK(q)' /\ OriginOK(q)'
  BY <1>2, <1>3, <1>11, Bystander, OriginKept
<1>14. ASSUME job[r].proof # None, NEW part \in Parts
       PROVE  \E i, k \in job[r].began..state :
                i <= k /\ past[i][part] = job[r].proof[part] /\ past[k][part] = read[part]
  <2>1. PICK i \in job[r].began..job[r].seen : past[i][part] = job[r].proof[part]
    BY <1>2, <1>14 DEF RequestOK
  <2>2. PICK k \in job[r].seen..state : read[part] = past[k][part]
    BY <1>5
  <2>3. i \in job[r].began..state /\ k \in job[r].began..state /\ i <= k
    BY <1>10, <2>1, <2>2
  <2>4. QED
    BY <2>1, <2>2, <2>3
<1>15. RequestOK(r)'
  <2>1. ASSUME NEW i \in DOMAIN snapshots', snapshots'[i].by = r
        PROVE  snapshots'[i] = n
    BY <1>8, <1>9, <2>1
  <2>2. ASSUME NEW i \in DOMAIN snapshots', snapshots'[i].by = r, job'[r].proof # None, NEW part \in Parts
        PROVE  ReadAfter(r, part, snapshots[i].saved, IF pc[r] = "open" THEN job[r].seen ELSE state)'
    BY <1>2, <1>3, <1>6, <1>14, <2>1, <2>2 DEF ReadAfter
  <2>3. QED
    BY <1>2, <1>3, <1>4, <2>2 DEF RequestOK
<1>16. OriginOK(r)'
  <2>1. OriginOK(r) /\ r \notin Committed
    BY <1>2 DEF Committed
  <2>2. QED
    BY <1>2, <2>1 DEF OriginOK
<1>17. PlansOK'
  <2>1. read.plans.stored \subseteq Committed /\ OneActive(read.plans.active)
    BY <1>5, <1>10 DEF PlansOK
  <2>2. QED
    BY <1>2, <1>4, <1>6, <1>8, <2>1 DEF PlansOK, OneActive
<1>18. SwapsKept'
  BY <1>2 DEF SwapsKept
<1>19. OneSnapshotEach'
  <2> SUFFICES ASSUME NEW i \in DOMAIN snapshots', NEW j \in DOMAIN snapshots',
                      snapshots'[i].by = snapshots'[j].by, snapshots'[i].by # None
               PROVE  i = j
    BY DEF OneSnapshotEach
  <2>1. CASE i \in DOMAIN snapshots /\ j \in DOMAIN snapshots
    BY <1>7, <2>1 DEF OneSnapshotEach
  <2>2. CASE i \notin DOMAIN snapshots \/ j \notin DOMAIN snapshots
    <3>1. \A k \in DOMAIN snapshots' \ DOMAIN snapshots : k = Len(snapshots) + 1
      BY <1>7
    <3>2. /\ \A k \in DOMAIN snapshots : snapshots'[k].by # r
          /\ \A k \in DOMAIN snapshots' \ DOMAIN snapshots : snapshots'[k].by = r
      BY <1>6, <1>7, <1>8, <1>9, Zenon
    <3>3. QED
      BY <2>2, <3>1, <3>2
  <2>3. QED
    BY <2>1, <2>2
<1>20. QED
  BY <1>12, <1>13, <1>15, <1>16, <1>17, <1>18, <1>19

----------------------------------------------------------------------------
(* What is checked before a commit, in terms of the plans there are.       *)
LEMMA CommitChecks ==
  ASSUME IInv, NEW r \in Request, pc[r] = "open", StillReviewed(r), StillSound(r), Serializable(r)
  PROVE  /\ job[r].setActive =>
              /\ past[job[r].seen].content \notin Protected
              /\ Now.plans.active = past[job[r].seen].plans.active
         /\ job[r].proof # None =>
              /\ past[job[r].seen] = job[r].proof
              /\ job[r].setActive =>
                   /\ Now.plans.active = job[r].proof.plans.active
                   /\ \A p \in Now.plans.stored : origin[p].proof # job[r].proof
<1> USE DEF IInv
<1>1. RequestOK(r) /\ job[r] \in Job /\ {job[r].seen, state, swaps, reviews} \subseteq Nat
  BY StateIsNat DEF Typed, Job
<1>2. ASSUME job[r].setActive
      PROVE  /\ past[job[r].seen].content \notin Protected
             /\ job[r].seen \in swaps..state
             /\ Now.plans.active = past[job[r].seen].plans.active
  <2>1. job[r].seen \in swaps..state
    BY <1>1, <1>2 DEF Serializable, RequestOK
  <2>2. QED
    BY <1>2, <2>1 DEF StillSound, SwapsKept
<1>3. ASSUME job[r].proof # None, job[r].setActive, NEW p \in Now.plans.stored,
             origin[p].proof = job[r].proof
      PROVE  FALSE
  <2>1. past[job[r].seen] = job[r].proof /\ reviews <= job[r].seen
    BY <1>3 DEF StillReviewed, Serializable
  <2>2. p \in past[job[r].seen].plans.stored
    BY <1>2, <1>3, <2>1 DEF SwapsKept
  <2>3. p \in Request
    BY <1>3 DEF PlansOK, Now, Typed, Committed
  <2>4. QED
    BY <1>3, <2>1, <2>2, <2>3 DEF OriginOK
<1>4. QED
  BY <1>2, <1>3 DEF StillReviewed

LEMMA CommitStep ==
  ASSUME IInv, NEW r \in Request, Commit(r)
  PROVE  IInv'
<1> USE DEF IInv
<1> DEFINE plans == PlansWith(r)
<1>1. /\ pc[r] = "open" /\ job[r] \in Job /\ RequestOK(r) /\ r # None
      /\ UNCHANGED snapshots
      /\ swaps' = (IF job[r].setActive THEN state' ELSE swaps)
      /\ reviews' = (IF job[r].proof # None THEN state' ELSE reviews)
      /\ {state, swaps, reviews, job[r].began, job[r].seen} \subseteq Nat
      /\ job[r].seen \in State /\ job[r].began \in State
  BY StateIsNat, ActivationAssumption DEF Commit, Typed, Job
<1>2. /\ job[r].setActive => Now.plans.active = past[job[r].seen].plans.active
      /\ job[r].proof # None => past[job[r].seen] = job[r].proof
  BY CommitChecks DEF Commit
<1>3. Now.plans \in Plans /\ Now.plans.stored \subseteq Committed /\ OneActive(Now.plans.active)
  BY DEF Typed, Now, Fingerprint, PlansOK
<1>4. /\ plans \in Plans /\ plans.stored = Now.plans.stored \cup {r}
      /\ OneActive(plans.active)
      /\ ~job[r].setActive => plans.active = Now.plans.active
  <2>1. plans.active = IF job[r].setActive THEN {r} ELSE Now.plans.active
    BY <1>2 DEF PlansWith
  <2>2. QED
    BY <1>3, <2>1 DEF PlansWith, Plans, OneActive
<1> HIDE DEF plans
<1>5. PICK content \in Content : Moves(content, plans)
  <2>1. Now.content \in Content
    BY DEF Typed, Now, Fingerprint
  <2>2. QED
    BY <2>1 DEF Commit, plans
<1>6. /\ state' \in State /\ state < state' /\ state <= state' /\ state' = state + 1
      /\ past' \in [State -> Fingerprint]
      /\ \A k \in 0..state : past'[k] = past[k]
      /\ \A k \in State : past'[k] = past[k] \/ past'[k].plans = plans
      /\ Now'.plans = plans
  BY <1>4, <1>5, MovesOn
<1>7. /\ pc' \in [Request -> Control] /\ job' \in [Request -> Job] /\ job'[r] = Fresh
      /\ pc'[r] \in {"applied", "done"}
      /\ \A q \in Request \ {r} : pc'[q] = pc[q] /\ job'[q] = job[q]
  BY FreshIsJob DEF Commit, Over, Goes, Typed, Control, Ended
<1>8. r \notin Committed /\ Committed \subseteq Committed' /\ r \in Committed'
  BY <1>1, <1>7 DEF Committed
<1>9. Onward /\ \A q \in Request : OldSnapshots(q)
  BY <1>1, <1>6, <1>8 DEF Onward, OldSnapshots
<1>10. /\ origin' \in [Request -> Origin]
       /\ origin'[r].proof = job[r].proof /\ origin'[r].began = job[r].began /\ origin'[r].base = job[r].seen
       /\ \A q \in Request \ {r} : origin'[q] = origin[q]
  BY <1>1 DEF Commit, Typed, Origin, Job
<1>11. Typed'
  <2>1. swaps' \in State /\ reviews' \in State /\ swaps' <= state' /\ reviews' <= state'
    BY <1>1, <1>6, StateIsNat DEF Typed
  <2>2. QED
    BY <1>1, <1>6, <1>7, <1>10, <2>1 DEF Typed
<1>12. \A q \in Request \ {r} : RequestOK(q)' /\ OriginOK(q)'
  BY <1>7, <1>9, <1>10, Bystander, OriginKept
<1>13. RequestOK(r)'
  <2>1. 0 <= state'
    BY <1>6, StateIsNat
  <2>2. QED
    BY <1>1, <1>7, <2>1 DEF RequestOK, Fresh
<1>14. OriginOK(r)'
  <2>1. origin'[r].base <= state'
    BY <1>1, <1>6, <1>10, StateIsNat DEF RequestOK
  <2>2. ASSUME job[r].proof # None PROVE r \notin job[r].proof.plans.stored
    BY <1>1, <1>8, <2>2 DEF RequestOK
  <2>3. ASSUME job[r].proof # None, NEW i \in DOMAIN snapshots, snapshots[i].by = r, NEW part \in Parts,
               snapshots[i].saved[part] # job[r].proof[part]
        PROVE  CameBack(r, part)'
    <3>1. PICK a, b \in job[r].began..job[r].seen :
            a <= b /\ past[a][part] = job[r].proof[part] /\ past[b][part] = snapshots[i].saved[part]
      BY <1>1, <2>3 DEF RequestOK, ReadAfter
    <3>2. past[a] # past[b] /\ a < b
      <4>1. past[a] # past[b]
        BY <2>3, <3>1
      <4>2. QED
        BY <1>1, <3>1, <4>1
    <3>3. past'[a] = past[a] /\ past'[b] = past[b] /\ past'[job[r].seen] = past[job[r].seen]
      BY <1>1, <1>6, <3>1 DEF RequestOK
    <3>4. past[job[r].seen][part] = job[r].proof[part]
      BY <1>2, <2>3
    <3>5. QED
      BY <1>10, <2>3, <3>1, <3>2, <3>3, <3>4 DEF CameBack
  <2>4. QED
    BY <1>1, <1>8, <1>10, <2>1, <2>2, <2>3 DEF OriginOK
<1>15. PlansOK'
  <2>1. \A k \in State : past'[k].plans.stored \subseteq Committed' /\ OneActive(past'[k].plans.active)
    BY <1>3, <1>4, <1>6, <1>8 DEF PlansOK
  <2>2. QED
    BY <1>1, <1>8, <2>1 DEF PlansOK, OneActive
<1>16. SwapsKept'
  <2>1. past'[state'].plans = plans /\ {swaps', state'} \subseteq Nat
    BY <1>6, <1>11, StateIsNat DEF Now, Typed
  <2> SUFFICES ASSUME NEW k \in swaps'..state'
               PROVE  /\ past'[k].plans.active = plans.active
                      /\ reviews' <= k =>
                           \A p \in plans.stored : origin'[p].proof # None => p \in past'[k].plans.stored
    BY <1>6 DEF SwapsKept
  <2>2. CASE k = state'
    BY <2>1, <2>2
  <2>3. CASE k # state'
    <3>1. swaps' = swaps /\ ~job[r].setActive /\ k \in swaps..state /\ k \in 0..state /\ k < state'
      BY <1>1, <1>6, <2>1, <2>3
    <3>2. past'[k] = past[k] /\ past[k].plans.active = Now.plans.active
      BY <1>6, <3>1 DEF SwapsKept
    <3>3. ASSUME reviews' <= k, NEW p \in plans.stored, origin'[p].proof # None
          PROVE  p \in past'[k].plans.stored
      <4>1. reviews' = reviews /\ job[r].proof = None
        BY <1>1, <1>6, <3>1, <3>3
      <4>2. p # r /\ p \in Now.plans.stored /\ p \in Request
        BY <1>3, <1>4, <1>10, <3>3, <4>1 DEF Committed
      <4>3. QED
        BY <1>10, <3>1, <3>2, <3>3, <4>1, <4>2 DEF SwapsKept
    <3>4. QED
      BY <1>4, <3>1, <3>2, <3>3
  <2>4. QED
    BY <2>2, <2>3
<1>17. OneSnapshotEach'
  BY <1>1 DEF OneSnapshotEach
<1>18. QED
  BY <1>11, <1>12, <1>13, <1>14, <1>15, <1>16, <1>17

----------------------------------------------------------------------------
LEMMA StepInv == IInv /\ [Next]_vars => IInv'
<1> SUFFICES ASSUME IInv, [Next]_vars PROVE IInv'
  OBVIOUS
<1>1. CASE Next
  BY <1>1, QuietStep, TakeSnapshotStep, CommitStep, CompensateStep, PruneStep, ElsewhereStep
     DEF Next, Step, Attempt
<1>2. CASE UNCHANGED vars
  BY <1>2 DEF vars, IInv, Typed, SwapsKept, Now, RequestOK, ReadAfter, PlansOK, OneActive, OriginOK, CameBack,
              Committed, OneSnapshotEach
<1>3. QED
  BY <1>1, <1>2

LEMMA Invariance == Spec => []IInv
  BY InitInv, StepInv, PTL DEF Spec

(* At most one plan of a project is active, and plans, snapshots and       *)
(* requests are well formed, whatever applies, resets and rollbacks        *)
(* overlap (POST /squad-plan/apply).                                       *)
THEOREM OneActivePlan == Spec => []OnePlanActive
<1>1. IInv => OnePlanActive
  <2> SUFFICES ASSUME IInv PROVE OnePlanActive
    OBVIOUS
  <2> USE DEF IInv
  <2>1. TypeOK
    <3>1. ASSUME NEW i \in DOMAIN snapshots
          PROVE  snapshots[i].by \in Request \cup {None} /\ snapshots[i].saved \in Fingerprint
      BY SnapshotTyped DEF Snap
    <3>2. \A r \in InFlight : job[r].proof \in Fingerprint \cup {None} /\ job[r].tries \in 0..MaxRetries
      BY DEF Typed, InFlight, Job
    <3>3. QED
      BY <3>1, <3>2 DEF Typed, TypeOK
  <2>2. QED
    BY <2>1 DEF OnePlanActive, PlansOK, OneActive, Typed, Now
<1>2. QED
  BY <1>1, Invariance, PTL

(* The applies that went through can be undone, exactly but for what was   *)
(* edited and edited back while they ran, and those that were refused      *)
(* leave no snapshot (buildSnapshot, the compensation of POST              *)
(* /squad-plan/apply).                                                     *)
THEOREM SoundUndo == Spec => []UndoSound
<1>1. IInv => UndoSound
  <2> SUFFICES ASSUME IInv PROVE UndoSound
    OBVIOUS
  <2> USE DEF IInv
  <2>1. UndoIsExact
    <3>1. Now.plans.active \subseteq Request
      BY DEF Typed, Now, Fingerprint, Plans
    <3>2. QED
      BY <3>1 DEF UndoIsExact, OriginOK, Parts
  <2>2. NothingLeftBehind
    <3>1. \A i \in DOMAIN snapshots : snapshots[i].by \in Request \cup {None}
      BY SnapshotTyped DEF Snap
    <3>2. QED
      BY <3>1 DEF NothingLeftBehind, RequestOK
  <2>3. QED
    BY <2>1, <2>2 DEF UndoSound
<1>2. QED
  BY <1>1, Invariance, PTL

(* What a transaction writes for a reviewed draft is written on the state  *)
(* that was reviewed, and activates in place of the plan that was active   *)
(* then, once, and never over somebody else's (revalidatePlannerPlan,      *)
(* DraftProofConflictError).                                               *)
THEOREM CommitsChecked == Spec => CommitsWhatWasChecked
<1>1. ASSUME IInv, [Next]_vars, NEW r \in Request, pc[r] = "open", pc'[r] \in {"applied", "done"}
      PROVE  Commit(r)
  <2>1. pc' # pc /\ pc \in [Request -> Control]
    BY <1>1 DEF IInv, Typed
  <2>2. \A q \in Request, c \in Control : Goes(q, c) /\ q # r => pc'[r] = pc[r]
    BY <2>1 DEF Goes
  <2>3. PICK q \in Request :
          \/ \E setActive \in BOOLEAN, proof \in Signed \cup {None} : Begin(q, setActive, proof)
          \/ Step(q)
    BY <1>1, <2>1 DEF Next, vars, Edit, Reset, Rollback
  <2>4. \E c \in Control : Goes(q, c)
    BY <2>3 DEF Begin, Step, Attempt, VerifyProof, Preflight, Refuse, TakeSnapshot, Open, Conflict,
                Commit, SerializationFailure, Compensate, Prune, Fail, Over, Control, Ended
  <2>5. q = r
    BY <1>1, <2>2, <2>4
  <2>6. QED
    BY <1>1, <2>1, <2>3, <2>5
       DEF Begin, Step, Attempt, VerifyProof, Preflight, Refuse, TakeSnapshot, Open, Conflict,
           SerializationFailure, Compensate, Prune, Fail, Over, Goes
<1>2. ASSUME IInv, [Next]_vars
      PROVE  \A r \in Request : pc[r] = "open" /\ pc'[r] \in {"applied", "done"} =>
               /\ job[r].setActive => past[job[r].seen].content \notin Protected
               /\ job[r].proof # None =>
                  /\ past[job[r].seen] = job[r].proof
                  /\ job[r].setActive =>
                     /\ Now.plans.active = job[r].proof.plans.active
                     /\ \A p \in Now.plans.stored : origin[p].proof # job[r].proof
  BY <1>1, <1>2, CommitChecks DEF Commit
<1>3. QED
  BY <1>2, Invariance, PTL DEF Spec, CommitsWhatWasChecked
=============================================================================
