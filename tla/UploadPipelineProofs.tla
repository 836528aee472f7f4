------------------------- MODULE UploadPipelineProofs -------------------------
(***************************************************************************)
(* The emulator under uploads, resizing and edits, for any paths, uploads, *)
(* replicas, edits and failures: its types, that its files and tables keep *)
(* the promises of BlobPromises, and that with one replica of the resize   *)
(* service the site shows what was asked for.                              *)
(***************************************************************************)
EXTENDS OneReplica, TLAPS

\* a DELETE has four steps
CallsInOrder == \A q \in calls : q.op = "delete" => q.step \in 1..4

\* the call an edit waits for, if it waits for one
EditsCall ==
    /\ \A q \in calls : q.caller = Admin => admin.pc = (IF q.op = "put" THEN "copying" ELSE "deleting")
    /\ \A q, r \in calls : q.caller = Admin /\ r.caller = Admin => q = r

\* an edit has found what it needs for its next steps
EditWell ==
    /\ admin.pc = "mark" => admin.found \in Tags
    /\ admin.pc \notin {"idle", "mark"} => admin.path \in DOMAIN NewPath
    /\ admin.pc \in {"tags", "metadata"} => admin.bytes \in Contents

TypeInv == TypeOK /\ CallsInOrder /\ EditsCall /\ EditWell

\* how far the only call that is changing a blob has got
Halfway(q) ==
    /\ q.op = "put" => q.bytes # Nothing /\ (q.step = 4 => File(q) = q.bytes)
    /\ q.op = "delete" => /\ q.step = 2 => Row(q) # Nothing /\ Row(q).id = q.id
                          /\ q.step = 3 => Row(q) = Nothing

\* a blob that is not mixed has one call at most that is changing it, and is
\* whole if it has none
Whole(c, p) ==
    /\ \A q, r \in UnsettledOn(c, p) : q = r
    /\ \A q \in UnsettledOn(c, p) : Halfway(q)
    /\ UnsettledOn(c, p) = {} /\ rows[c][p] # Nothing => files[c][p] # Nothing

BlobsInv == \A c \in Containers, p \in Paths : ~mixed[c][p] => Whole(c, p)

-----------------------------------------------------------------------------
(* The steps of a call.                                                    *)

LEMMA PutSteps ==
    ASSUME NEW q \in Calls, q.op = "put"
    PROVE  /\ Len(Order(q)) = 5 /\ q.step \in 1..5
           /\ At(q, "mkdir") <=> q.step = 1
           /\ At(q, "open") <=> q.step = 2
           /\ At(q, "write") <=> q.step = 3
           /\ At(q, "commit") <=> q.step = 4
           /\ At(q, "publish") <=> q.step = 5
           /\ ~At(q, "lookup") /\ ~At(q, "rows") /\ ~At(q, "unlink") /\ ~At(q, "prune")
           /\ Unsettled(q) <=> q.step <= 4
BY DEF Calls, Order, At, PutOrder, Unsettled

LEMMA DeleteSteps ==
    ASSUME NEW q \in Calls, q.op = "delete", q.step \in 1..4
    PROVE  /\ Len(Order(q)) = 4
           /\ At(q, "lookup") <=> q.step = 1
           /\ At(q, "rows") <=> q.step = 2
           /\ At(q, "unlink") <=> q.step = 3
           /\ At(q, "prune") <=> q.step = 4
           /\ ~At(q, "mkdir") /\ ~At(q, "open") /\ ~At(q, "write") /\ ~At(q, "commit") /\ ~At(q, "publish")
           /\ Unsettled(q) <=> q.step <= 3
BY DEF Calls, Order, At, DeleteOrder, Unsettled

\* what a call stays while it goes on
Same(q, r) == /\ r.op = q.op /\ r.caller = q.caller /\ r.container = q.container /\ r.path = q.path
              /\ r.tags = q.tags /\ r.metadata = q.metadata

\* the call after its next step
After(q) == [q EXCEPT !.step = q.step + 1]

LEMMA AfterFacts ==
    ASSUME NEW q \in Calls, q.op = "delete" => q.step \in 1..4, q.step # Len(Order(q))
    PROVE  /\ After(q) \in Calls /\ Same(q, After(q))
           /\ After(q).bytes = q.bytes /\ After(q).id = q.id /\ After(q).step = q.step + 1
           /\ After(q).op = "delete" => After(q).step \in 1..4
<1>1. q.op \in {"put", "delete"} /\ q.step \in 1..5
  BY DEF Calls, PutOrder
<1>2. ASSUME q.op = "delete"
      PROVE  q.step \in 1..3
  <2>1. Len(Order(q)) = 4 /\ q.step \in 1..4
    BY <1>2, DeleteSteps
  <2>2. q.step # 4
    BY <2>1
  <2> QED
    BY <2>1, <2>2
<1>3. ASSUME q.op = "put"
      PROVE  q.step \in 1..4
  <2>1. Len(Order(q)) = 5
    BY <1>3, PutSteps
  <2>2. q.step # 5
    BY <2>1
  <2> QED
    BY <1>1, <2>2
<1>4. q.step + 1 \in 1..Len(PutOrder)
  BY <1>1, <1>2, <1>3 DEF PutOrder
<1>5. After(q) \in Calls
  BY <1>4 DEF After, Calls
<1>6. /\ Same(q, After(q)) /\ After(q).bytes = q.bytes /\ After(q).id = q.id
      /\ After(q).step = q.step + 1
  BY DEF After, Calls, Same
<1>7. After(q).op = "delete" => After(q).step \in 1..4
  BY <1>2, <1>6 DEF Same
<1> QED
  BY <1>5, <1>6, <1>7

LEMMA GoesOnFacts ==
    ASSUME NEW q \in Calls, NEW answer, GoesOn(q, answer)
    PROVE  \/ q.step = Len(Order(q)) /\ calls' = calls \ {q} /\ answer = "ok"
           \/ q.step # Len(Order(q)) /\ calls' = (calls \ {q}) \cup {After(q)} /\ answer = "none"
BY DEF GoesOn, After

\* the call after it has looked up the row
LEMMA LookedUpFacts ==
    ASSUME NEW q \in Calls, NEW n \in Nat, q.op = "delete", q.step = 1
    PROVE  LET r == [q EXCEPT !.step = q.step + 1, !.id = n]
           IN  /\ r \in Calls /\ Same(q, r) /\ r.step = 2 /\ r.id = n
<1>1. q.step + 1 \in 1..Len(PutOrder)
  BY DEF PutOrder
<1> DEFINE r == [q EXCEPT !.step = q.step + 1, !.id = n]
<1>2. r \in Calls
  BY <1>1 DEF Calls
<1>3. Same(q, r)
  BY DEF Calls, Same
<1>4. r.step = 2 /\ r.id = n
  BY DEF Calls
<1> QED
  BY <1>2, <1>3, <1>4

\* a writer whose file has been unlinked
LEMMA CutFacts ==
    ASSUME NEW q \in Calls
    PROVE  LET r == [q EXCEPT !.bytes = Nothing]
           IN  /\ r \in Calls /\ Same(q, r) /\ r.step = q.step /\ r.id = q.id
BY DEF Calls, Same

Unlinked(q, r) ==
    IF r = q THEN After(q)
    ELSE IF r \in On(q.container, q.path) /\ At(r, "write") THEN [r EXCEPT !.bytes = Nothing] ELSE r

\* What a step of a call, one that fails too, does to the calls: the others
\* stay what they are, and the call goes on or ends.
LEMMA CallsAfter ==
    ASSUME calls \subseteq Calls, CallsInOrder, rows \in [Containers -> [Paths -> Rows \cup {Nothing}]],
           NEW q \in calls, NEW answer, CallStep(q, answer) \/ CallFails(q, answer)
    PROVE  /\ \A s \in calls' : s \in Calls /\ (s.op = "delete" => s.step \in 1..4)
           /\ answer \in {"ok", "error"} => calls' = calls \ {q}
           /\ \A x : (\A r, s \in calls : r.caller = x /\ s.caller = x => r = s) =>
                     (\A r, s \in calls' : r.caller = x /\ s.caller = x => r = s)
           /\ \A s \in calls' : \E r \in calls : Same(r, s)
<1> DEFINE Shown == /\ \A s \in calls' : s \in Calls /\ (s.op = "delete" => s.step \in 1..4)
                    /\ answer \in {"ok", "error"} => calls' = calls \ {q}
                    /\ \A x : (\A r, s \in calls : r.caller = x /\ s.caller = x => r = s) =>
                              (\A r, s \in calls' : r.caller = x /\ s.caller = x => r = s)
                    /\ \A s \in calls' : \E r \in calls : Same(r, s)
<1>1. /\ q \in Calls /\ (q.op = "delete" => q.step \in 1..4) /\ q.op \in {"put", "delete"}
      /\ \A r \in calls : r \in Calls /\ Same(r, r) /\ (r.op = "delete" => r.step \in 1..4)
  BY DEF CallsInOrder, Same, Calls
<1>2. ASSUME calls' = calls \ {q}
      PROVE  Shown
  BY <1>1, <1>2
<1>3. ASSUME NEW t \in Calls, Same(q, t), t.op = "delete" => t.step \in 1..4,
             calls' = (calls \ {q}) \cup {t}, answer = "none"
      PROVE  Shown
  BY <1>1, <1>3 DEF Same
<1>4. CASE GoesOn(q, answer)
  BY <1>1, <1>2, <1>3, <1>4, GoesOnFacts, AfterFacts
<1>5. CASE LookUp(q, answer)
  <2>1. q.op = "delete" /\ q.step = 1
    BY <1>1, <1>5, PutSteps, DeleteSteps DEF LookUp
  <2>2. CASE Row(q) # Nothing
    <3>1. Row(q).id \in Nat
      BY <1>1, <2>2 DEF Row, Calls, Rows
    <3> DEFINE t == [q EXCEPT !.step = q.step + 1, !.id = Row(q).id]
    <3>2. t \in Calls /\ Same(q, t) /\ t.step = 2
      BY <1>1, <2>1, <3>1, LookedUpFacts
    <3>3. calls' = (calls \ {q}) \cup {t} /\ answer = "none"
      BY <1>5, <2>2 DEF LookUp
    <3> HIDE DEF t
    <3> QED
      BY <1>3, <3>2, <3>3
  <2>3. CASE Row(q) = Nothing
    BY <1>2, <1>5, <2>3 DEF LookUp
  <2> QED
    BY <2>2, <2>3
<1>6. CASE Unlink(q, answer)
  <2>1. q.op = "delete" /\ q.step = 3
    BY <1>1, <1>6, PutSteps, DeleteSteps DEF Unlink
  <2>2. /\ After(q) \in Calls /\ Same(q, After(q)) /\ After(q).step \in 1..4
    <3>1. Len(Order(q)) = 4
      BY <1>1, <2>1, DeleteSteps
    <3>2. q.step # Len(Order(q))
      BY <2>1, <3>1
    <3>3. /\ After(q) \in Calls /\ Same(q, After(q))
          /\ After(q).op = "delete" => After(q).step \in 1..4
      BY <1>1, <2>1, <3>2, AfterFacts
    <3> QED
      BY <2>1, <3>3 DEF Same
  <2>3. calls' = {Unlinked(q, r) : r \in calls} /\ answer = "none"
    BY <1>6 DEF Unlink, Unlinked, After
  <2>4. ASSUME NEW r \in calls
        PROVE  /\ Unlinked(q, r) \in Calls /\ Same(r, Unlinked(q, r))
               /\ Unlinked(q, r).op = "delete" => Unlinked(q, r).step \in 1..4
    <3>1. [r EXCEPT !.bytes = Nothing] \in Calls /\ Same(r, [r EXCEPT !.bytes = Nothing])
          /\ [r EXCEPT !.bytes = Nothing].step = r.step
      BY <1>1, CutFacts
    <3> QED
      BY <1>1, <2>2, <3>1 DEF Unlinked, Same
  <2> QED
    BY <2>3, <2>4 DEF Same
<1>7. CASE calls' = calls \ {q}
  BY <1>2, <1>7
<1> QED
  BY <1>4, <1>5, <1>6, <1>7 DEF CallStep, CallFails, PutStep, DirGone, DropRows, Prune

-----------------------------------------------------------------------------
(* Types.                                                                  *)

LEMMA SpoiledType == ASSUME NEW lost PROVE Spoiled(lost) \in [Containers -> [Paths -> BOOLEAN]]
BY DEF Spoiled

LEMMA RowType ==
    ASSUME EmulatorTypeOK, NEW c \in Containers, NEW p \in Paths, rows[c][p] # Nothing
    PROVE  /\ rows[c][p] \in Rows /\ rows[c][p].id \in Nat
           /\ rows[c][p].tags \in Tags \cup {Nothing} /\ rows[c][p].metadata \in Uploads \cup {Nothing}
<1>1. rows[c][p] \in Rows
  BY DEF EmulatorTypeOK
<1> QED
  BY <1>1 DEF Rows

LEMMA PublishedType ==
    ASSUME EmulatorTypeOK, NEW c \in Containers, NEW p \in Paths, Published(c, p)
    PROVE  queue' \in Seq(Containers \X Paths) /\ faceEvents' \subseteq Paths
BY DEF Published, EventOf, EmulatorTypeOK

LEMMA CommitType ==
    ASSUME EmulatorTypeOK, NEW q \in Calls, CommitRows(q)
    PROVE  /\ rows' \in [Containers -> [Paths -> Rows \cup {Nothing}]]
           /\ ids' \in [Containers -> [Paths -> Nat]]
<1> DEFINE c == q.container
           p == q.path
           row == [id |-> IF Row(q) = Nothing THEN ids[c][p] + 1 ELSE Row(q).id,
                   tags |-> q.tags, metadata |-> q.metadata]
<1>1. c \in Containers /\ p \in Paths /\ q.tags \in Tags \cup {Nothing} /\ q.metadata \in Uploads \cup {Nothing}
  BY DEF Calls
<1>2. ids[c][p] \in Nat /\ ids[c][p] + 1 \in Nat
  BY <1>1 DEF EmulatorTypeOK
<1>3. Row(q) # Nothing => Row(q).id \in Nat
  BY <1>1, RowType DEF Row
<1>4. row \in Rows
  BY <1>1, <1>2, <1>3 DEF Rows
<1>5. rows' = [rows EXCEPT ![c][p] = row]
  BY DEF CommitRows
<1>6. ids' = [ids EXCEPT ![c][p] = IF Row(q) = Nothing THEN @ + 1 ELSE @]
  BY DEF CommitRows
<1> HIDE DEF row
<1>7. rows' \in [Containers -> [Paths -> Rows \cup {Nothing}]]
  BY <1>1, <1>4, <1>5 DEF EmulatorTypeOK
<1>8. ids' \in [Containers -> [Paths -> Nat]]
  BY <1>1, <1>2, <1>6 DEF EmulatorTypeOK
<1> QED
  BY <1>7, <1>8

LEMMA StepTypes ==
    ASSUME EmulatorTypeOK, CallsInOrder, NEW q \in calls, NEW answer,
           CallStep(q, answer) \/ CallFails(q, answer)
    PROVE  EmulatorTypeOK'
<1>1. q \in Calls /\ q.container \in Containers /\ q.path \in Paths /\ q.bytes \in Contents \cup {Nothing}
      /\ q.op \in {"put", "delete"}
  BY DEF EmulatorTypeOK, Calls
<1>2. calls' \subseteq Calls
  <2>1. calls \subseteq Calls /\ rows \in [Containers -> [Paths -> Rows \cup {Nothing}]]
    BY DEF EmulatorTypeOK
  <2> QED
    BY <2>1, CallsAfter
<1>3. connected' \in [Containers -> BOOLEAN]
  BY DEF EmulatorTypeOK, CallStep, CallFails
<1>4. mixed' \in [Containers -> [Paths -> BOOLEAN]]
  BY SpoiledType DEF EmulatorTypeOK, CallStep, CallFails, PutStep, DirGone, LookUp, DropRows, Unlink, Prune
<1>5. CASE CallFails(q, answer) \/ DirGone(q, answer) \/ LookUp(q, answer)
  <2>1. UNCHANGED <<stored, announced>>
    BY <1>5 DEF CallFails, DirGone, LookUp
  <2> QED
    BY <1>2, <1>3, <1>4, <2>1 DEF stored, announced, EmulatorTypeOK
<1>6. CASE MakeDir(q)
  <2>1. Dir(q) \in Containers \X Dirs
    BY <1>1, EmulatorAssumption DEF Dir
  <2> QED
    BY <1>2, <1>3, <1>4, <1>6, <2>1 DEF MakeDir, announced, EmulatorTypeOK
<1>7. CASE OpenFile(q)
  <2>1. files' \in [Containers -> [Paths -> Contents \cup {Nothing}]]
    BY <1>1, <1>7 DEF OpenFile, EmulatorTypeOK, Contents
  <2> QED
    BY <1>2, <1>3, <1>4, <1>7, <2>1 DEF OpenFile, announced, EmulatorTypeOK
<1>8. CASE WriteFile(q)
  <2>1. files' \in [Containers -> [Paths -> Contents \cup {Nothing}]]
    BY <1>1, <1>8 DEF WriteFile, EmulatorTypeOK
  <2> QED
    BY <1>2, <1>3, <1>4, <1>8, <2>1 DEF WriteFile, announced, EmulatorTypeOK
<1>9. CASE CommitRows(q)
  <2>1. /\ rows' \in [Containers -> [Paths -> Rows \cup {Nothing}]]
        /\ ids' \in [Containers -> [Paths -> Nat]]
    BY <1>1, <1>9, CommitType
  <2>2. UNCHANGED <<files, dirs, announced>>
    BY <1>9 DEF CommitRows
  <2> QED
    BY <1>2, <1>3, <1>4, <2>1, <2>2 DEF announced, EmulatorTypeOK
<1>10. CASE Publish(q)
  <2>1. queue' \in Seq(Containers \X Paths) /\ faceEvents' \subseteq Paths
    BY <1>1, <1>10, PublishedType DEF Publish, announced, EmulatorTypeOK
  <2>2. UNCHANGED stored
    BY <1>10 DEF Publish
  <2> QED
    BY <1>2, <1>3, <1>4, <2>1, <2>2 DEF stored, EmulatorTypeOK
<1>11. CASE DropRows(q, answer)
  <2>1. rows' \in [Containers -> [Paths -> Rows \cup {Nothing}]]
    BY <1>1, <1>11 DEF DropRows, EmulatorTypeOK
  <2>2. UNCHANGED <<files, ids, dirs, announced>>
    BY <1>11 DEF DropRows
  <2> QED
    BY <1>2, <1>3, <1>4, <2>1, <2>2 DEF announced, EmulatorTypeOK
<1>12. CASE Unlink(q, answer)
  <2>1. files' \in [Containers -> [Paths -> Contents \cup {Nothing}]]
    BY <1>1, <1>12 DEF Unlink, EmulatorTypeOK
  <2>2. UNCHANGED <<rows, ids, dirs, announced>>
    BY <1>12 DEF Unlink
  <2> QED
    BY <1>2, <1>3, <1>4, <2>1, <2>2 DEF announced, EmulatorTypeOK
<1>13. CASE Prune(q, answer)
  <2>1. dirs' \subseteq Containers \X Dirs /\ UNCHANGED <<files, rows, ids, announced>>
    BY <1>13 DEF Prune, EmulatorTypeOK
  <2> QED
    BY <1>2, <1>3, <1>4, <2>1 DEF announced, EmulatorTypeOK
<1> QED
  BY <1>5, <1>6, <1>7, <1>8, <1>9, <1>10, <1>11, <1>12, <1>13 DEF CallStep, PutStep

LEMMA SetTagsType ==
    ASSUME EmulatorTypeOK, NEW c \in Containers, NEW p \in Paths, NEW tags \in Tags \cup {Nothing},
           SetTags(c, p, tags)
    PROVE  EmulatorTypeOK'
<1> DEFINE row == [rows[c][p] EXCEPT !.tags = tags]
<1>1. rows[c][p] \in Rows
  BY RowType DEF SetTags
<1>2. row \in Rows
  BY <1>1 DEF Rows
<1>3. rows' = [rows EXCEPT ![c][p] = row]
  BY DEF SetTags
<1> HIDE DEF row
<1>4. rows' \in [Containers -> [Paths -> Rows \cup {Nothing}]]
  BY <1>2, <1>3 DEF EmulatorTypeOK
<1>5. UNCHANGED <<files, ids, dirs, calls, connected, announced, mixed>>
  BY DEF SetTags
<1> QED
  BY <1>4, <1>5 DEF EmulatorTypeOK, announced

LEMMA BeginTypes ==
    ASSUME TypeInv, NEW r \in Calls, r.op = "delete" => r.step \in 1..4, Begin(r),
           UNCHANGED <<stored, connected, announced>>
    PROVE  EmulatorTypeOK' /\ CallsInOrder'
<1>1. r.container \in Containers /\ r.path \in Paths
  BY DEF Calls
<1>2. calls' \subseteq Calls /\ CallsInOrder'
  BY DEF Begin, TypeInv, TypeOK, EmulatorTypeOK, CallsInOrder
<1>3. mixed' \in [Containers -> [Paths -> BOOLEAN]]
  BY <1>1 DEF Begin, TypeInv, TypeOK, EmulatorTypeOK
<1> QED
  BY <1>2, <1>3 DEF TypeInv, TypeOK, EmulatorTypeOK, stored, announced

LEMMA PutCall ==
    ASSUME NEW caller \in Callers, NEW c \in Containers, NEW p \in Paths,
           NEW bytes \in Contents \cup {Nothing}, NEW tags \in Tags \cup {Nothing},
           NEW metadata \in Uploads \cup {Nothing}
    PROVE  LET r == Put(caller, c, p, bytes, tags, metadata)
           IN  /\ r \in Calls /\ r.op = "put" /\ r.caller = caller /\ r.step = 1 /\ r.bytes = bytes
               /\ r.container = c /\ r.path = p /\ r.tags = tags /\ r.metadata = metadata
BY DEF Put, Calls, PutOrder

LEMMA DeleteCall ==
    ASSUME NEW caller \in Callers, NEW c \in Containers, NEW p \in Paths
    PROVE  LET r == Delete(caller, c, p)
           IN  /\ r \in Calls /\ r.op = "delete" /\ r.caller = caller /\ r.step = 1
               /\ r.container = c /\ r.path = p
BY DEF Delete, Calls, PutOrder

\* a call whose caller has gone stays what it was
LEMMA AbandonedTypes ==
    ASSUME TypeInv, NEW x \in Callers, faults > 0, calls' = Abandoned(x),
           UNCHANGED <<stored, connected, mixed, faceEvents>>,
           queue' \in Seq(Containers \X Paths)
    PROVE  /\ EmulatorTypeOK' /\ CallsInOrder'
           /\ (x # Admin /\ UNCHANGED admin) => EditsCall'
           /\ x = Admin => EditsCall'
<1>1. faults \in Callers /\ faults # Admin
  BY PipelineAssumption DEF TypeInv, TypeOK
<1>2. ASSUME NEW q \in calls
      PROVE  LET s == [q EXCEPT !.caller = faults]
             IN s \in Calls /\ s.caller = faults /\ s.op = q.op /\ s.step = q.step
  <2>1. q \in Calls
    BY DEF TypeInv, TypeOK, EmulatorTypeOK
  <2> QED
    BY <1>1, <2>1 DEF Calls
<1>3. calls' \subseteq Calls /\ CallsInOrder'
  <2>1. \A q \in calls : q \in Calls /\ (q.op = "delete" => q.step \in 1..4)
    BY DEF TypeInv, TypeOK, EmulatorTypeOK, CallsInOrder
  <2>2. ASSUME NEW s \in calls'
        PROVE  s \in Calls /\ (s.op = "delete" => s.step \in 1..4)
    <3>1. PICK q \in calls : s = IF q.caller = x THEN [q EXCEPT !.caller = faults] ELSE q
      BY DEF Abandoned
    <3> QED
      BY <1>2, <2>1, <3>1
  <2> QED
    BY <2>2 DEF CallsInOrder
<1>4. EmulatorTypeOK'
  BY <1>3 DEF TypeInv, TypeOK, EmulatorTypeOK, stored
<1>5. ASSUME NEW s \in calls', s.caller = Admin
      PROVE  x # Admin /\ s \in calls
  BY <1>1, <1>2, <1>5 DEF Abandoned
<1>6. (x # Admin /\ UNCHANGED admin) => EditsCall'
  BY <1>5 DEF EditsCall, TypeInv
<1>7. x = Admin => EditsCall'
  BY <1>5 DEF EditsCall
<1> QED
  BY <1>3, <1>4, <1>6, <1>7

LEMMA ForgetType ==
    ASSUME TypeOK, NEW ps, Forget(ps)
    PROVE  expected' \in [Paths -> Images \cup {Nothing, Unknown}]
BY DEF Forget, TypeOK

LEMMA FaultType ==
    ASSUME TypeOK, NEW ps, Fault(ps)
    PROVE  /\ expected' \in [Paths -> Images \cup {Nothing, Unknown}]
           /\ faults' \in 0..MaxFaults /\ faults \in 1..MaxFaults
<1>1. faults \in 0..MaxFaults /\ MaxFaults \in Nat
  BY PipelineAssumption DEF TypeOK
<1>2. faults' \in 0..MaxFaults /\ faults \in 1..MaxFaults
  BY <1>1 DEF Fault
<1> QED
  BY <1>2, ForgetType DEF Fault

LEMMA MovedType ==
    ASSUME TypeInv, admin.path \in DOMAIN NewPath, Moved
    PROVE  expected' \in [Paths -> Images \cup {Nothing, Unknown}]
<1>1. admin.path \in Paths /\ NewPath[admin.path] \in Paths
  BY PipelineAssumption
<1> QED
  BY <1>1 DEF Moved, TypeInv, TypeOK

LEMMA ImageOfType == ASSUME NEW u \in Uploads PROVE ImageOf(u) \in Images /\ <<u, FALSE>> \in Tags
BY DEF ImageOf, Images, Tags

\* the edit that is under way
LEMMA EditFacts ==
    ASSUME TypeInv, admin.pc # "idle"
    PROVE  /\ admin \in Edits /\ admin.path \in Paths /\ admin.found \in Tags \cup {Nothing}
           /\ admin.bytes \in Contents \cup {Nothing} /\ admin.tags \in Tags \cup {Nothing}
           /\ admin.pc # "mark" => admin.path \in DOMAIN NewPath /\ NewPath[admin.path] \in Paths
<1>1. admin \in Edits
  BY DEF TypeInv, TypeOK, NoEdit
<1> QED
  BY <1>1, PipelineAssumption DEF Edits, TypeInv, EditWell

LEMMA RetagEdit ==
    ASSUME TypeInv, admin.pc # "idle", NEW pc \in {"tags", "metadata", "copying", "retag", "delete", "deleting"}
    PROVE  LET e == [admin EXCEPT !.pc = pc]
           IN  /\ e \in Edits /\ e.pc = pc /\ e.path = admin.path /\ e.bytes = admin.bytes
               /\ e.found = admin.found
<1>1. admin \in Edits
  BY EditFacts
<1> QED
  BY <1>1 DEF Edits

LEMMA AnsweredTypes ==
    ASSUME TypeInv, NEW q \in calls, NEW answer \in {"none", "ok", "error"},
           CallStep(q, answer) \/ CallFails(q, answer), Answered(q, answer)
    PROVE  /\ upload' \in [Uploads -> {"never", "new", "saving", "201", "400", "500"}]
           /\ work' \in [Workers -> Jobs \cup {Idle}]
           /\ admin' \in Edits \cup {NoEdit} /\ edits' \in Nat
           /\ EditsCall' /\ EditWell' /\ CallsInOrder'
<1>1. upload' \in [Uploads -> {"never", "new", "saving", "201", "400", "500"}]
  BY DEF Answered, TypeInv, TypeOK
<1>2. work' \in [Workers -> Jobs \cup {Idle}]
  BY DEF Answered, TypeInv, TypeOK
<1>3. edits' \in Nat
  BY DEF Answered, TypeInv, TypeOK
<1>4. /\ CallsInOrder'
      /\ answer \in {"ok", "error"} => calls' = calls \ {q}
      /\ \A r, s \in calls' : r.caller = Admin /\ s.caller = Admin => r = s
      /\ \A s \in calls' : \E r \in calls : Same(r, s)
  <2>1. calls \subseteq Calls /\ CallsInOrder /\ rows \in [Containers -> [Paths -> Rows \cup {Nothing}]]
    BY DEF TypeInv, TypeOK, EmulatorTypeOK
  <2>2. \A r, s \in calls : r.caller = Admin /\ s.caller = Admin => r = s
    BY DEF TypeInv, EditsCall
  <2> QED
    BY <2>1, <2>2, CallsAfter DEF CallsInOrder
<1>5. CASE answer = "none" \/ q.caller # Admin
  <2>1. admin' = admin
    BY <1>5 DEF Answered
  <2>2. EditsCall'
    BY <1>4, <2>1 DEF EditsCall, TypeInv, Same
  <2> QED
    BY <1>1, <1>2, <1>3, <1>4, <2>1, <2>2 DEF TypeInv, TypeOK, EditWell
<1>6. CASE answer # "none" /\ q.caller = Admin
  <2>1. \A s \in calls' : s.caller # Admin
    BY <1>4, <1>6 DEF TypeInv, EditsCall
  <2>2. EditsCall'
    BY <2>1 DEF EditsCall
  <2>3. CASE answer = "ok" /\ q.op = "put"
    <3>1. admin.pc = "copying" /\ admin' = [admin EXCEPT !.pc = "retag"]
      BY <1>6, <2>3 DEF Answered, TypeInv, EditsCall
    <3>2. admin' \in Edits /\ admin'.pc = "retag" /\ admin'.path \in DOMAIN NewPath
      BY <3>1, EditFacts, RetagEdit
    <3> QED
      BY <1>1, <1>2, <1>3, <1>4, <2>2, <3>2 DEF EditWell
  <2>4. CASE ~(answer = "ok" /\ q.op = "put")
    <3>1. admin' = NoEdit
      BY <1>6, <2>4 DEF Answered
    <3> QED
      BY <1>1, <1>2, <1>3, <1>4, <2>2, <3>1 DEF EditWell, NoEdit
  <2> QED
    BY <2>3, <2>4
<1> QED
  BY <1>5, <1>6

LEMMA ServeTypes ==
    ASSUME TypeInv, NEW q \in calls, Serve(q) \/ ServeFails(q)
    PROVE  TypeInv'
<1>1. PICK answer \in {"none", "ok", "error"} :
        /\ CallStep(q, answer) \/ CallFails(q, answer)
        /\ Answered(q, answer)
        /\ \/ /\ UNCHANGED faults
              /\ \/ \E ps : Forget(ps)
                 \/ q.op = "delete" /\ q.caller = Admin /\ Moved
                 \/ UNCHANGED expected
           \/ \E ps : Fault(ps)
  BY DEF Serve, ServeFails
<1>2. EmulatorTypeOK'
  BY <1>1, StepTypes DEF TypeInv, TypeOK
<1>3. /\ upload' \in [Uploads -> {"never", "new", "saving", "201", "400", "500"}]
      /\ work' \in [Workers -> Jobs \cup {Idle}]
      /\ admin' \in Edits \cup {NoEdit} /\ edits' \in Nat
      /\ EditsCall' /\ EditWell' /\ CallsInOrder'
  BY <1>1, AnsweredTypes
<1>4. TypeOK
  BY DEF TypeInv
<1>5. expected' \in [Paths -> Images \cup {Nothing, Unknown}] /\ faults' \in 0..MaxFaults
  <2>1. CASE \E ps : Fault(ps)
    BY <1>4, <2>1, FaultType
  <2>2. CASE UNCHANGED faults /\ \E ps : Forget(ps)
    BY <1>4, <2>2, ForgetType DEF TypeOK
  <2>3. CASE UNCHANGED faults /\ q.op = "delete" /\ q.caller = Admin /\ Moved
    <3>1. admin.pc = "deleting"
      BY <2>3 DEF TypeInv, EditsCall
    <3> QED
      BY <1>4, <2>3, <3>1, EditFacts, MovedType DEF TypeOK
  <2>4. CASE UNCHANGED <<faults, expected>>
    BY <1>4, <2>4 DEF TypeOK
  <2> QED
    BY <1>1, <2>1, <2>2, <2>3, <2>4
<1> QED
  BY <1>2, <1>3, <1>5 DEF TypeInv, TypeOK

LEMMA RestartTypes ==
    ASSUME TypeInv, EmulatorRestarts \/ BrokerIsLost
    PROVE  TypeInv'
<1>1. TypeOK
  BY DEF TypeInv
<1>2. expected' \in [Paths -> Images \cup {Nothing, Unknown}] /\ faults' \in 0..MaxFaults
  BY <1>1, FaultType DEF EmulatorRestarts, BrokerIsLost
<1>3. CASE EmulatorRestarts
  <2>1. calls' = {} /\ mixed' = Spoiled(calls) /\ connected' \in [Containers -> BOOLEAN]
        /\ UNCHANGED <<stored, announced>>
    BY <1>3 DEF EmulatorRestarts, Restart
  <2>2. EmulatorTypeOK'
    BY <1>1, <2>1, SpoiledType DEF TypeOK, EmulatorTypeOK, stored, announced
  <2>3. CallsInOrder' /\ EditsCall'
    BY <2>1 DEF CallsInOrder, EditsCall
  <2>4. admin' \in {admin, NoEdit} /\ edits' = edits
        /\ upload' \in [Uploads -> {"never", "new", "saving", "201", "400", "500"}]
        /\ work' \in [Workers -> Jobs \cup {Idle}]
    BY <1>1, <1>3 DEF EmulatorRestarts, TypeOK
  <2>5. EditWell'
    BY <2>4 DEF TypeInv, EditWell, NoEdit
  <2> QED
    BY <1>1, <1>2, <2>2, <2>3, <2>4, <2>5 DEF TypeInv, TypeOK
<1>4. CASE BrokerIsLost
  <2>1. /\ connected' \in [Containers -> BOOLEAN]
        /\ UNCHANGED <<stored, calls, announced, mixed, upload, work, admin, edits>>
    BY <1>4 DEF BrokerIsLost, BrokerDrops
  <2> QED
    BY <1>1, <1>2, <2>1 DEF TypeInv, TypeOK, EmulatorTypeOK, CallsInOrder, EditsCall, EditWell, stored, announced
<1> QED
  BY <1>3, <1>4

LEMMA UploadTypes ==
    ASSUME TypeInv, NEW u \in Uploads, Upload(u)
    PROVE  TypeInv'
<1>1. TypeOK /\ UNCHANGED <<stored, connected, announced, work, admin, edits, faults>>
  BY DEF TypeInv, Upload
<1>2. upload' \in [Uploads -> {"never", "new", "saving", "201", "400", "500"}]
  BY <1>1 DEF Upload, TypeOK
<1>3. CASE Quality[u] = "refused"
  <2>1. UNCHANGED <<calls, mixed, expected>>
    BY <1>3 DEF Upload
  <2> QED
    BY <1>1, <1>2, <2>1 DEF TypeInv, TypeOK, EmulatorTypeOK, CallsInOrder, EditsCall, EditWell, stored, announced
<1>4. CASE Quality[u] # "refused"
  <2> DEFINE r == Put(u, "uploads", PathOf[u], u, <<u, FALSE>>, u)
  <2>1. u \in Callers /\ u # Admin /\ PathOf[u] \in Paths /\ "uploads" \in Containers
        /\ u \in Contents /\ <<u, FALSE>> \in Tags
    BY PipelineAssumption, ImageOfType DEF Containers, Contents
  <2>2. r \in Calls /\ r.op = "put" /\ r.caller = u
    BY <2>1, PutCall
  <2>3. Begin(r)
    BY <1>4 DEF Upload
  <2> HIDE DEF r
  <2>4. EmulatorTypeOK' /\ CallsInOrder'
    BY <1>1, <2>2, <2>3, BeginTypes
  <2>5. EditsCall' /\ EditWell'
    BY <1>1, <2>1, <2>2, <2>3 DEF TypeInv, EditsCall, EditWell, Begin
  <2>6. expected' \in [Paths -> Images \cup {Nothing, Unknown}]
    <3>1. expected' = [expected EXCEPT ![PathOf[u]] = AfterUpload(u)]
      BY <1>4 DEF Upload
    <3>2. AfterUpload(u) \in Images \cup {Nothing, Unknown}
      BY <1>1, <2>1, ImageOfType DEF AfterUpload, TypeOK
    <3> QED
      BY <1>1, <2>1, <3>1, <3>2 DEF TypeOK
  <2> QED
    BY <1>1, <1>2, <2>4, <2>5, <2>6 DEF TypeInv, TypeOK
<1> QED
  BY <1>3, <1>4

LEMMA CutOffTypes ==
    ASSUME TypeInv, (\E u \in Uploads : UploadCutOff(u)) \/ EditCutOff
    PROVE  TypeInv'
<1>1. TypeOK
  BY DEF TypeInv
<1>2. expected' \in [Paths -> Images \cup {Nothing, Unknown}] /\ faults' \in 0..MaxFaults /\ faults > 0
  BY <1>1, FaultType DEF UploadCutOff, EditCutOff, Fault
<1>3. ASSUME NEW u \in Uploads, UploadCutOff(u)
      PROVE  TypeInv'
  <2>1. /\ calls' = Abandoned(u) /\ upload' = [upload EXCEPT ![u] = "500"]
        /\ UNCHANGED <<stored, connected, announced, mixed, work, admin, edits>>
    BY <1>3 DEF UploadCutOff
  <2>2. u \in Callers /\ u # Admin /\ queue' \in Seq(Containers \X Paths)
        /\ UNCHANGED <<stored, connected, mixed, faceEvents>>
    BY <1>1, <2>1, PipelineAssumption DEF TypeOK, EmulatorTypeOK, announced
  <2>3. EmulatorTypeOK' /\ CallsInOrder' /\ EditsCall'
    BY <1>2, <2>1, <2>2, AbandonedTypes
  <2> QED
    BY <1>1, <1>2, <2>1, <2>3 DEF TypeInv, TypeOK, EditWell
<1>4. CASE EditCutOff
  <2>1. /\ calls' = Abandoned(Admin) /\ admin' = NoEdit
        /\ UNCHANGED <<stored, connected, announced, mixed, upload, work, edits>>
    BY <1>4 DEF EditCutOff, EditEnds
  <2>2. Admin \in Callers /\ queue' \in Seq(Containers \X Paths)
        /\ UNCHANGED <<stored, connected, mixed, faceEvents>>
    BY <1>1, <2>1, PipelineAssumption DEF TypeOK, EmulatorTypeOK, announced
  <2>3. EmulatorTypeOK' /\ CallsInOrder' /\ EditsCall'
    BY <1>2, <2>1, <2>2, AbandonedTypes
  <2> QED
    BY <1>1, <1>2, <2>1, <2>3 DEF TypeInv, TypeOK, EditWell, NoEdit
<1> QED
  BY <1>3, <1>4

-----------------------------------------------------------------------------
(* The resize service.                                                     *)

LEMMA IdleType == Idle.pc = "idle" /\ Idle \notin Jobs
BY DEF Idle, Jobs

LEMMA JobFacts ==
    ASSUME TypeInv, NEW w \in Workers, work[w].pc # "idle" \/ work[w] # Idle
    PROVE  /\ work[w] \in Jobs
           /\ work[w].event[1] \in Containers /\ work[w].event[2] \in Paths
           /\ work[w].event \in Containers \X Paths
           /\ work[w].bytes \in Contents \cup {Nothing} /\ work[w].tags \in Tags \cup {Nothing}
           /\ work[w].metadata \in Uploads \cup {Nothing}
<1>1. work[w] \in Jobs
  BY IdleType DEF TypeInv, TypeOK
<1> QED
  BY <1>1 DEF Jobs

\* what the emulator has of a blob
LEMMA BlobType ==
    ASSUME EmulatorTypeOK, NEW c \in Containers, NEW p \in Paths, Blob(c, p) # Nothing
    PROVE  /\ rows[c][p] # Nothing
           /\ Blob(c, p).bytes = files[c][p] /\ Blob(c, p).bytes \in Contents \cup {Nothing}
           /\ Blob(c, p).tags = rows[c][p].tags /\ Blob(c, p).tags \in Tags \cup {Nothing}
           /\ Blob(c, p).metadata = rows[c][p].metadata /\ Blob(c, p).metadata \in Uploads \cup {Nothing}
<1>1. rows[c][p] # Nothing
  BY DEF Blob
<1>2. files[c][p] \in Contents \cup {Nothing}
  BY DEF EmulatorTypeOK
<1> QED
  BY <1>1, <1>2, RowType DEF Blob

\* only what replica w is doing changes
LEMMA WorkTypes ==
    ASSUME TypeInv, NEW w \in Workers, NEW job \in Jobs \cup {Idle}, work' = [work EXCEPT ![w] = job],
           EmulatorTypeOK', CallsInOrder', EditsCall', UNCHANGED <<upload, admin, edits>>,
           faults' \in 0..MaxFaults, expected' \in [Paths -> Images \cup {Nothing, Unknown}]
    PROVE  TypeInv'
BY DEF TypeInv, TypeOK, EditWell

LEMMA ReadsTypes ==
    ASSUME TypeInv, NEW w \in Workers,
           NEW part \in {"bytes", "tags", "metadata"}, NEW next \in {"tags", "metadata", "resize"},
           Reads(w, part, next)
    PROVE  \E job \in Jobs \cup {Idle} : work' = [work EXCEPT ![w] = job]
<1>1. work[w].pc = part
  BY DEF Reads
<1>2. work[w] \in Jobs /\ work[w].event[1] \in Containers /\ work[w].event[2] \in Paths
  BY <1>1, JobFacts
<1>3. CASE work' = [work EXCEPT ![w] = Idle]
  BY <1>3
<1>4. CASE Original(w) # Nothing
           /\ work' = [work EXCEPT ![w] = [@ EXCEPT !.pc = next, ![part] = Original(w)[part]]]
  <2>1. /\ Original(w).bytes \in Contents \cup {Nothing} /\ Original(w).tags \in Tags \cup {Nothing}
        /\ Original(w).metadata \in Uploads \cup {Nothing}
    BY <1>2, <1>4, BlobType DEF Original, TypeInv, TypeOK
  <2> DEFINE job == [work[w] EXCEPT !.pc = next, ![part] = Original(w)[part]]
  <2>2. job \in Jobs
    <3>1. CASE part = "bytes"
      BY <1>2, <2>1, <3>1 DEF Jobs
    <3>2. CASE part = "tags"
      BY <1>2, <2>1, <3>2 DEF Jobs
    <3>3. CASE part = "metadata"
      BY <1>2, <2>1, <3>3 DEF Jobs
    <3> QED
      BY <3>1, <3>2, <3>3
  <2>3. work' = [work EXCEPT ![w] = job]
    BY <1>4 DEF TypeInv, TypeOK
  <2> QED
    BY <2>2, <2>3
<1> QED
  BY <1>3, <1>4 DEF Reads, Acknowledge

\* after a read that fails the event is dropped, or what was read will do
LEMMA FailedRead ==
    ASSUME TypeInv, NEW w \in Workers, ResizeFails(w)
    PROVE  /\ work[w] # Idle
           /\ \E job \in Jobs \cup {Idle} :
                /\ work' = [work EXCEPT ![w] = job]
                /\ job # Idle => job.event = work[w].event
<1>1. work[w].pc \in {"bytes", "tags", "metadata"} /\ work \in [Workers -> Jobs \cup {Idle}]
  BY DEF ResizeFails, TypeInv, TypeOK
<1>2. work[w] # Idle /\ work[w] \in Jobs
  BY <1>1 DEF Idle
<1>3. ASSUME NEW next \in {"metadata", "resize"}
      PROVE  LET job == [work[w] EXCEPT !.pc = next] IN job \in Jobs /\ job.event = work[w].event
  BY <1>2 DEF Jobs
<1>4. CASE work' = [work EXCEPT ![w] = Idle]
  BY <1>2, <1>4
<1>5. ASSUME NEW next \in {"metadata", "resize"}, work' = [work EXCEPT ![w].pc = next]
      PROVE  \E job \in Jobs \cup {Idle} :
                /\ work' = [work EXCEPT ![w] = job]
                /\ job # Idle => job.event = work[w].event
  <2> DEFINE job == [work[w] EXCEPT !.pc = next]
  <2>1. work' = [work EXCEPT ![w] = job]
    BY <1>1, <1>5
  <2> QED
    BY <1>3, <2>1
<1> QED
  BY <1>2, <1>4, <1>5 DEF ResizeFails, ReadsSome, Acknowledge

LEMMA ResizeTypes ==
    ASSUME TypeInv, NEW w \in Workers, Resize(w) \/ ResizeFails(w) \/ WorkerDies(w)
    PROVE  TypeInv'
<1>1. TypeOK /\ EmulatorTypeOK
  BY DEF TypeInv, TypeOK
<1>2. UNCHANGED <<upload, admin, edits, connected, faceEvents, stored>>
  BY DEF Resize, ResizeFails, WorkerDies, emulator, stored
<1>3. /\ UNCHANGED <<faults, expected>> => /\ faults' \in 0..MaxFaults
                                           /\ expected' \in [Paths -> Images \cup {Nothing, Unknown}]
      /\ \A ps : Fault(ps) => /\ faults' \in 0..MaxFaults
                              /\ expected' \in [Paths -> Images \cup {Nothing, Unknown}]
  BY <1>1, FaultType DEF TypeOK
<1>4. /\ UNCHANGED calls => CallsInOrder' /\ EditsCall'
      /\ UNCHANGED <<calls, mixed>> /\ queue' \in Seq(Containers \X Paths) => EmulatorTypeOK'
  BY <1>1, <1>2 DEF TypeInv, CallsInOrder, EditsCall, EmulatorTypeOK, stored
<1>5. CASE Take(w) /\ UNCHANGED <<calls, mixed, faults, expected>>
  <2>1. work[w] = Idle /\ queue # << >> /\ queue \in Seq(Containers \X Paths)
    BY <1>1, <1>5 DEF Take, EmulatorTypeOK
  <2>2. Head(queue) \in Containers \X Paths /\ Tail(queue) \in Seq(Containers \X Paths)
    BY <2>1
  <2> DEFINE job == [Idle EXCEPT !.pc = "bytes", !.event = Head(queue)]
  <2>3. job \in Jobs
    BY <2>2 DEF Idle, Jobs
  <2>4. work' = [work EXCEPT ![w] = job] /\ queue' = Tail(queue)
    BY <1>1, <1>5, <2>1 DEF Take, TypeOK
  <2> HIDE DEF job
  <2> QED
    BY <1>2, <1>3, <1>4, <1>5, <2>2, <2>3, <2>4, WorkTypes
<1>6. CASE (GetBlob(w) \/ GetBlobTags(w) \/ GetBlobMetadata(w)) /\ UNCHANGED <<faults, expected>>
  <2>1. UNCHANGED <<calls, queue, mixed>>
    BY <1>6 DEF GetBlob, GetBlobTags, GetBlobMetadata, Reads
  <2>2. queue' \in Seq(Containers \X Paths)
    BY <1>1, <2>1 DEF EmulatorTypeOK
  <2>3. PICK job \in Jobs \cup {Idle} : work' = [work EXCEPT ![w] = job]
    BY <1>6, ReadsTypes DEF GetBlob, GetBlobTags, GetBlobMetadata
  <2> QED
    BY <1>2, <1>3, <1>4, <1>6, <2>1, <2>2, <2>3, WorkTypes
<1>7. CASE SaveImage(w) /\ UNCHANGED <<faults, expected>>
  <2>1. UNCHANGED queue /\ queue' \in Seq(Containers \X Paths) /\ work[w].pc = "resize"
    BY <1>1, <1>7 DEF SaveImage, EmulatorTypeOK
  <2>2. work[w] \in Jobs /\ work[w].event[2] \in Paths
        /\ work[w].bytes \in Contents \cup {Nothing} /\ work[w].tags \in Tags \cup {Nothing}
        /\ work[w].metadata \in Uploads \cup {Nothing}
    BY <2>1, JobFacts
  <2>3. CASE Resizable(work[w].bytes)
    <3> DEFINE job == [work[w] EXCEPT !.pc = "saving"]
               r == Put(w, "images", work[w].event[2], work[w].bytes, work[w].tags, work[w].metadata)
    <3>1. w \in Callers /\ w # Admin /\ "images" \in Containers
      BY PipelineAssumption DEF Containers
    <3>2. r \in Calls /\ r.op = "put" /\ r.caller = w
      BY <2>2, <3>1, PutCall
    <3>3. Begin(r) /\ work' = [work EXCEPT ![w] = job]
      BY <1>1, <1>7, <2>3 DEF SaveImage, TypeOK
    <3>4. job \in Jobs
      BY <2>2 DEF Jobs
    <3> HIDE DEF r, job
    <3>5. UNCHANGED <<stored, connected, announced>>
      BY <1>2, <2>1 DEF announced
    <3>6. EmulatorTypeOK' /\ CallsInOrder'
      BY <3>2, <3>3, <3>5, BeginTypes
    <3>7. EditsCall'
      BY <1>2, <3>1, <3>2, <3>3 DEF TypeInv, EditsCall, Begin
    <3> QED
      BY <1>2, <1>3, <1>7, <3>3, <3>4, <3>6, <3>7, WorkTypes
  <2>4. CASE ~Resizable(work[w].bytes)
    <3>1. work' = [work EXCEPT ![w] = Idle] /\ UNCHANGED <<calls, mixed>>
      BY <1>7, <2>4 DEF SaveImage, Acknowledge
    <3> QED
      BY <1>2, <1>3, <1>4, <1>7, <2>1, <3>1, WorkTypes
  <2> QED
    BY <2>3, <2>4
<1>8. CASE ResizeFails(w)
  <2>1. UNCHANGED <<calls, mixed, queue>> /\ \E ps : Fault(ps)
    BY <1>8 DEF ResizeFails, emulator
  <2>2. queue' \in Seq(Containers \X Paths)
    BY <1>1, <2>1 DEF EmulatorTypeOK
  <2>3. PICK job \in Jobs \cup {Idle} : work' = [work EXCEPT ![w] = job]
    BY <1>8, FailedRead
  <2> QED
    BY <1>2, <1>3, <1>4, <2>1, <2>2, <2>3, WorkTypes
<1>9. CASE WorkerDies(w)
  <2>1. /\ work' = [work EXCEPT ![w] = Idle] /\ UNCHANGED mixed /\ calls' = Abandoned(w)
        /\ queue' = <<work[w].event>> \o queue /\ work[w] # Idle
        /\ \E ps : Fault(ps)
    BY <1>9 DEF WorkerDies, Acknowledge
  <2>2. faults > 0 /\ w \in Callers /\ w # Admin
    BY <2>1, PipelineAssumption DEF Fault
  <2>3. queue' \in Seq(Containers \X Paths)
    <3>1. work[w].event \in Containers \X Paths /\ queue \in Seq(Containers \X Paths)
      BY <1>1, <2>1, JobFacts DEF EmulatorTypeOK
    <3>2. <<work[w].event>> \in Seq(Containers \X Paths)
      BY <3>1
    <3> QED
      BY <2>1, <3>1, <3>2
  <2>4. EmulatorTypeOK' /\ CallsInOrder' /\ EditsCall'
    BY <1>2, <2>1, <2>2, <2>3, AbandonedTypes
  <2> QED
    BY <1>2, <1>3, <2>1, <2>4, WorkTypes
<1> QED
  BY <1>5, <1>6, <1>7, <1>8, <1>9 DEF Resize

-----------------------------------------------------------------------------
(* Edits.                                                                  *)

\* only the edit changes, and what is expected
LEMMA EditTypes ==
    ASSUME TypeInv, EmulatorTypeOK', CallsInOrder', EditsCall', EditWell',
           admin' \in Edits \cup {NoEdit}, edits' \in Nat, UNCHANGED <<upload, work>>,
           faults' \in 0..MaxFaults, expected' \in [Paths -> Images \cup {Nothing, Unknown}]
    PROVE  TypeInv'
BY DEF TypeInv, TypeOK

\* the edit ends, or goes on without a call, and the calls stay as they are
LEMMA EditsCallKept ==
    ASSUME TypeInv, UNCHANGED calls, admin.pc \notin {"copying", "deleting"}
    PROVE  CallsInOrder' /\ EditsCall'
BY DEF TypeInv, CallsInOrder, EditsCall

LEMMA FindPhotoTypes ==
    ASSUME TypeInv, FindPhoto
    PROVE  TypeInv'
<1>1. TypeOK /\ EmulatorTypeOK /\ admin = NoEdit /\ UNCHANGED <<emulator, upload, work, faults>>
  BY DEF TypeInv, TypeOK, FindPhoto
<1>2. EmulatorTypeOK' /\ edits' \in Nat /\ faults' \in 0..MaxFaults
  <2>1. edits' \in Nat
    <3>1. edits > 0 /\ edits' = edits - 1
      BY DEF FindPhoto
    <3>2. edits \in Nat
      BY <1>1 DEF TypeOK
    <3> QED
      BY <3>1, <3>2
  <2>2. EmulatorTypeOK'
    BY <1>1 DEF EmulatorTypeOK, emulator
  <2> QED
    BY <1>1, <2>1, <2>2 DEF TypeOK
<1>3. CallsInOrder' /\ EditsCall'
  BY <1>1, EditsCallKept DEF NoEdit, emulator
<1>4. PICK p \in Paths :
         /\ Blob("images", p) # Nothing /\ Blob("images", p).tags # Nothing
         /\ LET found == Blob("images", p).tags
            IN  \/ \E isDeleted \in BOOLEAN :
                     EditBegins([NoEdit EXCEPT !.pc = "mark", !.path = p,
                                               !.found = <<found[1], isDeleted>>], {p})
                \/ /\ p \in DOMAIN NewPath
                   /\ EditBegins([NoEdit EXCEPT !.pc = "bytes", !.path = p, !.found = found],
                                 {p, NewPath[p]})
  BY DEF FindPhoto
<1> DEFINE found == Blob("images", p).tags
<1>5. found \in Tags
  BY <1>1, <1>4, BlobType DEF Containers
<1>6. expected' \in [Paths -> Images \cup {Nothing, Unknown}]
  BY <1>1, <1>4, ForgetType DEF EditBegins
<1>7. admin' \in Edits /\ EditWell'
  <2>1. ASSUME NEW isDeleted \in BOOLEAN,
               admin' = [NoEdit EXCEPT !.pc = "mark", !.path = p, !.found = <<found[1], isDeleted>>]
        PROVE  admin' \in Edits /\ EditWell'
    <3>1. <<found[1], isDeleted>> \in Tags
      BY <1>5 DEF Tags
    <3> QED
      BY <2>1, <3>1 DEF NoEdit, Edits, EditWell
  <2>2. ASSUME p \in DOMAIN NewPath,
               admin' = [NoEdit EXCEPT !.pc = "bytes", !.path = p, !.found = found]
        PROVE  admin' \in Edits /\ EditWell'
    BY <1>5, <2>2 DEF NoEdit, Edits, EditWell
  <2> QED
    BY <1>4, <2>1, <2>2 DEF EditBegins
<1> QED
  BY <1>1, <1>2, <1>3, <1>6, <1>7, EditTypes

LEMMA MarkTypes ==
    ASSUME TypeInv, Mark
    PROVE  EmulatorTypeOK' /\ CallsInOrder' /\ EditsCall' /\ EditWell' /\ admin' = NoEdit
           /\ expected' \in [Paths -> Images \cup {Nothing, Unknown}]
<1>1. admin.pc = "mark" /\ admin' = NoEdit /\ TypeOK /\ EmulatorTypeOK
  BY DEF Mark, EditAt, EditEnds, TypeInv, TypeOK
<1>2. admin.found \in Tags /\ admin.path \in Paths
  BY <1>1, EditFacts DEF TypeInv, EditWell
<1>3. EditWell'
  BY <1>1 DEF EditWell, NoEdit
<1>4. CASE /\ SetTags("images", admin.path, admin.found)
           /\ expected' = [expected EXCEPT ![admin.path] =
                             IF @ \in Images THEN [@ EXCEPT !.tags = admin.found] ELSE @]
  <2>1. EmulatorTypeOK'
    BY <1>1, <1>2, <1>4, SetTagsType DEF Containers
  <2>2. UNCHANGED calls
    BY <1>4 DEF SetTags
  <2>3. \A x \in Images : [x EXCEPT !.tags = admin.found] \in Images
    BY <1>2 DEF Images
  <2>4. expected' \in [Paths -> Images \cup {Nothing, Unknown}]
    BY <1>1, <1>2, <1>4, <2>3 DEF TypeOK
  <2> QED
    BY <1>1, <1>3, <2>1, <2>2, <2>4, EditsCallKept
<1>5. CASE (\E ps : Forget(ps)) /\ UNCHANGED emulator
  <2>1. EmulatorTypeOK' /\ UNCHANGED calls
    BY <1>1, <1>5 DEF EmulatorTypeOK, emulator
  <2> QED
    BY <1>1, <1>3, <1>5, <2>1, EditsCallKept, ForgetType
<1> QED
  BY <1>4, <1>5 DEF Mark

LEMMA CopyBytesTypes ==
    ASSUME TypeInv, CopyBytes
    PROVE  EmulatorTypeOK' /\ CallsInOrder' /\ EditsCall' /\ EditWell' /\ admin' \in Edits \cup {NoEdit}
           /\ expected' \in [Paths -> Images \cup {Nothing, Unknown}]
<1>1. admin.pc = "bytes" /\ TypeOK /\ EmulatorTypeOK /\ UNCHANGED emulator
  BY DEF CopyBytes, EditAt, TypeInv, TypeOK
<1>2. EmulatorTypeOK' /\ UNCHANGED calls
  BY <1>1 DEF EmulatorTypeOK, emulator
<1>3. CallsInOrder' /\ EditsCall'
  BY <1>1, <1>2, EditsCallKept
<1>4. CASE Readable("images", admin.path)
  <2> DEFINE bytes == files["images"][admin.path]
  <2>1. admin' = [admin EXCEPT !.pc = "tags", !.bytes = bytes] /\ UNCHANGED expected
    BY <1>4 DEF CopyBytes, EditGoesOn
  <2>2. bytes \in Contents
    BY <1>1, <1>4, EditFacts DEF Readable, EmulatorTypeOK, Containers
  <2>3. admin \in Edits /\ admin.path \in DOMAIN NewPath
    BY <1>1, EditFacts
  <2> HIDE DEF bytes
  <2>4. admin' \in Edits /\ admin'.path = admin.path /\ admin'.bytes = bytes /\ admin'.pc = "tags"
    BY <2>1, <2>2, <2>3 DEF Edits
  <2> QED
    BY <1>1, <1>2, <1>3, <2>1, <2>2, <2>3, <2>4 DEF EditWell, TypeOK
<1>5. CASE ~Readable("images", admin.path)
  <2>1. admin' = NoEdit /\ \E ps : Forget(ps)
    BY <1>5 DEF CopyBytes, EditEnds
  <2> QED
    BY <1>1, <1>2, <1>3, <2>1, ForgetType DEF EditWell, NoEdit
<1> QED
  BY <1>4, <1>5

LEMMA CopyTagsTypes ==
    ASSUME TypeInv, NEW tags \in Tags \cup {Nothing}, CopyTags(tags)
    PROVE  EmulatorTypeOK' /\ CallsInOrder' /\ EditsCall' /\ EditWell' /\ admin' \in Edits
<1>1. admin.pc = "tags" /\ UNCHANGED emulator /\ admin' = [admin EXCEPT !.pc = "metadata", !.tags = tags]
  BY DEF CopyTags, EditAt
<1>2. EmulatorTypeOK' /\ UNCHANGED calls
  BY <1>1 DEF EmulatorTypeOK, emulator, TypeInv, TypeOK
<1>3. CallsInOrder' /\ EditsCall'
  BY <1>1, <1>2, EditsCallKept
<1>4. admin \in Edits /\ admin.path \in DOMAIN NewPath /\ admin.bytes \in Contents
  BY <1>1, EditFacts DEF TypeInv, EditWell
<1>5. admin' \in Edits /\ admin'.path = admin.path /\ admin'.bytes = admin.bytes /\ admin'.pc = "metadata"
  BY <1>1, <1>4 DEF Edits
<1> QED
  BY <1>2, <1>3, <1>4, <1>5 DEF EditWell

LEMMA CopyMetadataTypes ==
    ASSUME TypeInv, NEW metadata \in Uploads \cup {Nothing}, CopyMetadata(metadata)
    PROVE  EmulatorTypeOK' /\ CallsInOrder' /\ EditsCall' /\ EditWell' /\ admin' \in Edits
<1> DEFINE r == Put(Admin, "images", NewPath[admin.path], admin.bytes, admin.tags, metadata)
<1>1. admin.pc = "metadata" /\ Begin(r) /\ UNCHANGED <<stored, connected, announced>>
      /\ admin' = [admin EXCEPT !.pc = "copying"]
  BY DEF CopyMetadata, EditAt
<1>2. admin \in Edits /\ NewPath[admin.path] \in Paths /\ admin.path \in DOMAIN NewPath
      /\ admin.bytes \in Contents \cup {Nothing} /\ admin.tags \in Tags \cup {Nothing}
  BY <1>1, EditFacts
<1>3. r \in Calls /\ r.op = "put" /\ r.caller = Admin
  <2>1. Admin \in Callers /\ "images" \in Containers
    BY PipelineAssumption DEF Containers
  <2>2. \A p \in Paths, bytes \in Contents \cup {Nothing}, tags \in Tags \cup {Nothing} :
           LET put == Put(Admin, "images", p, bytes, tags, metadata)
           IN  put \in Calls /\ put.op = "put" /\ put.caller = Admin
    BY <2>1, PutCall
  <2> QED
    BY <1>2, <2>2
<1> HIDE DEF r
<1>4. EmulatorTypeOK' /\ CallsInOrder'
  BY <1>1, <1>3, BeginTypes
<1>5. admin' \in Edits /\ admin'.path = admin.path /\ admin'.pc = "copying"
  BY <1>1, <1>2, RetagEdit
<1>6. EditsCall'
  <2>1. \A q \in calls : q.caller # Admin
    BY <1>1 DEF TypeInv, EditsCall
  <2>2. calls' = calls \cup {r}
    BY <1>1 DEF Begin
  <2> QED
    BY <1>3, <1>5, <2>1, <2>2 DEF EditsCall
<1> QED
  BY <1>2, <1>4, <1>5, <1>6 DEF EditWell

LEMMA RetagTypes ==
    ASSUME TypeInv, Retag
    PROVE  EmulatorTypeOK' /\ CallsInOrder' /\ EditsCall' /\ EditWell' /\ admin' \in Edits \cup {NoEdit}
           /\ expected' \in [Paths -> Images \cup {Nothing, Unknown}]
<1>1. admin.pc = "retag" /\ TypeOK /\ EmulatorTypeOK
  BY DEF Retag, EditAt, TypeInv, TypeOK
<1>2. admin \in Edits /\ NewPath[admin.path] \in Paths /\ admin.path \in DOMAIN NewPath
      /\ admin.found \in Tags \cup {Nothing}
  BY <1>1, EditFacts
<1>3. CASE SetTags("images", NewPath[admin.path], admin.found) /\ EditGoesOn([admin EXCEPT !.pc = "delete"])
  <2>1. EmulatorTypeOK' /\ UNCHANGED calls
    BY <1>1, <1>2, <1>3, SetTagsType DEF Containers, SetTags
  <2>2. admin' \in Edits /\ admin'.path = admin.path /\ admin'.pc = "delete" /\ UNCHANGED expected
    BY <1>1, <1>2, <1>3, RetagEdit DEF EditGoesOn
  <2> QED
    BY <1>1, <1>2, <2>1, <2>2, EditsCallKept DEF EditWell, TypeOK
<1>4. CASE EditEnds /\ (\E ps : Forget(ps)) /\ UNCHANGED emulator
  <2>1. EmulatorTypeOK' /\ UNCHANGED calls /\ admin' = NoEdit
    BY <1>1, <1>4 DEF EmulatorTypeOK, emulator, EditEnds
  <2> QED
    BY <1>1, <1>4, <2>1, EditsCallKept, ForgetType DEF EditWell, NoEdit
<1> QED
  BY <1>3, <1>4 DEF Retag

LEMMA DeleteOldTypes ==
    ASSUME TypeInv, DeleteOld
    PROVE  EmulatorTypeOK' /\ CallsInOrder' /\ EditsCall' /\ EditWell' /\ admin' \in Edits
           /\ expected' \in [Paths -> Images \cup {Nothing, Unknown}]
<1> DEFINE r == Delete(Admin, "images", admin.path)
<1>1. admin.pc = "delete" /\ Begin(r) /\ UNCHANGED <<stored, connected, announced, expected>>
      /\ admin' = [admin EXCEPT !.pc = "deleting"] /\ TypeOK
  BY DEF DeleteOld, EditAt, EditGoesOn, TypeInv
<1>2. admin \in Edits /\ admin.path \in Paths /\ admin.path \in DOMAIN NewPath
  BY <1>1, EditFacts
<1>3. r \in Calls /\ r.op = "delete" /\ r.caller = Admin /\ r.step \in 1..4
  BY <1>2, DeleteCall, PipelineAssumption DEF Containers
<1> HIDE DEF r
<1>4. EmulatorTypeOK' /\ CallsInOrder'
  BY <1>1, <1>3, BeginTypes
<1>5. admin' \in Edits /\ admin'.path = admin.path /\ admin'.pc = "deleting"
  BY <1>1, <1>2, RetagEdit
<1>6. EditsCall'
  <2>1. \A q \in calls : q.caller # Admin
    BY <1>1 DEF TypeInv, EditsCall
  <2>2. calls' = calls \cup {r}
    BY <1>1 DEF Begin
  <2> QED
    BY <1>3, <1>5, <2>1, <2>2 DEF EditsCall
<1> QED
  BY <1>1, <1>2, <1>4, <1>5, <1>6 DEF EditWell, TypeOK

LEMMA CopiedTypes ==
    ASSUME TypeInv, admin.pc # "idle"
    PROVE  CopiedTags \in Tags \cup {Nothing} /\ CopiedMetadata \in Uploads \cup {Nothing}
<1>1. admin.path \in Paths /\ EmulatorTypeOK /\ "images" \in Containers
  BY EditFacts DEF TypeInv, TypeOK, Containers
<1> QED
  BY <1>1, BlobType DEF CopiedTags, CopiedMetadata

LEMMA EditStepTypes ==
    ASSUME TypeInv, EditStep
    PROVE  TypeInv'
<1>1. TypeOK /\ faults' \in 0..MaxFaults /\ UNCHANGED <<upload, work, edits>>
  BY DEF TypeInv, TypeOK, EditStep, Mark, CopyBytes, Retag, DeleteOld, CopyTags, CopyMetadata, EditAt
<1>2. edits' \in Nat
  BY <1>1 DEF TypeOK
<1>3. CASE Mark \/ CopyBytes \/ Retag \/ DeleteOld
  BY <1>1, <1>2, <1>3, MarkTypes, CopyBytesTypes, RetagTypes, DeleteOldTypes, EditTypes
<1>4. CASE (CopyTags(CopiedTags) \/ CopyMetadata(CopiedMetadata)) /\ UNCHANGED expected
  <2>1. admin.pc # "idle"
    BY <1>4 DEF CopyTags, CopyMetadata, EditAt
  <2>2. expected' \in [Paths -> Images \cup {Nothing, Unknown}]
    BY <1>1, <1>4 DEF TypeOK
  <2> QED
    BY <1>1, <1>2, <1>4, <2>1, <2>2, CopiedTypes, CopyTagsTypes, CopyMetadataTypes, EditTypes
<1> QED
  BY <1>3, <1>4 DEF EditStep

LEMMA EditFailsTypes ==
    ASSUME TypeInv, EditFails
    PROVE  TypeInv'
<1>1. TypeOK /\ EmulatorTypeOK /\ UNCHANGED <<upload, work, edits>>
  BY DEF TypeInv, TypeOK, EditFails, CopyTags, CopyMetadata, EditAt
<1>2. edits' \in Nat /\ faults' \in 0..MaxFaults /\ expected' \in [Paths -> Images \cup {Nothing, Unknown}]
  BY <1>1, FaultType DEF EditFails, TypeOK
<1>3. CASE CopyTags(Nothing) \/ CopyMetadata(Nothing)
  BY <1>1, <1>2, <1>3, CopyTagsTypes, CopyMetadataTypes, EditTypes
<1>4. ASSUME admin.pc \in {"mark", "retag", "bytes"}, admin' = NoEdit,
             \/ UNCHANGED emulator
             \/ SetTags("images", IF admin.pc = "mark" THEN admin.path ELSE NewPath[admin.path],
                        admin.found) /\ admin.pc # "bytes"
      PROVE  TypeInv'
  <2>1. admin.path \in Paths /\ (admin.pc # "mark" => NewPath[admin.path] \in Paths)
        /\ admin.found \in Tags \cup {Nothing} /\ "images" \in Containers
    BY <1>4, EditFacts DEF Containers
  <2>2. EmulatorTypeOK' /\ UNCHANGED calls
    <3>1. CASE UNCHANGED emulator
      BY <1>1, <3>1 DEF EmulatorTypeOK, emulator
    <3>2. CASE ~UNCHANGED emulator
      <4>1. PICK p \in Paths : SetTags("images", p, admin.found)
        BY <1>4, <2>1, <3>2
      <4> QED
        BY <1>1, <2>1, <4>1, SetTagsType DEF SetTags
    <3> QED
      BY <3>1, <3>2
  <2>3. EditWell'
    BY <1>4 DEF EditWell, NoEdit
  <2> QED
    BY <1>1, <1>2, <1>4, <2>2, <2>3, EditsCallKept, EditTypes
<1> QED
  BY <1>3, <1>4 DEF EditFails, EditAt, EditEnds

-----------------------------------------------------------------------------

LEMMA StartTypes == ASSUME Init PROVE TypeInv
<1>1. PICK start \in Starts : StartWith(start)
  BY DEF Init
<1>2. /\ start.uploads \in SUBSET Uploads /\ start.stored \in [Paths -> Uploads \cup {Nothing}]
      /\ start.connected \in BOOLEAN /\ start.edits \in Nat /\ start.faults \in 0..MaxFaults
  BY <1>1, PipelineAssumption DEF StartType
<1>3. \A p \in Paths : start.stored[p] # Nothing => start.stored[p] \in Uploads
  BY <1>2
<1>4. /\ calls = {} /\ queue = << >> /\ mixed = [c \in Containers |-> [p \in Paths |-> FALSE]]
      /\ work = [w \in Workers |-> Idle] /\ admin = NoEdit
  BY DEF Init
<1>5. files \in [Containers -> [Paths -> Contents \cup {Nothing}]]
  BY <1>1, <1>2 DEF StartWith, Contents
<1>6. rows \in [Containers -> [Paths -> Rows \cup {Nothing}]]
  <2> DEFINE row(p) == [id |-> 1, tags |-> <<start.stored[p], FALSE>>, metadata |-> start.stored[p]]
  <2>1. \A p \in Paths : start.stored[p] # Nothing => row(p) \in Rows
    BY <1>3 DEF Rows, Tags
  <2>2. rows = [c \in Containers |-> [p \in Paths |-> IF start.stored[p] # Nothing THEN row(p) ELSE Nothing]]
    BY <1>1 DEF StartWith
  <2> HIDE DEF row
  <2> QED
    BY <2>1, <2>2
<1>7. ids \in [Containers -> [Paths -> Nat]]
  BY <1>1 DEF StartWith
<1>8. dirs \subseteq Containers \X Dirs
  BY <1>1, EmulatorAssumption DEF StartWith
<1>9. connected \in [Containers -> BOOLEAN] /\ faceEvents \subseteq Paths
  BY <1>1, <1>2 DEF StartWith
<1>10. EmulatorTypeOK
  BY <1>4, <1>5, <1>6, <1>7, <1>8, <1>9 DEF EmulatorTypeOK
<1>11. /\ upload \in [Uploads -> {"never", "new", "saving", "201", "400", "500"}]
       /\ edits \in Nat /\ faults \in 0..MaxFaults
  BY <1>1, <1>2 DEF StartWith
<1>12. expected \in [Paths -> Images \cup {Nothing, Unknown}]
  <2>1. expected = [p \in Paths |-> IF start.stored[p] # Nothing THEN ImageOf(start.stored[p]) ELSE Nothing]
    BY <1>1 DEF StartWith
  <2> QED
    BY <1>3, <2>1, ImageOfType
<1>13. CallsInOrder /\ EditsCall /\ EditWell
  BY <1>4 DEF CallsInOrder, EditsCall, EditWell, NoEdit
<1> QED
  BY <1>4, <1>10, <1>11, <1>12, <1>13 DEF TypeInv, TypeOK

LEMMA TypesKept == ASSUME TypeInv, [Next]_vars PROVE TypeInv'
<1>1. CASE UNCHANGED vars
  BY <1>1 DEF vars, users, emulator, TypeInv, TypeOK, EmulatorTypeOK, CallsInOrder, EditsCall, EditWell
<1>2. ASSUME NEW u \in Uploads, Upload(u) \/ UploadCutOff(u)
      PROVE  TypeInv'
  BY <1>2, UploadTypes, CutOffTypes
<1>3. ASSUME NEW q \in calls, Serve(q) \/ ServeFails(q)
      PROVE  TypeInv'
  BY <1>3, ServeTypes
<1>4. CASE EmulatorRestarts \/ BrokerIsLost
  BY <1>4, RestartTypes
<1>5. ASSUME NEW w \in Workers, Resize(w) \/ ResizeFails(w) \/ WorkerDies(w)
      PROVE  TypeInv'
  BY <1>5, ResizeTypes
<1>6. CASE FindPhoto \/ EditStep \/ EditFails \/ EditCutOff
  BY <1>6, FindPhotoTypes, EditStepTypes, EditFailsTypes, CutOffTypes
<1> QED
  BY <1>1, <1>2, <1>3, <1>4, <1>5, <1>6 DEF Next, NoMoreUploads

LEMMA TypesInvariant == Spec => []TypeInv
<1>1. Init => TypeInv
  BY StartTypes
<1>2. TypeInv /\ [Next]_vars => TypeInv'
  BY TypesKept
<1> QED
  BY <1>1, <1>2, PTL DEF Spec

\* Uploads, resizing and edits, failures and restarts leave every part of the
\* pipeline of its type: an event names a blob, an edit that saves a copy has
\* read it, and what is expected of a path is an image, nothing or unknown.
THEOREM UploadTypeCorrect == Spec => []TypeOK
<1>1. TypeInv => TypeOK
  BY DEF TypeInv
<1> QED
  BY <1>1, TypesInvariant, PTL

-----------------------------------------------------------------------------
(* What is seen of a blob.                                                 *)

\* what a blob is said to be while call q changes it
About(q) == [next |-> Outcome(q)]

LEMMA SeenFacts ==
    ASSUME NEW c \in Containers, NEW p \in Paths
    PROVE  /\ mixed[c][p] => Seen(c, p) = Mixed
           /\ \A q : ~mixed[c][p] /\ UnsettledOn(c, p) = {q} => Seen(c, p) = About(q)
           /\ ~mixed[c][p] /\ UnsettledOn(c, p) = {} => Seen(c, p) = Blob(c, p)
BY DEF Seen, About

\* nothing that is seen of a blob changes
Untouched(c, p) ==
    /\ UnsettledOn(c, p)' = UnsettledOn(c, p)
    /\ files'[c][p] = files[c][p] /\ rows'[c][p] = rows[c][p] /\ mixed'[c][p] = mixed[c][p]

LEMMA UntouchedSame ==
    ASSUME NEW c \in Containers, NEW p \in Paths, Untouched(c, p)
    PROVE  Seen(c, p)' = Seen(c, p)
<1>1. Blob(c, p)' = Blob(c, p)
  BY DEF Untouched, Blob
<1> QED
  BY <1>1 DEF Untouched, Seen

LEMMA UntouchedWhole ==
    ASSUME TypeInv, NEW c \in Containers, NEW p \in Paths, Untouched(c, p), Whole(c, p)
    PROVE  Whole(c, p)'
<1>1. \A q \in UnsettledOn(c, p) : File(q)' = File(q) /\ Row(q)' = Row(q)
  BY DEF UnsettledOn, On, File, Row, Untouched
<1>2. ASSUME NEW q \in UnsettledOn(c, p)
      PROVE  Halfway(q)'
  BY <1>1, <1>2 DEF Whole, Halfway
<1> QED
  BY <1>2 DEF Whole, Untouched

\* what may happen to a blob: it may stay what it is, be disturbed, or be
\* changed for good
Kept(c, p) == Seen(c, p)' = Seen(c, p)

Ended(c, p) == Seen(c, p) \in Promises!Changing /\ Seen(c, p)' = Seen(c, p).next

Spoilt(c, p) == Seen(c, p) \in Promises!Changing /\ Seen(c, p)' = Mixed

LEMMA AboutFacts ==
    ASSUME NEW q \in Calls, q.op = "put" => q.bytes # Nothing
    PROVE  About(q) \in Promises!Changing /\ About(q).next = Outcome(q)
<1>1. q.op = "put" => q.bytes \in Contents /\ q.tags \in Tags \cup {Nothing} /\ q.metadata \in Uploads \cup {Nothing}
  BY DEF Calls
<1>2. Outcome(q) \in Promises!Settled
  <2>1. CASE q.op = "delete"
    BY <2>1 DEF Outcome, Promises!Settled
  <2>2. CASE q.op = "put"
    <3>1. [bytes |-> q.bytes, tags |-> q.tags, metadata |-> q.metadata] \in Promises!Wholes
      BY <1>1, <2>2 DEF Promises!Wholes
    <3> QED
      BY <2>2, <3>1 DEF Outcome, Promises!Settled
  <2> QED
    BY <2>1, <2>2 DEF Calls
<1> QED
  BY <1>2 DEF About, Promises!Changing

\* calls elsewhere do not touch a blob
LEMMA ElsewhereUntouched ==
    ASSUME TypeInv, NEW q \in calls, NEW answer, CallStep(q, answer) \/ CallFails(q, answer),
           NEW c \in Containers, NEW p \in Paths, <<c, p>> # <<q.container, q.path>>
    PROVE  Untouched(c, p) /\ On(c, p)' = On(c, p)
<1>1. q \in Calls /\ q.container \in Containers /\ q.path \in Paths
  BY DEF TypeInv, TypeOK, EmulatorTypeOK, Calls
<1>2. q.container # c \/ q.path # p
  OBVIOUS
<1>3. mixed'[c][p] = mixed[c][p]
  <2>1. Spoiled({q})[c][p] = mixed[c][p]
    BY <1>2 DEF Spoiled, TypeInv, TypeOK, EmulatorTypeOK
  <2> QED
    BY <2>1 DEF CallStep, CallFails, PutStep, DirGone, LookUp, DropRows, Unlink, Prune
<1>4. files'[c][p] = files[c][p] /\ rows'[c][p] = rows[c][p]
  <2>1. /\ files \in [Containers -> [Paths -> Contents \cup {Nothing}]]
        /\ rows \in [Containers -> [Paths -> Rows \cup {Nothing}]]
    BY DEF TypeInv, TypeOK, EmulatorTypeOK
  <2>2. CASE UNCHANGED files /\ UNCHANGED rows
    BY <2>2
  <2>3. CASE UNCHANGED rows /\ \E x : files' = [files EXCEPT ![q.container][q.path] = x]
    BY <1>1, <1>2, <2>1, <2>3
  <2>4. CASE UNCHANGED files /\ \E x : rows' = [rows EXCEPT ![q.container][q.path] = x]
    BY <1>1, <1>2, <2>1, <2>4
  <2>5. CASE CallFails(q, answer) \/ DirGone(q, answer) \/ LookUp(q, answer) \/ Publish(q)
    BY <2>2, <2>5 DEF CallFails, DirGone, LookUp, Publish, stored
  <2>6. CASE MakeDir(q) \/ OpenFile(q) \/ WriteFile(q) \/ CommitRows(q)
    BY <2>2, <2>3, <2>4, <2>6 DEF MakeDir, OpenFile, WriteFile, CommitRows
  <2>7. CASE DropRows(q, answer) \/ Unlink(q, answer) \/ Prune(q, answer)
    BY <2>2, <2>3, <2>4, <2>7 DEF DropRows, Unlink, Prune
  <2> QED
    BY <2>5, <2>6, <2>7 DEF CallStep, PutStep
<1>5. \A s : s.container = c /\ s.path = p => (s \in calls' <=> s \in calls)
  <2>1. CASE calls' = calls \ {q}
    BY <1>2, <2>1
  <2>2. ASSUME NEW t, Same(q, t), calls' = (calls \ {q}) \cup {t}
        PROVE  \A s : s.container = c /\ s.path = p => (s \in calls' <=> s \in calls)
    BY <1>2, <2>2 DEF Same
  <2>3. CASE GoesOn(q, answer)
    <3>1. Same(q, After(q))
      BY <1>1 DEF After, Calls, Same
    <3> QED
      BY <1>1, <2>1, <2>2, <2>3, <3>1, GoesOnFacts
  <2>4. CASE LookUp(q, answer)
    <3>1. Same(q, [q EXCEPT !.step = q.step + 1, !.id = Row(q).id])
      BY <1>1 DEF Calls, Same
    <3> QED
      BY <2>1, <2>2, <2>4, <3>1 DEF LookUp
  <2>5. CASE Unlink(q, answer)
    <3>1. calls' = {Unlinked(q, r) : r \in calls}
      BY <2>5 DEF Unlink, Unlinked, After
    <3>2. ASSUME NEW r \in calls
          PROVE  /\ Unlinked(q, r).container = r.container /\ Unlinked(q, r).path = r.path
                 /\ (r.container # q.container \/ r.path # q.path) => Unlinked(q, r) = r
      <4>1. r \in Calls
        BY DEF TypeInv, TypeOK, EmulatorTypeOK
      <4> QED
        BY <4>1 DEF Unlinked, After, On, Calls
    <3> QED
      BY <1>2, <3>1, <3>2
  <2> QED
    BY <2>1, <2>3, <2>4, <2>5 DEF CallStep, CallFails, PutStep, DirGone, DropRows, Prune
<1>6. UnsettledOn(c, p)' = UnsettledOn(c, p)
  BY <1>5 DEF UnsettledOn, On
<1>7. On(c, p)' = On(c, p)
  BY <1>5 DEF On
<1> QED
  BY <1>3, <1>4, <1>6, <1>7 DEF Untouched

\* the call that is changing a blob which is not mixed
LEMMA Alone ==
    ASSUME TypeInv, BlobsInv, NEW q \in calls, Unsettled(q), ~mixed[q.container][q.path]
    PROVE  /\ q \in Calls /\ q.container \in Containers /\ q.path \in Paths
           /\ q.op = "delete" => q.step \in 1..4
           /\ UnsettledOn(q.container, q.path) = {q} /\ Halfway(q)
           /\ Seen(q.container, q.path) = About(q) /\ About(q) \in Promises!Changing
           /\ About(q).next = Outcome(q)
<1>1. /\ q \in Calls /\ q.container \in Containers /\ q.path \in Paths
      /\ q.op = "delete" => q.step \in 1..4
  BY DEF TypeInv, TypeOK, EmulatorTypeOK, CallsInOrder, Calls
<1>2. Whole(q.container, q.path)
  BY <1>1 DEF BlobsInv
<1>3. UnsettledOn(q.container, q.path) = {q} /\ Halfway(q)
  <2>1. q \in UnsettledOn(q.container, q.path)
    BY DEF UnsettledOn, On
  <2> QED
    BY <1>2, <2>1 DEF Whole
<1>4. Seen(q.container, q.path) = About(q)
  BY <1>1, <1>3, SeenFacts
<1>5. About(q) \in Promises!Changing /\ About(q).next = Outcome(q)
  BY <1>1, <1>3, AboutFacts DEF Halfway
<1> QED
  BY <1>1, <1>3, <1>4, <1>5

\* the call of a blob goes on, and with it all that is promised of the blob
LEMMA StillAlone ==
    ASSUME TypeInv, BlobsInv, NEW q \in calls, Unsettled(q), ~mixed[q.container][q.path],
           UNCHANGED mixed, NEW t, Same(q, t), calls' = (calls \ {q}) \cup {t},
           Unsettled(t), t.bytes = q.bytes, Halfway(t)'
    PROVE  Kept(q.container, q.path) /\ Whole(q.container, q.path)'
<1> DEFINE c == q.container
           p == q.path
<1>1. UnsettledOn(c, p) = {q} /\ Seen(c, p) = About(q) /\ c \in Containers /\ p \in Paths
  BY Alone
<1>2. UnsettledOn(c, p)' = {t}
  BY <1>1 DEF UnsettledOn, On, Same
<1>3. About(t) = About(q)
  BY DEF About, Outcome, Same
<1>4. Seen(c, p)' = About(t)
  BY <1>2 DEF Seen, About
<1>5. Whole(c, p)'
  BY <1>2 DEF Whole
<1> QED
  BY <1>1, <1>3, <1>4, <1>5 DEF Kept

\* the call of a blob has made its last change
LEMMA AllDone ==
    ASSUME TypeInv, BlobsInv, NEW q \in calls, Unsettled(q), ~mixed[q.container][q.path],
           UNCHANGED mixed, UnsettledOn(q.container, q.path)' = {},
           Blob(q.container, q.path)' = Outcome(q),
           Row(q)' # Nothing => File(q)' # Nothing
    PROVE  Ended(q.container, q.path) /\ Whole(q.container, q.path)'
<1>1. /\ Seen(q.container, q.path) = About(q) /\ About(q) \in Promises!Changing
      /\ About(q).next = Outcome(q)
  BY Alone
<1>2. Seen(q.container, q.path)' = Outcome(q)
  BY DEF Seen
<1>3. Whole(q.container, q.path)'
  BY DEF Whole, Row, File
<1> QED
  BY <1>1, <1>2, <1>3 DEF Ended

\* a call that fails before its last change, and is not alone with it
LEMMA Failed ==
    ASSUME TypeInv, BlobsInv, NEW q \in calls, Unsettled(q), ~mixed[q.container][q.path],
           mixed' = Spoiled({q})
    PROVE  Spoilt(q.container, q.path) /\ mixed'[q.container][q.path]
<1>1. /\ Seen(q.container, q.path) = About(q) /\ About(q) \in Promises!Changing
      /\ q.container \in Containers /\ q.path \in Paths
  BY Alone
<1>2. mixed'[q.container][q.path]
  BY <1>1 DEF Spoiled
<1> QED
  BY <1>1, <1>2 DEF Seen, Spoilt

\* a step of a call that is changing a blob, PUT and DELETE
LEMMA PutHere ==
    ASSUME TypeInv, BlobsInv, NEW q \in calls, NEW answer, CallStep(q, answer),
           Unsettled(q), ~mixed[q.container][q.path], q.op = "put"
    PROVE  LET c == q.container
               p == q.path
           IN  \/ Spoilt(c, p) /\ mixed'[c][p]
               \/ (Kept(c, p) \/ Ended(c, p)) /\ Whole(c, p)'
<1>1. q \in Calls /\ q.container \in Containers /\ q.path \in Paths /\ Halfway(q)
      /\ UnsettledOn(q.container, q.path) = {q}
  BY Alone
<1>2. q.step \in 1..4 /\ q.step # Len(Order(q))
  <2>1. q.step \in 1..4 /\ Len(Order(q)) = 5
    BY <1>1, PutSteps
  <2> QED
    BY <2>1
<1>3. files \in [Containers -> [Paths -> Contents \cup {Nothing}]]
      /\ rows \in [Containers -> [Paths -> Rows \cup {Nothing}]]
  BY DEF TypeInv, TypeOK, EmulatorTypeOK
<1>4. /\ Same(q, After(q)) /\ After(q).bytes = q.bytes /\ After(q).step = q.step + 1
      /\ After(q) \in Calls
  BY <1>1, <1>2, AfterFacts
<1>5. CASE DirGone(q, answer)
  BY <1>5, Failed DEF DirGone
<1>6. ASSUME PutStep(q, answer)
      PROVE  UNCHANGED mixed /\ calls' = (calls \ {q}) \cup {After(q)}
  BY <1>1, <1>2, <1>6, GoesOnFacts DEF PutStep
<1>7. CASE PutStep(q, answer) /\ q.step # 4
  <2>1. After(q).op = "put" /\ After(q).step \in 2..4 /\ Unsettled(After(q))
    BY <1>2, <1>4, <1>7 DEF Same, Unsettled
  <2>2. Halfway(After(q))'
    <3>1. After(q).step = 4 => File(q)' = q.bytes
      <4>1. ASSUME After(q).step = 4
            PROVE  WriteFile(q) /\ q.bytes # Nothing
        <5>1. q.step = 3
          BY <1>2, <1>4, <4>1
        <5> QED
          BY <1>1, <1>7, <5>1, PutSteps DEF PutStep, MakeDir, OpenFile, CommitRows, Publish, Halfway
      <4> QED
        BY <1>1, <1>3, <4>1 DEF WriteFile, File
    <3>2. File(After(q))' = File(q)'
      BY <1>4 DEF File, Same
    <3> QED
      BY <1>1, <1>4, <2>1, <3>1, <3>2 DEF Halfway
  <2> QED
    BY <1>4, <1>6, <1>7, <2>1, <2>2, StillAlone
<1>8. CASE PutStep(q, answer) /\ q.step = 4
  <2>1. CommitRows(q)
    BY <1>1, <1>8, PutSteps DEF PutStep, MakeDir, OpenFile, WriteFile, Publish
  <2>2. ~Unsettled(After(q))
    BY <1>4, <1>8 DEF Same, Unsettled
  <2>3. UnsettledOn(q.container, q.path)' = {}
    BY <1>1, <1>4, <1>6, <1>8, <2>2 DEF UnsettledOn, On
  <2>4. File(q)' = q.bytes /\ q.bytes # Nothing
    BY <1>1, <1>8, <2>1 DEF CommitRows, Halfway, File
  <2>5. /\ Row(q)' = [id |-> IF Row(q) = Nothing THEN ids[q.container][q.path] + 1 ELSE Row(q).id,
                      tags |-> q.tags, metadata |-> q.metadata]
    BY <1>1, <1>3, <2>1 DEF CommitRows, Row
  <2>6. Row(q)' # Nothing
    <3>1. EmulatorTypeOK
      BY DEF TypeInv, TypeOK
    <3>2. rows' \in [Containers -> [Paths -> Rows \cup {Nothing}]]
      BY <1>1, <2>1, <3>1, CommitType
    <3> DEFINE n == IF Row(q) = Nothing THEN ids[q.container][q.path] + 1 ELSE Row(q).id
    <3>3. n \in Nat
      <4>1. ids[q.container][q.path] \in Nat
        BY <1>1, <3>1 DEF EmulatorTypeOK
      <4>2. Row(q) # Nothing => Row(q).id \in Nat
        BY <1>1, <3>1, RowType DEF Row
      <4> QED
        BY <4>1, <4>2
    <3> HIDE DEF n
    <3>4. [id |-> n, tags |-> q.tags, metadata |-> q.metadata] \in Rows
      BY <1>1, <3>3 DEF Rows, Calls
    <3> QED
      BY <2>5, <3>4, EmulatorAssumption DEF n
  <2>7. Blob(q.container, q.path)' = Outcome(q)
    <3>1. Row(q)'.tags = q.tags /\ Row(q)'.metadata = q.metadata
      BY <2>5
    <3> QED
      BY <2>4, <2>6, <3>1 DEF Blob, Outcome, Row, File
  <2> QED
    BY <1>6, <1>8, <2>3, <2>4, <2>7, AllDone
<1>9. CASE LookUp(q, answer) \/ DropRows(q, answer) \/ Unlink(q, answer) \/ Prune(q, answer)
  BY <1>1, <1>9, PutSteps DEF LookUp, DropRows, Unlink, Prune
<1> QED
  BY <1>5, <1>7, <1>8, <1>9 DEF CallStep

LEMMA DeleteHere ==
    ASSUME TypeInv, BlobsInv, NEW q \in calls, NEW answer, CallStep(q, answer),
           Unsettled(q), ~mixed[q.container][q.path], q.op = "delete"
    PROVE  LET c == q.container
               p == q.path
           IN  \/ Spoilt(c, p) /\ mixed'[c][p]
               \/ (Kept(c, p) \/ Ended(c, p)) /\ Whole(c, p)'
<1>1. q \in Calls /\ q.container \in Containers /\ q.path \in Paths /\ Halfway(q)
      /\ UnsettledOn(q.container, q.path) = {q} /\ Outcome(q) = Nothing
  BY Alone DEF Outcome
<1>2. q.step \in 1..3
  <2>1. q.step \in 1..4
    BY Alone
  <2> QED
    BY <1>1, <2>1, DeleteSteps
<1>3. q.step # Len(Order(q)) /\ q.step \in 1..4
  <2>1. Len(Order(q)) = 4
    BY <1>1, <1>2, DeleteSteps
  <2> QED
    BY <1>2, <2>1
<1>4. files \in [Containers -> [Paths -> Contents \cup {Nothing}]]
      /\ rows \in [Containers -> [Paths -> Rows \cup {Nothing}]]
  BY DEF TypeInv, TypeOK, EmulatorTypeOK
<1>5. /\ Same(q, After(q)) /\ After(q).bytes = q.bytes /\ After(q).step = q.step + 1
      /\ After(q) \in Calls /\ After(q).id = q.id
  BY <1>1, <1>3, AfterFacts
<1>6. CASE LookUp(q, answer)
  <2>1. q.step = 1 /\ UNCHANGED <<files, rows, mixed>>
    BY <1>1, <1>3, <1>6, DeleteSteps DEF LookUp, stored
  <2>2. CASE Row(q) = Nothing
    <3>1. calls' = calls \ {q}
      BY <1>6, <2>2 DEF LookUp
    <3>2. UnsettledOn(q.container, q.path)' = {}
      BY <1>1, <3>1 DEF UnsettledOn, On
    <3>3. Row(q)' = Nothing
      BY <2>1, <2>2 DEF Row
    <3>4. Blob(q.container, q.path)' = Nothing
      BY <3>3 DEF Blob, Row
    <3> QED
      BY <1>1, <2>1, <3>2, <3>3, <3>4, AllDone
  <2>3. CASE Row(q) # Nothing
    <3>1. PICK n \in Nat : n = Row(q).id
      BY <1>1, <2>3, RowType DEF Row, TypeInv, TypeOK
    <3> DEFINE t == [q EXCEPT !.step = q.step + 1, !.id = n]
    <3>2. t \in Calls /\ Same(q, t) /\ t.step = 2 /\ t.id = Row(q).id
      BY <1>1, <2>1, <3>1, LookedUpFacts
    <3>3. t.bytes = q.bytes
      BY <1>1 DEF Calls
    <3>4. calls' = (calls \ {q}) \cup {t}
      BY <1>6, <2>3, <3>1 DEF LookUp
    <3> HIDE DEF t
    <3>5. Row(t)' = Row(q)
      BY <2>1, <3>2 DEF Row, Same
    <3>6. Unsettled(t) /\ Halfway(t)'
      BY <2>3, <3>2, <3>5 DEF Unsettled, Halfway, Same
    <3> QED
      BY <2>1, <3>2, <3>3, <3>4, <3>6, StillAlone
  <2> QED
    BY <2>2, <2>3
<1>7. CASE DropRows(q, answer)
  <2>1. q.step = 2 /\ UNCHANGED mixed
    BY <1>1, <1>3, <1>7, DeleteSteps DEF DropRows
  <2>2. calls' = (calls \ {q}) \cup {After(q)}
    BY <1>1, <1>3, <1>7, GoesOnFacts DEF DropRows
  <2>3. Row(q)' = Nothing
    BY <1>1, <1>4, <1>7, <2>1 DEF DropRows, Halfway, Row
  <2>4. Row(After(q))' = Nothing
    BY <1>5, <2>3 DEF Row, Same
  <2>5. Unsettled(After(q)) /\ Halfway(After(q))'
    BY <1>5, <2>1, <2>4 DEF Unsettled, Halfway, Same
  <2> QED
    BY <1>5, <2>1, <2>2, <2>5, StillAlone
<1>8. CASE Unlink(q, answer)
  <2>1. q.step = 3 /\ UNCHANGED <<mixed, rows>> /\ calls' = {Unlinked(q, r) : r \in calls}
    BY <1>1, <1>3, <1>8, DeleteSteps DEF Unlink, Unlinked, After
  <2>2. ~Unsettled(After(q))
    BY <1>5, <2>1 DEF Unsettled, Same
  <2>3. UnsettledOn(q.container, q.path)' = {}
    <3>1. ASSUME NEW r \in calls, Unlinked(q, r).container = q.container, Unlinked(q, r).path = q.path
          PROVE  ~Unsettled(Unlinked(q, r))
      <4>1. CASE r = q
        BY <2>2, <4>1 DEF Unlinked
      <4>2. CASE r # q
        <5>1. r \in Calls
          BY DEF TypeInv, TypeOK, EmulatorTypeOK
        <5>2. /\ [r EXCEPT !.bytes = Nothing].container = r.container
              /\ [r EXCEPT !.bytes = Nothing].path = r.path
              /\ [r EXCEPT !.bytes = Nothing].op = r.op
              /\ [r EXCEPT !.bytes = Nothing].step = r.step
          BY <5>1 DEF Calls
        <5>3. r.container = q.container /\ r.path = q.path
          BY <3>1, <4>2, <5>2 DEF Unlinked
        <5>4. ~Unsettled(r)
          BY <1>1, <4>2, <5>3 DEF UnsettledOn, On
        <5> QED
          BY <4>2, <5>2, <5>4 DEF Unlinked, Unsettled
      <4> QED
        BY <4>1, <4>2
    <3> QED
      BY <2>1, <3>1 DEF UnsettledOn, On
  <2>4. Row(q)' = Nothing
    BY <1>1, <2>1 DEF Row, Halfway
  <2>5. Blob(q.container, q.path)' = Outcome(q)
    BY <1>1, <2>4 DEF Blob, Row
  <2> QED
    BY <2>1, <2>3, <2>4, <2>5, AllDone
<1>9. CASE PutStep(q, answer) \/ DirGone(q, answer) \/ Prune(q, answer)
  BY <1>1, <1>2, <1>3, <1>9, DeleteSteps DEF PutStep, MakeDir, OpenFile, WriteFile, CommitRows, Publish, DirGone, Prune
<1> QED
  BY <1>6, <1>7, <1>8, <1>9 DEF CallStep

\* a failing step of a call that is changing a blob
LEMMA FailsHere ==
    ASSUME TypeInv, BlobsInv, NEW q \in calls, NEW answer, CallFails(q, answer),
           Unsettled(q), ~mixed[q.container][q.path]
    PROVE  LET c == q.container
               p == q.path
           IN  \/ Spoilt(c, p) /\ mixed'[c][p]
               \/ Ended(c, p) /\ Whole(c, p)'
<1>1. /\ q \in Calls /\ q.container \in Containers /\ q.path \in Paths /\ Halfway(q)
      /\ UnsettledOn(q.container, q.path) = {q}
      /\ q.op = "delete" => q.step \in 1..4
  BY Alone
<1>2. CASE mixed' = Spoiled({q})
  BY <1>2, Failed
<1>3. CASE (At(q, "publish") \/ At(q, "unlink") \/ At(q, "prune")) /\ GoesOn(q, answer) /\ UNCHANGED mixed
  <2>1. q.op = "delete" /\ q.step = 3
    <3>1. CASE q.op = "put"
      BY <1>1, <1>3, <3>1, PutSteps
    <3>2. CASE q.op = "delete"
      BY <1>1, <1>3, <3>2, DeleteSteps
    <3> QED
      BY <1>1, <3>1, <3>2 DEF Calls
  <2>2. q.step # Len(Order(q))
    <3>1. Len(Order(q)) = 4
      BY <1>1, <2>1, DeleteSteps
    <3> QED
      BY <2>1, <3>1
  <2>3. calls' = (calls \ {q}) \cup {After(q)} /\ Same(q, After(q)) /\ After(q).step = q.step + 1
    BY <1>1, <1>3, <2>2, GoesOnFacts, AfterFacts
  <2>4. ~Unsettled(After(q))
    BY <2>1, <2>3 DEF Unsettled, Same
  <2>5. UnsettledOn(q.container, q.path)' = {}
    BY <1>1, <2>3, <2>4 DEF UnsettledOn, On
  <2>6. Row(q)' = Nothing
    BY <1>1, <2>1 DEF CallFails, stored, Halfway, Row
  <2>7. Blob(q.container, q.path)' = Outcome(q)
    BY <2>1, <2>6 DEF Blob, Row, Outcome
  <2> QED
    BY <1>3, <2>5, <2>6, <2>7, AllDone
<1> QED
  BY <1>2, <1>3 DEF CallFails

\* a step of a call that has made its changes
LEMMA SettledHere ==
    ASSUME TypeInv, NEW q \in calls, NEW answer, CallStep(q, answer) \/ CallFails(q, answer), ~Unsettled(q)
    PROVE  Untouched(q.container, q.path)
<1>1. q \in Calls /\ q.op \in {"put", "delete"} /\ (q.op = "delete" => q.step \in 1..4)
  BY DEF TypeInv, TypeOK, EmulatorTypeOK, CallsInOrder, Calls
<1>2. /\ q.step = Len(Order(q))
      /\ At(q, "publish") \/ At(q, "prune")
      /\ ~At(q, "mkdir") /\ ~At(q, "open") /\ ~At(q, "write") /\ ~At(q, "commit")
      /\ ~At(q, "lookup") /\ ~At(q, "rows") /\ ~At(q, "unlink")
  <2>1. CASE q.op = "put"
    <3>1. q.step \in 1..5 /\ ~(q.step <= 4) /\ Len(Order(q)) = 5
      BY <1>1, <2>1, PutSteps
    <3>2. q.step = 5
      BY <3>1
    <3> QED
      BY <1>1, <2>1, <3>1, <3>2, PutSteps
  <2>2. CASE q.op = "delete"
    <3>1. q.step \in 1..4 /\ ~(q.step <= 3) /\ Len(Order(q)) = 4
      BY <1>1, <2>2, DeleteSteps
    <3>2. q.step = 4
      BY <3>1
    <3> QED
      BY <1>1, <2>2, <3>1, <3>2, DeleteSteps
  <2> QED
    BY <1>1, <2>1, <2>2
<1>3. GoesOn(q, answer) /\ UNCHANGED <<files, rows, mixed>>
  BY <1>2 DEF CallStep, CallFails, PutStep, MakeDir, OpenFile, WriteFile, CommitRows, Publish, DirGone,
              LookUp, DropRows, Unlink, Prune, stored
<1>4. calls' = calls \ {q}
  BY <1>1, <1>2, <1>3, GoesOnFacts
<1>5. UnsettledOn(q.container, q.path)' = UnsettledOn(q.container, q.path)
  BY <1>4 DEF UnsettledOn, On
<1> QED
  BY <1>3, <1>5 DEF Untouched

-----------------------------------------------------------------------------
(* The steps that BlobPromises allows.                                     *)

Places == Containers \X Paths

Blobs == [b \in Places |-> Seen(b[1], b[2])]

LEMMA BlobsAt ==
    ASSUME NEW c \in Containers, NEW p \in Paths
    PROVE  <<c, p>> \in Places /\ Blobs[<<c, p>>] = Seen(c, p) /\ Blobs'[<<c, p>>] = Seen(c, p)'
BY DEF Blobs, Places

\* blobs that stay what they are, or are disturbed
LEMMA DisturbAllowed ==
    ASSUME \A c \in Containers, p \in Paths : Kept(c, p) \/ Spoilt(c, p)
    PROVE  [Promises!Next]_Blobs
<1>1. ASSUME NEW b \in Places
      PROVE  Blobs'[b] \in {Blobs[b]} \cup (IF Blobs[b] \in Promises!Changing THEN {Mixed} ELSE {})
  <2>1. PICK c \in Containers, p \in Paths : b = <<c, p>>
    BY DEF Places
  <2> QED
    BY <2>1, BlobsAt DEF Kept, Spoilt
<1>2. Promises!Disturb
  BY <1>1 DEF Promises!Disturb, Blobs, Places
<1> QED
  BY <1>2 DEF Promises!Next

\* all other blobs stay what they are
LEMMA OnlyThis ==
    ASSUME NEW c \in Containers, NEW p \in Paths,
           \A d \in Containers, r \in Paths : <<d, r>> # <<c, p>> => Kept(d, r)
    PROVE  Promises!Only(<<c, p>>)
<1>1. ASSUME NEW b \in Places \ {<<c, p>>}
      PROVE  Blobs'[b] = Blobs[b]
  <2>1. PICK d \in Containers, r \in Paths : b = <<d, r>>
    BY DEF Places
  <2> QED
    BY <1>1, <2>1, BlobsAt DEF Kept
<1> QED
  BY <1>1 DEF Promises!Only, Blobs, Places

LEMMA EndAllowed ==
    ASSUME NEW c \in Containers, NEW p \in Paths, Ended(c, p),
           \A d \in Containers, r \in Paths : <<d, r>> # <<c, p>> => Kept(d, r)
    PROVE  [Promises!Next]_Blobs
<1>1. Promises!End(<<c, p>>)
  BY OnlyThis, BlobsAt DEF Promises!End, Ended, Blobs, Places
<1> QED
  BY <1>1 DEF Promises!Next

LEMMA BeginAllowed ==
    ASSUME NEW c \in Containers, NEW p \in Paths,
           Seen(c, p) \notin Promises!Changing, Seen(c, p)' \in Promises!Changing,
           \A d \in Containers, r \in Paths : <<d, r>> # <<c, p>> => Kept(d, r)
    PROVE  [Promises!Next]_Blobs
<1>1. Promises!Begin(<<c, p>>)
  BY OnlyThis, BlobsAt DEF Promises!Begin, Blobs, Places
<1> QED
  BY <1>1 DEF Promises!Next

LEMMA RetagAllowed ==
    ASSUME NEW c \in Containers, NEW p \in Paths,
           Seen(c, p) \in Promises!Wholes, Seen(c, p)' \in Promises!Wholes,
           Seen(c, p)'.bytes = Seen(c, p).bytes, Seen(c, p)'.metadata = Seen(c, p).metadata,
           \A d \in Containers, r \in Paths : <<d, r>> # <<c, p>> => Kept(d, r)
    PROVE  [Promises!Next]_Blobs
<1>1. Promises!Retag(<<c, p>>)
  BY OnlyThis, BlobsAt DEF Promises!Retag, Blobs, Places
<1> QED
  BY <1>1 DEF Promises!Next

\* nothing, a whole blob and a mixed one are not about to change
LEMMA NotChanging ==
    ASSUME TypeInv, BlobsInv, NEW c \in Containers, NEW p \in Paths, mixed[c][p] \/ UnsettledOn(c, p) = {}
    PROVE  Seen(c, p) \notin Promises!Changing
<1>1. Nothing \notin Promises!Changing /\ Mixed \notin Promises!Changing
  BY PromisesAssumption
<1>2. CASE mixed[c][p]
  BY <1>1, <1>2, SeenFacts
<1>3. CASE ~mixed[c][p]
  <2>1. Seen(c, p) = Blob(c, p)
    BY <1>3, SeenFacts
  <2>2. \A x, y, z : [bytes |-> x, tags |-> y, metadata |-> z] \notin Promises!Changing
    BY DEF Promises!Changing
  <2> QED
    BY <1>1, <2>1, <2>2 DEF Blob
<1> QED
  BY <1>2, <1>3

\* what a step does to the blobs that it touches and to the rest
LEMMA CallAllowed ==
    ASSUME TypeInv, BlobsInv, NEW q \in calls, NEW answer, CallStep(q, answer) \/ CallFails(q, answer)
    PROVE  BlobsInv' /\ [Promises!Next]_Blobs
<1> DEFINE c0 == q.container
           p0 == q.path
<1>1. /\ q \in Calls /\ c0 \in Containers /\ p0 \in Paths /\ q.op \in {"put", "delete"}
  BY DEF TypeInv, TypeOK, EmulatorTypeOK, Calls
<1>2. ASSUME NEW c \in Containers, NEW p \in Paths, Untouched(c, p)
      PROVE  Kept(c, p) /\ (~mixed'[c][p] => Whole(c, p)')
  BY <1>2, UntouchedSame, UntouchedWhole DEF Kept, BlobsInv, Untouched
<1>3. \A c \in Containers, p \in Paths :
        <<c, p>> # <<c0, p0>> => Kept(c, p) /\ (~mixed'[c][p] => Whole(c, p)')
  BY <1>2, ElsewhereUntouched
<1>4. /\ Kept(c0, p0) \/ Ended(c0, p0) \/ Spoilt(c0, p0)
      /\ ~mixed'[c0][p0] => Whole(c0, p0)'
  <2>1. CASE ~Unsettled(q)
    BY <1>1, <1>2, <2>1, SettledHere
  <2>2. CASE Unsettled(q) /\ ~mixed[c0][p0]
    BY <1>1, <2>2, PutHere, DeleteHere, FailsHere
  <2>3. CASE mixed[c0][p0]
    <3>1. mixed'[c0][p0]
      BY <1>1, <2>3 DEF CallStep, CallFails, PutStep, DirGone, LookUp, DropRows, Unlink, Prune, Spoiled
    <3> QED
      BY <1>1, <2>3, <3>1 DEF Seen, Kept
  <2> QED
    BY <2>1, <2>2, <2>3
<1>5. BlobsInv'
  BY <1>3, <1>4 DEF BlobsInv
<1>6. CASE Ended(c0, p0)
  BY <1>1, <1>3, <1>5, <1>6, EndAllowed
<1>7. CASE Kept(c0, p0) \/ Spoilt(c0, p0)
  BY <1>1, <1>3, <1>5, <1>7, DisturbAllowed
<1> QED
  BY <1>4, <1>6, <1>7

LEMMA AllUntouched ==
    ASSUME TypeInv, BlobsInv, \A c \in Containers, p \in Paths : Untouched(c, p)
    PROVE  BlobsInv' /\ [Promises!Next]_Blobs
<1>1. BlobsInv'
  BY UntouchedWhole DEF BlobsInv, Untouched
<1>2. \A c \in Containers, p \in Paths : Kept(c, p)
  BY UntouchedSame DEF Kept
<1> QED
  BY <1>1, <1>2, DisturbAllowed

LEMMA StillAllowed ==
    ASSUME TypeInv, BlobsInv, UNCHANGED <<files, rows, calls, mixed>>
    PROVE  BlobsInv' /\ [Promises!Next]_Blobs
BY AllUntouched DEF Untouched, UnsettledOn, On

\* the emulator stops, and with it all calls
LEMMA RestartAllowed ==
    ASSUME TypeInv, BlobsInv, Restart
    PROVE  BlobsInv' /\ [Promises!Next]_Blobs
<1>1. calls' = {} /\ mixed' = Spoiled(calls) /\ UNCHANGED <<files, rows>>
  BY DEF Restart, stored
<1>2. ASSUME NEW c \in Containers, NEW p \in Paths
      PROVE  (Kept(c, p) \/ Spoilt(c, p)) /\ (~mixed'[c][p] => Whole(c, p)')
  <2>1. UnsettledOn(c, p)' = {}
    BY <1>1 DEF UnsettledOn, On
  <2>2. CASE mixed[c][p]
    <3>1. mixed'[c][p]
      BY <1>1, <2>2 DEF Spoiled
    <3> QED
      BY <2>2, <3>1 DEF Seen, Kept
  <2>3. CASE ~mixed[c][p] /\ UnsettledOn(c, p) = {}
    <3>1. ~mixed'[c][p]
      BY <1>1, <2>3 DEF Spoiled, UnsettledOn, On, TypeInv, TypeOK, EmulatorTypeOK
    <3>2. Untouched(c, p)
      <4>1. mixed'[c][p] = mixed[c][p]
        <5>1. mixed'[c][p] \in BOOLEAN /\ mixed[c][p] \in BOOLEAN
          BY <1>1, SpoiledType DEF TypeInv, TypeOK, EmulatorTypeOK
        <5> QED
          BY <2>3, <3>1, <5>1
      <4> QED
        BY <1>1, <2>1, <2>3, <4>1 DEF Untouched
    <3> QED
      BY <2>3, <3>1, <3>2, UntouchedSame, UntouchedWhole DEF BlobsInv, Kept
  <2>4. ASSUME NEW q \in UnsettledOn(c, p), ~mixed[c][p]
        PROVE  Spoilt(c, p) /\ mixed'[c][p]
    <3>1. q \in calls /\ q.container = c /\ q.path = p /\ Unsettled(q)
      BY DEF UnsettledOn, On
    <3>2. Seen(c, p) = About(q) /\ About(q) \in Promises!Changing
      BY <2>4, <3>1, Alone
    <3>3. mixed'[c][p]
      BY <1>1, <3>1 DEF Spoiled
    <3> QED
      BY <3>2, <3>3 DEF Spoilt, Seen
  <2> QED
    BY <2>2, <2>3, <2>4
<1>3. BlobsInv'
  BY <1>2 DEF BlobsInv
<1> QED
  BY <1>2, <1>3, DisturbAllowed

\* a caller that goes leaves its call to go on
LEMMA AbandonedAllowed ==
    ASSUME TypeInv, BlobsInv, NEW x, calls' = Abandoned(x), UNCHANGED <<files, rows, mixed>>
    PROVE  BlobsInv' /\ [Promises!Next]_Blobs
<1>1. PICK n : n = faults
  OBVIOUS
<1> DEFINE left(q) == IF q.caller = x THEN [q EXCEPT !.caller = n] ELSE q
<1>2. calls' = {left(q) : q \in calls}
  BY <1>1 DEF Abandoned
<1>3. ASSUME NEW q \in calls
      PROVE  /\ left(q).op = q.op /\ left(q).container = q.container /\ left(q).path = q.path
             /\ left(q).bytes = q.bytes /\ left(q).tags = q.tags /\ left(q).metadata = q.metadata
             /\ left(q).id = q.id /\ left(q).step = q.step
  <2>1. q \in Calls
    BY DEF TypeInv, TypeOK, EmulatorTypeOK
  <2> QED
    BY <2>1 DEF Calls
<1> HIDE DEF left
<1>4. ASSUME NEW c \in Containers, NEW p \in Paths
      PROVE  UnsettledOn(c, p)' = {left(q) : q \in UnsettledOn(c, p)}
  BY <1>2, <1>3 DEF UnsettledOn, On, Unsettled
<1>5. ASSUME NEW c \in Containers, NEW p \in Paths, ~mixed[c][p]
      PROVE  Kept(c, p) /\ Whole(c, p)'
  <2>1. Whole(c, p)
    BY <1>5 DEF BlobsInv
  <2>2. CASE UnsettledOn(c, p) = {}
    <3>1. Untouched(c, p)
      BY <1>4, <2>2 DEF Untouched
    <3> QED
      BY <2>1, <3>1, UntouchedSame, UntouchedWhole DEF Kept
  <2>3. ASSUME NEW q \in UnsettledOn(c, p)
        PROVE  Kept(c, p) /\ Whole(c, p)'
    <3>1. q \in calls /\ q.container = c /\ q.path = p /\ UnsettledOn(c, p) = {q} /\ Halfway(q)
      BY <2>1 DEF Whole, UnsettledOn, On
    <3>2. UnsettledOn(c, p)' = {left(q)}
      BY <1>4, <3>1
    <3>3. Seen(c, p)' = About(left(q)) /\ Seen(c, p) = About(q)
      BY <1>5, <3>1, <3>2, SeenFacts DEF Seen, About
    <3>4. About(left(q)) = About(q)
      BY <1>3, <3>1 DEF About, Outcome
    <3>5. File(left(q))' = File(q) /\ Row(left(q))' = Row(q)
      BY <1>3, <3>1 DEF File, Row
    <3>6. Halfway(left(q))'
      BY <1>3, <3>1, <3>5 DEF Halfway
    <3> QED
      BY <3>2, <3>3, <3>4, <3>6 DEF Kept, Whole
  <2> QED
    BY <2>2, <2>3
<1>6. BlobsInv'
  BY <1>5 DEF BlobsInv
<1>7. ASSUME NEW c \in Containers, NEW p \in Paths, mixed[c][p]
      PROVE  Kept(c, p)
  BY <1>7 DEF Kept, Seen
<1> QED
  BY <1>5, <1>6, <1>7, DisturbAllowed

\* a call arrives
LEMMA BeginPromised ==
    ASSUME TypeInv, BlobsInv, NEW r \in Calls, Begin(r), UNCHANGED <<files, rows>>,
           r.step = 1, r.op = "put" => r.bytes # Nothing
    PROVE  BlobsInv' /\ [Promises!Next]_Blobs
<1> DEFINE c0 == r.container
           p0 == r.path
<1>1. /\ c0 \in Containers /\ p0 \in Paths /\ calls' = calls \cup {r}
      /\ mixed' = [mixed EXCEPT ![c0][p0] = UnsettledOn(c0, p0) # {}]
      /\ mixed \in [Containers -> [Paths -> BOOLEAN]]
  BY DEF Begin, Calls, TypeInv, TypeOK, EmulatorTypeOK
<1>2. ASSUME NEW c \in Containers, NEW p \in Paths, <<c, p>> # <<c0, p0>>
      PROVE  Kept(c, p) /\ (~mixed'[c][p] => Whole(c, p)')
  <2>1. UnsettledOn(c, p)' = UnsettledOn(c, p)
    BY <1>1, <1>2 DEF UnsettledOn, On
  <2>2. Untouched(c, p)
    BY <1>1, <1>2, <2>1 DEF Untouched
  <2> QED
    BY <2>2, UntouchedSame, UntouchedWhole DEF Kept, BlobsInv, Untouched
<1>3. CASE UnsettledOn(c0, p0) = {}
  <2>1. ~mixed'[c0][p0] /\ Unsettled(r)
    <3>1. mixed'[c0][p0] = (UnsettledOn(c0, p0) # {})
      BY <1>1
    <3>2. Unsettled(r)
      BY DEF Unsettled
    <3> QED
      BY <1>3, <3>1, <3>2
  <2>2. UnsettledOn(c0, p0)' = {r}
    BY <1>1, <1>3, <2>1 DEF UnsettledOn, On
  <2>3. Seen(c0, p0)' = About(r)
    BY <2>1, <2>2 DEF Seen, About
  <2>4. About(r) \in Promises!Changing
    BY AboutFacts
  <2>5. Seen(c0, p0) \notin Promises!Changing
    BY <1>1, <1>3, NotChanging
  <2>6. Whole(c0, p0)'
    BY <2>2 DEF Whole, Halfway
  <2>7. BlobsInv'
    BY <1>2, <2>6 DEF BlobsInv
  <2> QED
    BY <1>1, <1>2, <2>3, <2>4, <2>5, <2>7, BeginAllowed
<1>4. CASE UnsettledOn(c0, p0) # {}
  <2>1. mixed'[c0][p0]
    BY <1>1, <1>4
  <2>2. BlobsInv'
    BY <1>2, <2>1 DEF BlobsInv
  <2>3. Seen(c0, p0)' = Mixed
    BY <2>1 DEF Seen
  <2>4. CASE mixed[c0][p0]
    <3>1. Kept(c0, p0)
      BY <2>3, <2>4 DEF Kept, Seen
    <3> QED
      BY <1>2, <2>2, <3>1, DisturbAllowed
  <2>5. CASE ~mixed[c0][p0]
    <3>1. PICK q \in UnsettledOn(c0, p0) : TRUE
      BY <1>4
    <3>2. q \in calls /\ q.container = c0 /\ q.path = p0 /\ Unsettled(q)
      BY DEF UnsettledOn, On
    <3>3. Spoilt(c0, p0)
      BY <2>3, <2>5, <3>2, Alone DEF Spoilt
    <3> QED
      BY <1>2, <2>2, <3>3, DisturbAllowed
  <2> QED
    BY <2>4, <2>5
<1> QED
  BY <1>3, <1>4

\* PUT ?comp=tags
LEMMA SetTagsAllowed ==
    ASSUME TypeInv, BlobsInv, NEW c \in Containers, NEW p \in Paths, NEW tags \in Tags \cup {Nothing},
           SetTags(c, p, tags)
    PROVE  BlobsInv' /\ [Promises!Next]_Blobs
<1>1. /\ rows[c][p] # Nothing /\ rows' = [rows EXCEPT ![c][p].tags = tags]
      /\ UNCHANGED <<files, calls, mixed>>
      /\ rows \in [Containers -> [Paths -> Rows \cup {Nothing}]]
  BY DEF SetTags, TypeInv, TypeOK, EmulatorTypeOK
<1>2. /\ rows[c][p] \in Rows /\ rows[c][p].tags \in Tags \cup {Nothing}
      /\ rows[c][p].metadata \in Uploads \cup {Nothing}
  BY <1>1, RowType DEF TypeInv, TypeOK
<1>3. rows'[c][p] = [rows[c][p] EXCEPT !.tags = tags]
  BY <1>1
<1>4. /\ rows'[c][p] \in Rows /\ rows'[c][p].id = rows[c][p].id /\ rows'[c][p].tags = tags
      /\ rows'[c][p].metadata = rows[c][p].metadata
  BY <1>2, <1>3 DEF Rows
<1>5. rows'[c][p] # Nothing
  BY <1>4, EmulatorAssumption
<1>6. ASSUME NEW d \in Containers, NEW r \in Paths
      PROVE  UnsettledOn(d, r)' = UnsettledOn(d, r)
  BY <1>1 DEF UnsettledOn, On
<1>7. ASSUME NEW d \in Containers, NEW r \in Paths, <<d, r>> # <<c, p>>
      PROVE  Kept(d, r) /\ (~mixed'[d][r] => Whole(d, r)')
  <2>1. rows'[d][r] = rows[d][r]
    BY <1>1, <1>7
  <2>2. Untouched(d, r)
    BY <1>1, <1>6, <2>1 DEF Untouched
  <2> QED
    BY <2>2, UntouchedSame, UntouchedWhole DEF Kept, BlobsInv, Untouched
<1>8. CASE mixed[c][p]
  <2>1. Kept(c, p) /\ mixed'[c][p]
    BY <1>1, <1>8 DEF Kept, Seen
  <2>2. BlobsInv'
    BY <1>7, <2>1 DEF BlobsInv
  <2> QED
    BY <1>7, <2>1, <2>2, DisturbAllowed
<1>9. ASSUME ~mixed[c][p], NEW q \in UnsettledOn(c, p)
      PROVE  BlobsInv' /\ [Promises!Next]_Blobs
  <2>1. q \in calls /\ q.container = c /\ q.path = p /\ Unsettled(q)
    BY DEF UnsettledOn, On
  <2>2. UnsettledOn(c, p) = {q} /\ Halfway(q) /\ Seen(c, p) = About(q)
    BY <1>9, <2>1, Alone
  <2>3. Seen(c, p)' = About(q)
    BY <1>1, <1>6, <1>9, <2>2 DEF Seen, About
  <2>4. Halfway(q)'
    BY <1>1, <1>4, <1>5, <2>1, <2>2 DEF Halfway, Row, File
  <2>5. Whole(c, p)'
    BY <1>6, <2>2, <2>4 DEF Whole
  <2>6. Kept(c, p)
    BY <2>2, <2>3 DEF Kept
  <2>7. BlobsInv'
    BY <1>7, <2>5 DEF BlobsInv
  <2> QED
    BY <1>7, <2>6, <2>7, DisturbAllowed
<1>10. CASE ~mixed[c][p] /\ UnsettledOn(c, p) = {}
  <2>1. files[c][p] # Nothing
    BY <1>1, <1>10 DEF BlobsInv, Whole
  <2>2. files[c][p] \in Contents
    BY <2>1 DEF TypeInv, TypeOK, EmulatorTypeOK
  <2>3. Seen(c, p) = [bytes |-> files[c][p], tags |-> rows[c][p].tags, metadata |-> rows[c][p].metadata]
    BY <1>1, <1>10, SeenFacts DEF Blob
  <2>4. Seen(c, p)' = [bytes |-> files[c][p], tags |-> tags, metadata |-> rows[c][p].metadata]
    BY <1>1, <1>4, <1>5, <1>6, <1>10 DEF Seen, Blob
  <2>5. /\ Seen(c, p) \in Promises!Wholes /\ Seen(c, p)' \in Promises!Wholes
        /\ Seen(c, p)'.bytes = Seen(c, p).bytes /\ Seen(c, p)'.metadata = Seen(c, p).metadata
    BY <1>2, <2>2, <2>3, <2>4 DEF Promises!Wholes
  <2>6. Whole(c, p)'
    BY <1>1, <1>6, <1>10, <2>1 DEF Whole
  <2>7. BlobsInv'
    BY <1>7, <2>6 DEF BlobsInv
  <2> QED
    BY <1>7, <2>5, <2>7, RetagAllowed
<1> QED
  BY <1>8, <1>9, <1>10

-----------------------------------------------------------------------------
(* The steps of the pipeline.                                              *)

LEMMA UploadAllowed ==
    ASSUME TypeInv, BlobsInv, NEW u \in Uploads, Upload(u)
    PROVE  BlobsInv' /\ [Promises!Next]_Blobs
<1>1. UNCHANGED <<files, rows>>
  BY DEF Upload, stored
<1>2. CASE Quality[u] = "refused"
  BY <1>1, <1>2, StillAllowed DEF Upload
<1>3. CASE Quality[u] # "refused"
  <2> DEFINE r == Put(u, "uploads", PathOf[u], u, <<u, FALSE>>, u)
  <2>1. u \in Callers /\ PathOf[u] \in Paths /\ "uploads" \in Containers
        /\ u \in Contents /\ <<u, FALSE>> \in Tags
    BY PipelineAssumption, ImageOfType DEF Containers, Contents
  <2>2. r \in Calls /\ r.step = 1 /\ r.bytes = u
    BY <2>1, PutCall
  <2>3. Begin(r) /\ u # Nothing
    BY <1>3, <2>1, EmulatorAssumption DEF Upload
  <2> HIDE DEF r
  <2> QED
    BY <1>1, <2>2, <2>3, BeginPromised
<1> QED
  BY <1>2, <1>3

LEMMA ResizeAllowed ==
    ASSUME TypeInv, BlobsInv, NEW w \in Workers, Resize(w) \/ ResizeFails(w) \/ WorkerDies(w)
    PROVE  BlobsInv' /\ [Promises!Next]_Blobs
<1>1. UNCHANGED <<files, rows>>
  BY DEF Resize, ResizeFails, WorkerDies, emulator, stored
<1>2. CASE UNCHANGED <<calls, mixed>>
  BY <1>1, <1>2, StillAllowed
<1>3. CASE WorkerDies(w)
  BY <1>1, <1>3, AbandonedAllowed DEF WorkerDies
<1>4. CASE SaveImage(w) /\ Resizable(work[w].bytes)
  <2>1. work[w].pc = "resize"
    BY <1>4 DEF SaveImage
  <2>2. work[w].event[2] \in Paths
        /\ work[w].bytes \in Contents \cup {Nothing} /\ work[w].tags \in Tags \cup {Nothing}
        /\ work[w].metadata \in Uploads \cup {Nothing}
    BY <2>1, JobFacts
  <2>3. PICK r : r = Put(w, "images", work[w].event[2], work[w].bytes, work[w].tags, work[w].metadata)
    OBVIOUS
  <2>4. w \in Callers /\ "images" \in Containers
    BY PipelineAssumption DEF Containers
  <2>5. r \in Calls /\ r.step = 1 /\ r.bytes = work[w].bytes
    <3>1. \A p \in Paths, bytes \in Contents \cup {Nothing}, tags \in Tags \cup {Nothing},
             metadata \in Uploads \cup {Nothing} :
             LET put == Put(w, "images", p, bytes, tags, metadata)
             IN  put \in Calls /\ put.step = 1 /\ put.bytes = bytes
      BY <2>4, PutCall
    <3> QED
      BY <2>2, <2>3, <3>1
  <2>6. Begin(r) /\ work[w].bytes # Nothing
    BY <1>4, <2>3, EmulatorAssumption DEF SaveImage, Resizable, Contents
  <2> QED
    BY <1>1, <2>5, <2>6, BeginPromised
<1> QED
  BY <1>2, <1>3, <1>4 DEF Resize, ResizeFails, GetBlob, GetBlobTags, GetBlobMetadata, Reads, SaveImage, emulator

LEMMA CopyMetadataAllowed ==
    ASSUME TypeInv, BlobsInv, NEW metadata \in Uploads \cup {Nothing}, CopyMetadata(metadata)
    PROVE  BlobsInv' /\ [Promises!Next]_Blobs
<1>1. PICK r : r = Put(Admin, "images", NewPath[admin.path], admin.bytes, admin.tags, metadata)
  OBVIOUS
<1>2. admin.pc = "metadata" /\ Begin(r) /\ UNCHANGED <<files, rows>>
  BY <1>1 DEF CopyMetadata, EditAt, stored
<1>3. NewPath[admin.path] \in Paths /\ admin.tags \in Tags \cup {Nothing}
  BY <1>2, EditFacts
<1>4. admin.bytes \in Contents /\ admin.bytes # Nothing
  BY <1>2, EmulatorAssumption DEF TypeInv, EditWell
<1>5. r \in Calls /\ r.step = 1 /\ r.bytes = admin.bytes
  <2>1. Admin \in Callers /\ "images" \in Containers
    BY PipelineAssumption DEF Containers
  <2>2. \A p \in Paths, bytes \in Contents \cup {Nothing}, tags \in Tags \cup {Nothing} :
           LET put == Put(Admin, "images", p, bytes, tags, metadata)
           IN  put \in Calls /\ put.step = 1 /\ put.bytes = bytes
    BY <2>1, PutCall
  <2> QED
    BY <1>1, <1>3, <1>4, <2>2
<1> QED
  BY <1>2, <1>4, <1>5, BeginPromised

LEMMA DeleteOldAllowed ==
    ASSUME TypeInv, BlobsInv, DeleteOld
    PROVE  BlobsInv' /\ [Promises!Next]_Blobs
<1>1. PICK r : r = Delete(Admin, "images", admin.path)
  OBVIOUS
<1>2. admin.pc = "delete" /\ Begin(r) /\ UNCHANGED <<files, rows>>
  BY <1>1 DEF DeleteOld, EditAt, stored
<1>3. admin.path \in Paths /\ Admin \in Callers /\ "images" \in Containers
  BY <1>2, EditFacts, PipelineAssumption DEF Containers
<1>4. r \in Calls /\ r.op = "delete" /\ r.step = 1
  BY <1>1, <1>3, DeleteCall
<1> QED
  BY <1>2, <1>4, BeginPromised

LEMMA EditAllowed ==
    ASSUME TypeInv, BlobsInv, EditStep \/ EditFails \/ EditCutOff
    PROVE  BlobsInv' /\ [Promises!Next]_Blobs
<1>1. CASE UNCHANGED emulator
  BY <1>1, StillAllowed DEF emulator
<1>2. ASSUME admin.pc \in {"mark", "retag"},
             SetTags("images", IF admin.pc = "mark" THEN admin.path ELSE NewPath[admin.path], admin.found)
      PROVE  BlobsInv' /\ [Promises!Next]_Blobs
  <2>1. PICK p \in Paths : p = IF admin.pc = "mark" THEN admin.path ELSE NewPath[admin.path]
    BY <1>2, EditFacts
  <2>2. PICK tags \in Tags \cup {Nothing} : tags = admin.found
    BY <1>2, EditFacts
  <2> QED
    BY <1>2, <2>1, <2>2, SetTagsAllowed DEF Containers
<1>3. CASE DeleteOld
  BY <1>3, DeleteOldAllowed
<1>4. CASE CopyMetadata(CopiedMetadata)
  <2>1. PICK metadata \in Uploads \cup {Nothing} : metadata = CopiedMetadata
    BY <1>4, CopiedTypes DEF CopyMetadata, EditAt
  <2> QED
    BY <1>4, <2>1, CopyMetadataAllowed
<1>5. CASE CopyMetadata(Nothing)
  BY <1>5, CopyMetadataAllowed
<1>6. CASE EditCutOff
  <2>1. calls' = Abandoned(Admin) /\ UNCHANGED <<files, rows, mixed>>
    BY <1>6 DEF EditCutOff, stored
  <2> QED
    BY <2>1, AbandonedAllowed
<1> QED
  BY <1>1, <1>2, <1>3, <1>4, <1>5, <1>6
  DEF EditStep, EditFails, Mark, CopyBytes, Retag, CopyTags, EditAt

LEMMA StepAllowed ==
    ASSUME TypeInv, BlobsInv, [Next]_vars
    PROVE  BlobsInv' /\ [Promises!Next]_Blobs
<1>1. CASE UNCHANGED emulator
  BY <1>1, StillAllowed DEF emulator
<1>2. ASSUME NEW u \in Uploads, Upload(u) \/ UploadCutOff(u)
      PROVE  BlobsInv' /\ [Promises!Next]_Blobs
  <2>1. UploadCutOff(u) => calls' = Abandoned(u) /\ UNCHANGED <<files, rows, mixed>>
    BY DEF UploadCutOff, stored
  <2> QED
    BY <1>2, <2>1, UploadAllowed, AbandonedAllowed
<1>3. ASSUME NEW q \in calls, Serve(q) \/ ServeFails(q)
      PROVE  BlobsInv' /\ [Promises!Next]_Blobs
  BY <1>3, CallAllowed DEF Serve, ServeFails
<1>4. CASE EmulatorRestarts
  BY <1>4, RestartAllowed DEF EmulatorRestarts
<1>5. CASE BrokerIsLost
  <2>1. UNCHANGED <<files, rows, calls, mixed>>
    BY <1>5 DEF BrokerIsLost, BrokerDrops, stored
  <2> QED
    BY <2>1, StillAllowed
<1>6. ASSUME NEW w \in Workers, Resize(w) \/ ResizeFails(w) \/ WorkerDies(w)
      PROVE  BlobsInv' /\ [Promises!Next]_Blobs
  BY <1>6, ResizeAllowed
<1>7. CASE EditStep \/ EditFails \/ EditCutOff
  BY <1>7, EditAllowed
<1> QED
  BY <1>1, <1>2, <1>3, <1>4, <1>5, <1>6, <1>7 DEF Next, NoMoreUploads, FindPhoto, vars

LEMMA StartAllowed == ASSUME Init PROVE BlobsInv /\ Promises!Init
<1>1. PICK start \in Starts : StartWith(start)
  BY DEF Init
<1>2. start.stored \in [Paths -> Uploads \cup {Nothing}]
  BY <1>1, PipelineAssumption DEF StartType
<1>3. ASSUME NEW c \in Containers, NEW p \in Paths
      PROVE  /\ ~mixed[c][p] /\ UnsettledOn(c, p) = {} /\ files[c][p] = start.stored[p]
             /\ rows[c][p] = IF start.stored[p] # Nothing
                             THEN [id |-> 1, tags |-> <<start.stored[p], FALSE>>, metadata |-> start.stored[p]]
                             ELSE Nothing
  BY <1>1 DEF Init, StartWith, UnsettledOn, On
<1>4. BlobsInv
  BY <1>3 DEF BlobsInv, Whole
<1>5. ASSUME NEW c \in Containers, NEW p \in Paths
      PROVE  Seen(c, p) \in Promises!Settled
  <2>1. Seen(c, p) = Blob(c, p)
    BY <1>3, SeenFacts
  <2>2. CASE start.stored[p] = Nothing
    BY <1>3, <2>1, <2>2 DEF Blob, Promises!Settled
  <2>3. CASE start.stored[p] # Nothing
    <3>1. start.stored[p] \in Uploads
      BY <1>2, <2>3
    <3> DEFINE tags == <<start.stored[p], FALSE>>
               row == [id |-> 1, tags |-> tags, metadata |-> start.stored[p]]
    <3>5. tags \in Tags
      BY <3>1 DEF Tags
    <3>2. /\ rows[c][p].tags = tags /\ rows[c][p].metadata = start.stored[p]
          /\ rows[c][p] # Nothing
      <4>1. rows[c][p] = row
        BY <1>3, <2>3
      <4> HIDE DEF tags
      <4>2. row \in Rows /\ row.tags = tags /\ row.metadata = start.stored[p]
        BY <3>1, <3>5 DEF Rows
      <4>3. row # Nothing
        BY <4>2, EmulatorAssumption
      <4> QED
        BY <4>1, <4>2, <4>3
    <3> HIDE DEF tags
    <3>3. Blob(c, p) = [bytes |-> start.stored[p], tags |-> tags, metadata |-> start.stored[p]]
      BY <1>3, <3>2 DEF Blob
    <3>4. Blob(c, p) \in Promises!Wholes
      BY <3>1, <3>3, <3>5 DEF Promises!Wholes, Contents
    <3> QED
      BY <2>1, <3>4 DEF Promises!Settled
  <2> QED
    BY <2>2, <2>3
<1>6. Promises!Init
  BY <1>5 DEF Promises!Init
<1> QED
  BY <1>4, <1>6

\* The emulator does nothing to a blob but what BlobPromises lists, whatever
\* calls, failures and restarts there are (store.go:119-259): a PUT or DELETE
\* that is alone on its blob ends in what it was sent for, one that is not
\* leaves a blob that is mixed until the next call, and no blob changes by the
\* calls for another.
THEOREM BlobPromisesKept == Spec => PromisesKept
<1>1. Init => BlobsInv /\ Promises!Init
  BY StartAllowed
<1>2. TypeInv /\ BlobsInv /\ [Next]_vars => BlobsInv' /\ [Promises!Next]_Blobs
  BY StepAllowed
<1>3. Spec => []BlobsInv
  BY <1>1, <1>2, TypesInvariant, PTL DEF Spec
<1> QED
  BY <1>1, <1>2, <1>3, TypesInvariant, PTL DEF Spec, PromisesKept, Promises!Spec, Blobs, Places

-----------------------------------------------------------------------------
(* What was asked for: what holds of a blob while others change.           *)

StaysAt(c, p) ==
    /\ On(c, p)' = On(c, p)
    /\ files'[c][p] = files[c][p] /\ rows'[c][p] = rows[c][p] /\ mixed'[c][p] = mixed[c][p]

LEMMA StaysFacts ==
    ASSUME NEW c \in Containers, NEW p \in Paths, StaysAt(c, p)
    PROVE  /\ \A b : Holds(c, p, b)' <=> Holds(c, p, b)
           /\ \A b : \A q \in On(c, p) : Carries(q, b)' <=> Carries(q, b)
<1>1. Blob(c, p)' = Blob(c, p)
  BY DEF StaysAt, Blob
<1>2. \A q \in On(c, p) : q.container = c /\ q.path = p
  BY DEF On
<1> QED
  BY <1>1, <1>2 DEF StaysAt, Holds, Carries

LEMMA UnchangedStays ==
    ASSUME UNCHANGED <<files, rows, calls, mixed>>, NEW c, NEW p
    PROVE  StaysAt(c, p)
BY DEF StaysAt, On

\* a call for another blob
LEMMA OthersStay ==
    ASSUME TypeInv, NEW q \in calls, NEW answer, CallStep(q, answer) \/ CallFails(q, answer),
           NEW c \in Containers, NEW p \in Paths, <<c, p>> # <<q.container, q.path>>
    PROVE  StaysAt(c, p)
BY ElsewhereUntouched DEF Untouched, StaysAt

\* the call of a blob that has made all changes has left what it was sent for
LEMMA SettlesAs ==
    ASSUME TypeInv, BlobsInv, NEW q \in calls, NEW answer, CallStep(q, answer), Unsettled(q),
           ~mixed[q.container][q.path], ~mixed'[q.container][q.path],
           UnsettledOn(q.container, q.path)' = {}
    PROVE  Blob(q.container, q.path)' = Outcome(q)
<1> DEFINE c == q.container
           p == q.path
<1>1. /\ Seen(c, p) = About(q) /\ About(q) \in Promises!Changing /\ About(q).next = Outcome(q)
      /\ q.op \in {"put", "delete"}
  BY Alone DEF Calls
<1>2. Kept(c, p) \/ Ended(c, p)
  BY <1>1, PutHere, DeleteHere
<1>3. Seen(c, p)' = Blob(c, p)'
  BY DEF Seen
<1>4. Blob(c, p)' \notin Promises!Changing
  <2>1. \A x, y, z : [bytes |-> x, tags |-> y, metadata |-> z] \notin Promises!Changing
    BY DEF Promises!Changing
  <2>2. Nothing \notin Promises!Changing
    BY PromisesAssumption
  <2> QED
    BY <2>1, <2>2 DEF Blob
<1> QED
  BY <1>1, <1>2, <1>3, <1>4 DEF Kept, Ended

\* a call that has made all changes is at its last step
LEMMA SettledEnds ==
    ASSUME NEW q \in Calls, q.op = "delete" => q.step \in 1..4, ~Unsettled(q)
    PROVE  /\ q.step = Len(Order(q)) /\ (At(q, "publish") \/ At(q, "prune"))
           /\ ~At(q, "mkdir") /\ ~At(q, "open") /\ ~At(q, "write") /\ ~At(q, "commit")
           /\ ~At(q, "lookup") /\ ~At(q, "rows") /\ ~At(q, "unlink")
<1>1. CASE q.op = "put"
  <2>1. q.step \in 1..5 /\ ~(q.step <= 4) /\ Len(Order(q)) = 5
    BY <1>1, PutSteps
  <2>2. q.step = 5
    BY <2>1
  <2> QED
    BY <1>1, <2>1, <2>2, PutSteps
<1>2. CASE q.op = "delete"
  <2>1. q.step \in 1..4 /\ ~(q.step <= 3) /\ Len(Order(q)) = 4
    BY <1>2, DeleteSteps
  <2>2. q.step = 4
    BY <2>1
  <2> QED
    BY <1>2, <2>1, <2>2, DeleteSteps
<1> QED
  BY <1>1, <1>2 DEF Calls

\* a step of a call that has its blob for itself
LEMMA CarriedOn ==
    ASSUME TypeInv, BlobsInv, NEW q \in calls, NEW b, NEW answer, CallStep(q, answer), Carries(q, b)
    PROVE  \/ answer = "error"
           \/ answer = "none" /\ \E t \in calls' : Same(q, t) /\ Carries(t, b)'
           \/ answer = "ok" /\ Holds(q.container, q.path, b)'
<1> DEFINE c == q.container
           p == q.path
<1>1. /\ q \in Calls /\ q.op \in {"put", "delete"} /\ c \in Containers /\ p \in Paths
      /\ q.op = "delete" => q.step \in 1..4
      /\ calls \subseteq Calls
  BY DEF TypeInv, TypeOK, EmulatorTypeOK, CallsInOrder, Calls
<1>2. On(c, p) = {q} /\ ~mixed[c][p] /\ Outcome(q) = b /\ (~Unsettled(q) => Blob(c, p) = b)
  BY DEF Carries
<1>3. DirGone(q, answer) => answer = "error"
  BY DEF DirGone
<1>4. ~DirGone(q, answer) => UNCHANGED mixed
  BY DEF CallStep, PutStep, LookUp, DropRows, Unlink, Prune
<1>5. ASSUME ~DirGone(q, answer), On(c, p)' = {}, answer = "ok", Unsettled(q)
      PROVE  Holds(c, p, b)'
  <2>1. UnsettledOn(c, p)' = {}
    BY <1>5 DEF UnsettledOn
  <2>2. Blob(c, p)' = b
    BY <1>2, <1>4, <1>5, <2>1, SettlesAs
  <2> QED
    BY <1>2, <1>4, <1>5, <2>2 DEF Holds
<1>6. ASSUME ~DirGone(q, answer), NEW t \in Calls, Same(q, t), On(c, p)' = {t}, answer = "none", Unsettled(q),
             Outcome(t) = b
      PROVE  \E s \in calls' : Same(q, s) /\ Carries(s, b)'
  <2>1. t \in calls' /\ t.container = c /\ t.path = p
    BY <1>6 DEF On, Same
  <2>2. CASE Unsettled(t)
    BY <1>2, <1>4, <1>6, <2>1, <2>2 DEF Carries
  <2>3. CASE ~Unsettled(t)
    <3>1. UnsettledOn(c, p)' = {}
      BY <1>6, <2>3 DEF UnsettledOn
    <3>2. Blob(c, p)' = b
      BY <1>2, <1>4, <1>6, <3>1, SettlesAs
    <3> QED
      BY <1>2, <1>4, <1>6, <2>1, <3>2 DEF Carries
  <2> QED
    BY <2>2, <2>3
<1>7. calls' = calls \ {q} => On(c, p)' = {}
  BY <1>2 DEF On
<1>8. ASSUME NEW t, Same(q, t), calls' = (calls \ {q}) \cup {t}
      PROVE  On(c, p)' = {t}
  BY <1>2, <1>8 DEF On, Same
<1>9. CASE ~Unsettled(q)
  <2>1. q.step = Len(Order(q)) /\ (At(q, "publish") \/ At(q, "prune"))
        /\ ~At(q, "mkdir") /\ ~At(q, "open") /\ ~At(q, "write") /\ ~At(q, "commit")
        /\ ~At(q, "lookup") /\ ~At(q, "rows") /\ ~At(q, "unlink")
    BY <1>1, <1>9, SettledEnds
  <2>2. calls' = calls \ {q} /\ answer = "ok" /\ UNCHANGED <<files, rows, mixed>>
    BY <2>1 DEF CallStep, PutStep, MakeDir, OpenFile, WriteFile, CommitRows, Publish, DirGone,
                LookUp, DropRows, Unlink, Prune, GoesOn, stored
  <2>3. Blob(c, p)' = b
    BY <1>2, <1>9, <2>2 DEF Blob
  <2> QED
    BY <1>2, <1>7, <2>2, <2>3 DEF Holds
<1>10. CASE Unsettled(q) /\ GoesOn(q, answer) /\ ~DirGone(q, answer)
  <2>1. q.step # Len(Order(q))
    <3>1. q.op = "put" => Len(Order(q)) = 5 /\ q.step \in 1..5 /\ q.step <= 4
      BY <1>1, <1>10, PutSteps
    <3>2. q.op = "delete" => Len(Order(q)) = 4 /\ q.step \in 1..4 /\ q.step <= 3
      BY <1>1, <1>10, DeleteSteps
    <3>3. q.op = "put" => q.step # Len(Order(q))
      BY <3>1
    <3>4. q.op = "delete" => q.step # Len(Order(q))
      BY <3>2
    <3> QED
      BY <1>1, <3>3, <3>4
  <2>2. calls' = (calls \ {q}) \cup {After(q)} /\ answer = "none"
    BY <1>1, <1>10, <2>1, GoesOnFacts
  <2>3. After(q) \in Calls /\ Same(q, After(q)) /\ After(q).bytes = q.bytes
    BY <1>1, <2>1, AfterFacts
  <2>4. Outcome(After(q)) = b
    BY <1>2, <2>3 DEF Outcome, Same
  <2> QED
    BY <1>6, <1>8, <1>10, <2>2, <2>3, <2>4
<1>11. CASE Unsettled(q) /\ LookUp(q, answer)
  <2>1. q.op = "delete" /\ q.step = 1 /\ ~DirGone(q, answer)
    BY <1>1, <1>11, PutSteps, DeleteSteps DEF LookUp, DirGone
  <2>2. CASE Row(q) = Nothing
    BY <1>5, <1>7, <1>11, <2>1, <2>2 DEF LookUp
  <2>3. CASE Row(q) # Nothing
    <3>1. PICK n \in Nat : n = Row(q).id
      BY <1>1, <2>3, RowType DEF Row, TypeInv, TypeOK
    <3> DEFINE t == [q EXCEPT !.step = q.step + 1, !.id = n]
    <3>2. t \in Calls /\ Same(q, t)
      BY <1>1, <2>1, <3>1, LookedUpFacts
    <3>3. calls' = (calls \ {q}) \cup {t} /\ answer = "none"
      BY <1>11, <2>3, <3>1 DEF LookUp
    <3> HIDE DEF t
    <3>4. Outcome(t) = b
      BY <1>2, <2>1, <3>2 DEF Outcome, Same
    <3> QED
      BY <1>6, <1>8, <1>11, <2>1, <3>2, <3>3, <3>4
  <2> QED
    BY <2>2, <2>3
<1>12. CASE Unsettled(q) /\ Unlink(q, answer)
  <2>1. q.op = "delete" /\ q.step = 3 /\ ~DirGone(q, answer) /\ Len(Order(q)) = 4
    BY <1>1, <1>12, PutSteps, DeleteSteps DEF Unlink, DirGone
  <2>2. After(q) \in Calls /\ Same(q, After(q))
    <3>1. q.step # Len(Order(q))
      BY <2>1
    <3> QED
      BY <1>1, <3>1, AfterFacts
  <2>3. calls' = {Unlinked(q, r) : r \in calls} /\ answer = "none"
    BY <1>12 DEF Unlink, Unlinked, After
  <2>4. On(c, p)' = {After(q)}
    <3>1. ASSUME NEW r \in calls, Unlinked(q, r).container = c, Unlinked(q, r).path = p
          PROVE  r = q
      <4>1. r \in Calls
        BY <1>1
      <4>2. Same(r, [r EXCEPT !.bytes = Nothing])
        BY <4>1, CutFacts
      <4> QED
        BY <1>2, <3>1, <4>2 DEF Unlinked, Same, On
    <3>2. Unlinked(q, q) = After(q)
      BY DEF Unlinked
    <3> QED
      BY <2>2, <2>3, <3>1, <3>2 DEF On, Same
  <2>5. Outcome(After(q)) = b
    BY <1>2, <2>1, <2>2 DEF Outcome, Same
  <2> QED
    BY <1>6, <1>12, <2>1, <2>2, <2>3, <2>4, <2>5
<1>13. GoesOn(q, answer) \/ LookUp(q, answer) \/ Unlink(q, answer) \/ DirGone(q, answer)
  BY DEF CallStep, PutStep, DropRows, Prune
<1> QED
  BY <1>3, <1>9, <1>10, <1>11, <1>12, <1>13

\* a call arrives at a blob that no other call is for
LEMMA BeginHere ==
    ASSUME TypeInv, NEW r \in Calls, Begin(r), r.step = 1, UNCHANGED <<files, rows>>
    PROVE  /\ On(r.container, r.path) = {} => Carries(r, Outcome(r))' /\ r \in calls'
           /\ \A c \in Containers, p \in Paths : <<c, p>> # <<r.container, r.path>> => StaysAt(c, p)
<1> DEFINE c0 == r.container
           p0 == r.path
<1>1. /\ c0 \in Containers /\ p0 \in Paths /\ calls' = calls \cup {r}
      /\ mixed' = [mixed EXCEPT ![c0][p0] = UnsettledOn(c0, p0) # {}]
      /\ mixed \in [Containers -> [Paths -> BOOLEAN]] /\ Unsettled(r)
  BY DEF Begin, Calls, TypeInv, TypeOK, EmulatorTypeOK, Unsettled
<1>2. ASSUME On(c0, p0) = {}
      PROVE  Carries(r, Outcome(r))' /\ r \in calls'
  <2>1. UnsettledOn(c0, p0) = {} /\ On(c0, p0)' = {r}
    BY <1>1, <1>2 DEF UnsettledOn, On
  <2>2. ~mixed'[c0][p0]
    <3>1. mixed'[c0][p0] = (UnsettledOn(c0, p0) # {})
      BY <1>1
    <3> QED
      BY <2>1, <3>1
  <2> QED
    BY <1>1, <2>1, <2>2 DEF Carries, Outcome
<1>3. ASSUME NEW c \in Containers, NEW p \in Paths, <<c, p>> # <<c0, p0>>
      PROVE  StaysAt(c, p)
  <2>1. On(c, p)' = On(c, p)
    BY <1>1, <1>3 DEF On
  <2> QED
    BY <1>1, <1>3, <2>1 DEF StaysAt
<1> QED
  BY <1>2, <1>3

\* the tags of a blob are replaced
LEMMA RetagHere ==
    ASSUME TypeInv, NEW c \in Containers, NEW p \in Paths, NEW tags \in Tags \cup {Nothing},
           SetTags(c, p, tags)
    PROVE  /\ \A image \in Images : Holds(c, p, image) => Holds(c, p, [image EXCEPT !.tags = tags])'
           /\ \A d \in Containers, r \in Paths : <<d, r>> # <<c, p>> => StaysAt(d, r)
           /\ \A d, r : On(d, r)' = On(d, r)
<1>1. /\ rows[c][p] # Nothing /\ rows' = [rows EXCEPT ![c][p].tags = tags]
      /\ UNCHANGED <<files, calls, mixed>>
      /\ rows \in [Containers -> [Paths -> Rows \cup {Nothing}]]
  BY DEF SetTags, TypeInv, TypeOK, EmulatorTypeOK
<1>2. /\ rows[c][p] \in Rows /\ rows[c][p].metadata \in Uploads \cup {Nothing}
  BY <1>1, RowType DEF TypeInv, TypeOK
<1>3. rows'[c][p] = [rows[c][p] EXCEPT !.tags = tags]
  BY <1>1
<1>4. rows'[c][p] \in Rows /\ rows'[c][p].tags = tags /\ rows'[c][p].metadata = rows[c][p].metadata
  BY <1>2, <1>3 DEF Rows
<1>5. rows'[c][p] # Nothing
  BY <1>4, EmulatorAssumption
<1>6. \A d, r : On(d, r)' = On(d, r)
  BY <1>1 DEF On
<1>7. ASSUME NEW d \in Containers, NEW r \in Paths, <<d, r>> # <<c, p>>
      PROVE  StaysAt(d, r)
  <2>1. rows'[d][r] = rows[d][r]
    BY <1>1, <1>7
  <2> QED
    BY <1>1, <1>6, <2>1 DEF StaysAt
<1>8. ASSUME NEW image \in Images, Holds(c, p, image)
      PROVE  Holds(c, p, [image EXCEPT !.tags = tags])'
  <2>1. image = [bytes |-> files[c][p], tags |-> rows[c][p].tags, metadata |-> rows[c][p].metadata]
    BY <1>1, <1>8 DEF Holds, Blob
  <2>2. [image EXCEPT !.tags = tags] =
          [bytes |-> files[c][p], tags |-> tags, metadata |-> rows[c][p].metadata]
    BY <2>1
  <2>3. Blob(c, p)' = [bytes |-> files[c][p], tags |-> tags, metadata |-> rows[c][p].metadata]
    BY <1>1, <1>4, <1>5 DEF Blob
  <2> QED
    BY <1>1, <1>6, <1>8, <2>2, <2>3 DEF Holds
<1> QED
  BY <1>6, <1>7, <1>8

\* a caller goes: blobs it has no call for
LEMMA AbandonedStays ==
    ASSUME TypeInv, NEW x, calls' = Abandoned(x), UNCHANGED <<files, rows, mixed>>
    PROVE  /\ \A c, p : (\A q \in On(c, p) : q.caller # x) => StaysAt(c, p)
           /\ \A s \in calls' : \/ s \in calls /\ s.caller # x
                                \/ /\ s.caller = faults
                                   /\ \E q \in calls : q.caller = x /\ s.path = q.path
<1>1. PICK n : n = faults
  OBVIOUS
<1> DEFINE left(q) == IF q.caller = x THEN [q EXCEPT !.caller = n] ELSE q
<1>2. calls' = {left(q) : q \in calls}
  BY <1>1 DEF Abandoned
<1>3. ASSUME NEW q \in calls
      PROVE  /\ left(q).container = q.container /\ left(q).path = q.path
             /\ IF q.caller = x THEN left(q).caller = n ELSE left(q) = q
  <2>1. q \in Calls
    BY DEF TypeInv, TypeOK, EmulatorTypeOK
  <2> QED
    BY <2>1 DEF Calls
<1> HIDE DEF left
<1>4. ASSUME NEW c, NEW p, \A q \in On(c, p) : q.caller # x
      PROVE  StaysAt(c, p)
  <2>1. On(c, p)' = On(c, p)
    BY <1>2, <1>3, <1>4 DEF On
  <2> QED
    BY <2>1 DEF StaysAt
<1>5. ASSUME NEW s \in calls'
      PROVE  \/ s \in calls /\ s.caller # x
             \/ /\ s.caller = faults
                /\ \E q \in calls : q.caller = x /\ s.path = q.path
  BY <1>1, <1>2, <1>3
<1> QED
  BY <1>4, <1>5

-----------------------------------------------------------------------------
(* What holds of a path while something happens elsewhere.                 *)

WorkStays(p) == \A w \in Workers : work'[w] = work[w] \/ (~WorksOn(w, p) /\ ~WorksOn(w, p)')

LEMMA WorkFacts ==
    ASSUME NEW p, WorkStays(p), NEW w \in Workers
    PROVE  /\ WorksOn(w, p)' <=> WorksOn(w, p)
           /\ WorksOn(w, p) => work'[w] = work[w] /\ \A u : HasRead(w, u)' <=> HasRead(w, u)
BY DEF WorkStays, WorksOn, HasRead

LEMMA ComingKept ==
    ASSUME NEW p \in Paths, NEW u, \A c \in Containers : StaysAt(c, p), WorkStays(p),
           Queued(p) => Queued(p)', expected'[p] = expected[p], p \in Edited' => p \in Edited,
           \A c \in Containers : connected[c] => connected'[c], ComingFrom(p, u)
    PROVE  ComingFrom(p, u)'
<1>1. "uploads" \in Containers /\ "images" \in Containers
  BY DEF Containers
<1>2. Arriving(p, u) => Arriving(p, u)'
  BY <1>1, StaysFacts DEF Arriving, StaysAt
<1>3. Holds("uploads", p, ImageOf(u)) => Holds("uploads", p, ImageOf(u))'
  BY <1>1, StaysFacts
<1>4. ASSUME NEW w \in Workers, Resizing(w, p, u)
      PROVE  Resizing(w, p, u)'
  <2>1. WorksOn(w, p)' /\ work'[w] = work[w] /\ HasRead(w, u)'
    BY <1>4, WorkFacts DEF Resizing
  <2>2. ASSUME work[w].pc = "saving"
        PROVE  \E q \in On("images", p)' : q.caller = w /\ Carries(q, ImageOf(u))'
    <3>1. PICK q \in On("images", p) : q.caller = w /\ Carries(q, ImageOf(u))
      BY <1>4, <2>2 DEF Resizing
    <3>2. q \in On("images", p)' /\ Carries(q, ImageOf(u))'
      BY <1>1, <3>1, StaysFacts DEF StaysAt
    <3> QED
      BY <3>1, <3>2
  <2> QED
    BY <2>1, <2>2 DEF Resizing
<1> QED
  BY <1>2, <1>3, <1>4 DEF ComingFrom

LEMMA QuietKept ==
    ASSUME NEW p \in Paths, StaysAt("uploads", p), WorkStays(p), Queued(p)' => Queued(p), Quiet(p)
    PROVE  Quiet(p)'
<1>1. "uploads" \in Containers
  BY DEF Containers
<1>2. Unannounced(p) => Unannounced(p)'
  BY WorkFacts DEF Unannounced
<1>3. \A u : Arriving(p, u) => Arriving(p, u)'
  BY <1>1, StaysFacts DEF Arriving, StaysAt
<1>4. ASSUME NEW u, Hopeless(p, u)
      PROVE  Hopeless(p, u)'
  <2>1. Holds("uploads", p, ImageOf(u))'
    BY <1>1, <1>4, StaysFacts DEF Hopeless
  <2>2. ASSUME NEW w \in Workers, WorksOn(w, p)'
        PROVE  work'[w].pc # "saving" /\ (work'[w].pc # "bytes" => work'[w].bytes = u)
    BY <1>4, <2>2, WorkFacts DEF Hopeless
  <2> QED
    BY <2>1, <2>2 DEF Hopeless
<1> QED
  BY <1>2, <1>3, <1>4 DEF Quiet, StaysAt

LEMMA AsExpectedKept ==
    ASSUME NEW p \in Paths, StaysAt("images", p), expected'[p] = expected[p],
           p \in faceEvents => p \in faceEvents', AsExpected(p)
    PROVE  AsExpected(p)'
<1>1. "images" \in Containers
  BY DEF Containers
<1> QED
  BY <1>1, StaysFacts DEF AsExpected

\* a step that is about other paths
PathStays(p) ==
    /\ \A c \in Containers : StaysAt(c, p)
    /\ WorkStays(p)
    /\ Queued(p)' <=> Queued(p)
    /\ p \in faceEvents => p \in faceEvents'

\* what an edit does to a path of which something is promised
PromiseStays(p) ==
    Known(p)' =>
        /\ expected'[p] = expected[p]
        /\ \A c \in Containers : connected[c] => connected'[c]
        /\ p \in Edited' => p \in Edited
        /\ p \in Moving => p \in Moving'

LEMMA PathKept ==
    ASSUME NEW p \in Paths, PathStays(p), PromiseStays(p), PathWell(p)
    PROVE  PathWell(p)'
<1> SUFFICES ASSUME Known(p)'
             PROVE  Coming(p)' \/ (Quiet(p)' /\ (p \in Moving' \/ AsExpected(p)'))
  BY DEF PathWell
<1>1. /\ Known(p) /\ expected'[p] = expected[p]
      /\ \A c \in Containers : connected[c] => connected'[c]
      /\ p \in Edited' => p \in Edited
      /\ p \in Moving => p \in Moving'
  BY DEF PromiseStays, Known
<1>2. CASE Coming(p)
  BY <1>1, <1>2, ComingKept DEF Coming, PathStays
<1>3. CASE Quiet(p) /\ (p \in Moving \/ AsExpected(p))
  BY <1>1, <1>3, QuietKept, AsExpectedKept DEF PathStays, Containers
<1> QED
  BY <1>1, <1>2, <1>3 DEF PathWell

\* the paths of an edit
LEMMA EditedFacts ==
    ASSUME TypeInv
    PROVE  /\ admin.pc = "idle" <=> admin = NoEdit
           /\ admin = NoEdit => Edited = {}
           /\ admin.pc = "mark" => Edited = {admin.path}
           /\ ~Renaming => Moving = {}
           /\ Renaming => /\ admin.path \in DOMAIN NewPath /\ admin.path \in Paths
                          /\ NewPath[admin.path] \in Paths /\ NewPath[admin.path] # admin.path
                          /\ Edited = {admin.path, NewPath[admin.path]} /\ Moving = Edited
           /\ Edited \subseteq Paths
<1>1. admin \in Edits \/ admin = NoEdit
  BY DEF TypeInv, TypeOK
<1>2. NoEdit.pc = "idle"
  BY DEF NoEdit
<1>3. admin \in Edits => admin.pc # "idle" /\ admin.path \in Paths
  BY DEF Edits
<1>4. Renaming => admin.path \in DOMAIN NewPath
  BY DEF Renaming, TypeInv, EditWell
<1> QED
  BY <1>1, <1>2, <1>3, <1>4, PipelineAssumption DEF Edited, Moving, Renaming

\* a rename that goes on waiting for what it waits for
LEMMA RenameKept ==
    ASSUME NEW p \in DOMAIN NewPath, UNCHANGED admin, RenameFrom(p),
           Renaming /\ admin.path = p /\ Known(p)' /\ Known(NewPath[p])' =>
               /\ expected'[p] = expected[p] /\ Known(NewPath[p])
               /\ StaysAt("images", p) /\ StaysAt("images", NewPath[p])
               /\ NewPath[p] \in faceEvents => NewPath[p] \in faceEvents'
    PROVE  RenameFrom(p)'
<1> SUFFICES ASSUME Renaming', admin'.path = p, Known(p)', Known(NewPath[p])'
             PROVE  \E photo \in Images :
                        /\ expected'[p] = photo /\ admin'.found = photo.tags
                        /\ PhotoAt(p, photo)' /\ CopyAt(NewPath[p], photo)'
  BY DEF RenameFrom
<1> DEFINE r == NewPath[p]
<1>1. "images" \in Containers /\ p \in Paths /\ r \in Paths
  BY PipelineAssumption DEF Containers
<1>2. /\ Renaming /\ admin.path = p /\ Known(p) /\ Known(r)
      /\ StaysAt("images", p) /\ StaysAt("images", r) /\ (r \in faceEvents => r \in faceEvents')
      /\ expected'[p] = expected[p]
  BY DEF Renaming, Known
<1>3. PICK photo \in Images :
        /\ expected[p] = photo /\ admin.found = photo.tags
        /\ PhotoAt(p, photo) /\ CopyAt(r, photo)
  BY <1>2 DEF RenameFrom
<1> HIDE DEF r
<1>4. \A x \in {p, r} : \A b :
         /\ Holds("images", x, b) => Holds("images", x, b)'
         /\ \A q \in On("images", x) :
              q \in On("images", x)' /\ (Carries(q, b) => Carries(q, b)')
  BY <1>1, <1>2, StaysFacts DEF StaysAt
<1>5. PhotoAt(p, photo)'
  BY <1>3, <1>4 DEF PhotoAt
<1>6. CopyAt(r, photo)'
  BY <1>2, <1>3, <1>4 DEF CopyAt
<1> QED
  BY <1>2, <1>3, <1>5, <1>6 DEF r

\* a step that leaves alone what is promised, or makes it unknown
LEMMA RestKept ==
    ASSUME TypeInv, AskedFor, CallsOwned', EventsOfUploads',
           \A p \in Paths : Known(p)' => PathStays(p) /\ expected'[p] = expected[p],
           \A p \in Paths : Known(p)' => \A c \in Containers : connected[c] => connected'[c],
           \/ UNCHANGED admin
           \/ Edited' \subseteq Edited /\ \A p \in Edited : ~Known(p)'
    PROVE  AskedFor'
<1>1. Edited' \subseteq Edited /\ Edited \subseteq Paths
  BY EditedFacts DEF Edited
<1>2. \A p \in Paths : Known(p)' /\ p \in Moving => p \in Moving'
  BY EditedFacts DEF Moving, Renaming, Edited
<1>3. \A p \in Paths : Known(p)' => Known(p)
  BY DEF Known
<1>4. ASSUME NEW p \in Paths
      PROVE  PathWell(p)'
  <2>1. CASE Known(p)'
    <3>1. PromiseStays(p)
      BY <1>1, <1>2, <2>1 DEF PromiseStays
    <3> QED
      BY <2>1, <3>1, PathKept DEF AskedFor
  <2>2. CASE ~Known(p)'
    BY <2>2 DEF PathWell
  <2> QED
    BY <2>1, <2>2
<1>5. ASSUME NEW p \in DOMAIN NewPath
      PROVE  RenameFrom(p)'
  <2>1. p \in Paths /\ NewPath[p] \in Paths
    BY PipelineAssumption
  <2>2. CASE UNCHANGED admin
    <3>1. Known(p)' /\ Known(NewPath[p])' =>
            /\ expected'[p] = expected[p] /\ Known(NewPath[p])
            /\ StaysAt("images", p) /\ StaysAt("images", NewPath[p])
            /\ NewPath[p] \in faceEvents => NewPath[p] \in faceEvents'
      BY <1>3, <2>1 DEF PathStays, Containers
    <3> QED
      BY <2>2, <3>1, RenameKept DEF AskedFor
  <2>3. CASE \A x \in Edited : ~Known(x)'
    <3>1. Renaming' /\ admin'.path = p => p \in Edited'
      <4>1. NoEdit.pc = "idle"
        BY DEF NoEdit
      <4> QED
        BY <4>1 DEF Edited, Renaming
    <3> QED
      BY <1>1, <2>3, <3>1 DEF RenameFrom
  <2> QED
    BY <2>2, <2>3
<1>6. EditHeard'
  BY <1>1, <1>3 DEF EditHeard, AskedFor, Containers
<1> QED
  BY <1>4, <1>5, <1>6 DEF AskedFor

-----------------------------------------------------------------------------
(* The queue.                                                              *)

OriginalsQueued == \A i \in 1..Len(queue) : queue[i][1] = "uploads"

LEMMA Appended ==
    ASSUME queue \in Seq(Containers \X Paths), NEW r \in Paths, queue' = Append(queue, <<"uploads", r>>)
    PROVE  /\ Queued(r)'
           /\ \A p : p # r => (Queued(p)' <=> Queued(p))
           /\ OriginalsQueued => OriginalsQueued'
<1>1. /\ Len(queue) \in Nat /\ Len(queue') = Len(queue) + 1
      /\ queue'[Len(queue) + 1] = <<"uploads", r>>
      /\ \A i \in 1..Len(queue) : queue'[i] = queue[i]
  OBVIOUS
<1>2. 1..Len(queue') = (1..Len(queue)) \cup {Len(queue) + 1}
  BY <1>1
<1> QED
  BY <1>1, <1>2 DEF Queued, OriginalsQueued

LEMMA Prepended ==
    ASSUME queue \in Seq(Containers \X Paths), NEW e, e[1] = "uploads", queue' = <<e>> \o queue
    PROVE  /\ \A p : p # e[2] => (Queued(p)' <=> Queued(p))
           /\ OriginalsQueued => OriginalsQueued'
<1>1. /\ Len(queue) \in Nat /\ Len(queue') = Len(queue) + 1 /\ queue'[1] = e
      /\ \A i \in 1..Len(queue) : queue'[i + 1] = queue[i]
      /\ \A i \in 2..Len(queue') : i - 1 \in 1..Len(queue) /\ queue'[i] = queue[i - 1]
      /\ \A i \in 1..Len(queue) : i + 1 \in 1..Len(queue')
  OBVIOUS
<1>2. \A i \in 1..Len(queue') : i = 1 \/ i \in 2..Len(queue')
  BY <1>1
<1>3. ASSUME NEW p, p # e[2]
      PROVE  Queued(p)' <=> Queued(p)
  <2>1. ASSUME NEW i \in 1..Len(queue'), queue'[i][2] = p
        PROVE  Queued(p)
    BY <1>1, <1>2, <1>3, <2>1 DEF Queued
  <2>2. ASSUME NEW i \in 1..Len(queue), queue[i][2] = p
        PROVE  Queued(p)'
    BY <1>1, <2>2 DEF Queued
  <2> QED
    BY <2>1, <2>2 DEF Queued
<1>4. OriginalsQueued => OriginalsQueued'
  BY <1>1, <1>2 DEF OriginalsQueued
<1> QED
  BY <1>3, <1>4

LEMMA Taken ==
    ASSUME queue \in Seq(Containers \X Paths), queue # << >>, queue' = Tail(queue)
    PROVE  /\ \A p : Queued(p) <=> Queued(p)' \/ Head(queue)[2] = p
           /\ OriginalsQueued => OriginalsQueued' /\ Head(queue)[1] = "uploads"
           /\ Head(queue) \in Containers \X Paths
<1>1. /\ Len(queue) \in Nat \ {0} /\ Len(queue') = Len(queue) - 1 /\ queue[1] = Head(queue)
      /\ \A i \in 1..Len(queue') : i + 1 \in 1..Len(queue) /\ queue'[i] = queue[i + 1]
      /\ \A i \in 2..Len(queue) : i - 1 \in 1..Len(queue') /\ queue'[i - 1] = queue[i]
      /\ Head(queue) \in Containers \X Paths
  OBVIOUS
<1>2. 1 \in 1..Len(queue) /\ \A i \in 1..Len(queue) : i = 1 \/ i \in 2..Len(queue)
  BY <1>1
<1>3. ASSUME NEW p
      PROVE  Queued(p) <=> Queued(p)' \/ Head(queue)[2] = p
  <2>1. ASSUME NEW i \in 1..Len(queue), queue[i][2] = p
        PROVE  Queued(p)' \/ Head(queue)[2] = p
    BY <1>1, <1>2, <2>1 DEF Queued
  <2>2. ASSUME NEW i \in 1..Len(queue'), queue'[i][2] = p
        PROVE  Queued(p)
    BY <1>1, <2>2 DEF Queued
  <2>3. Head(queue)[2] = p => Queued(p)
    BY <1>1, <1>2 DEF Queued
  <2> QED
    BY <2>1, <2>2, <2>3 DEF Queued
<1>4. OriginalsQueued => OriginalsQueued' /\ Head(queue)[1] = "uploads"
  BY <1>1, <1>2 DEF OriginalsQueued
<1> QED
  BY <1>1, <1>3, <1>4

\* what a call announces
LEMMA CallAnnounces ==
    ASSUME TypeInv, NEW q \in calls, NEW answer, CallStep(q, answer) \/ CallFails(q, answer)
    PROVE  /\ UNCHANGED connected
           /\ faceEvents \subseteq faceEvents' /\ (q.container = "uploads" => UNCHANGED faceEvents)
           /\ q.container = "images" => UNCHANGED queue
           /\ \A p : p # q.path => (Queued(p)' <=> Queued(p))
           /\ OriginalsQueued => OriginalsQueued'
           /\ answer = "none" => UNCHANGED announced
           /\ CallStep(q, answer) /\ answer = "ok" /\ q.op = "put" /\ connected[q.container] =>
                IF q.container = "images" THEN q.path \in faceEvents' ELSE Queued(q.path)'
<1>1. /\ q \in Calls /\ q.op \in {"put", "delete"} /\ (q.op = "delete" => q.step \in 1..4)
      /\ q.path \in Paths /\ q.container \in {"uploads", "images"}
      /\ queue \in Seq(Containers \X Paths)
  BY DEF TypeInv, TypeOK, EmulatorTypeOK, CallsInOrder, Calls, Containers
<1>2. UNCHANGED connected
  BY DEF CallStep, CallFails
<1>3. CASE UNCHANGED announced /\ ~(CallStep(q, answer) /\ answer = "ok" /\ q.op = "put" /\ connected[q.container])
  BY <1>2, <1>3 DEF announced, Queued, OriginalsQueued
<1>4. CASE Publish(q) /\ connected[q.container] /\ CallStep(q, answer)
  <2>1. /\ Published(q.container, q.path)
        /\ q.op = "put" /\ q.step = 5
    BY <1>1, <1>4, PutSteps, DeleteSteps DEF Publish
  <2>2. Len(Order(q)) = 5
    BY <1>1, <2>1, PutSteps
  <2>3. answer # "none"
    BY <1>1, <1>4, <2>1, <2>2, PutSteps
    DEF CallStep, PutStep, DirGone, GoesOn, LookUp, DropRows, Unlink, Prune
  <2>4. CASE q.container = "images"
    BY <1>2, <2>1, <2>3, <2>4 DEF Published, Queued, OriginalsQueued
  <2>5. CASE q.container = "uploads"
    <3>1. queue' = Append(queue, <<"uploads", q.path>>) /\ UNCHANGED faceEvents
      BY <2>1, <2>5 DEF Published, EventOf
    <3> QED
      BY <1>1, <1>2, <2>3, <2>5, <3>1, Appended
  <2> QED
    BY <1>1, <2>4, <2>5
<1>5. CallFails(q, answer) \/ DirGone(q, answer) \/ LookUp(q, answer) \/ DropRows(q, answer)
      \/ Unlink(q, answer) \/ Prune(q, answer) \/ MakeDir(q) \/ OpenFile(q) \/ WriteFile(q)
      \/ CommitRows(q) \/ (Publish(q) /\ ~connected[q.container])
      => UNCHANGED announced
  BY DEF CallFails, DirGone, LookUp, DropRows, Unlink, Prune, MakeDir, OpenFile, WriteFile,
         CommitRows, Publish, announced
<1>6. ASSUME CallStep(q, answer), answer = "ok", q.op = "put"
      PROVE  Publish(q)
  <2>1. PutStep(q, answer)
    BY <1>1, <1>6, PutSteps DEF CallStep, DirGone, LookUp, DropRows, Unlink, Prune
  <2>2. q.step = 5
    <3>1. Len(Order(q)) = 5
      BY <1>1, <1>6, PutSteps
    <3> QED
      BY <1>6, <2>1, <3>1 DEF PutStep, GoesOn
  <2> QED
    BY <1>1, <1>6, <2>1, <2>2, PutSteps DEF PutStep, MakeDir, OpenFile, WriteFile, CommitRows
<1> QED
  BY <1>3, <1>4, <1>5, <1>6 DEF CallStep, PutStep

-----------------------------------------------------------------------------
(* A step of a call.                                                       *)

NothingRegained == \A p \in Paths : Known(p)' => Known(p)

LEMMA OwnedAfter ==
    ASSUME TypeInv, CallsOwned, NEW q \in calls, NEW answer \in {"none", "ok", "error"},
           CallStep(q, answer) \/ CallFails(q, answer), Answered(q, answer), NothingRegained
    PROVE  CallsOwned'
<1>1. /\ \A s \in calls' : \E r \in calls : Same(r, s)
      /\ \A s \in calls' : s \in Calls
      /\ answer \in {"ok", "error"} => calls' = calls \ {q}
      /\ \A x : (\A r, s \in calls : r.caller = x /\ s.caller = x => r = s) =>
                (\A r, s \in calls' : r.caller = x /\ s.caller = x => r = s)
  BY CallsAfter DEF TypeInv, TypeOK, EmulatorTypeOK
<1>2. \A r, s \in calls' : r.caller \in Workers /\ s.caller = r.caller => r = s
  BY <1>1 DEF CallsOwned
<1>3. ASSUME NEW s \in calls'
      PROVE  Owned(s)'
  <2>1. PICK r \in calls : Same(r, s)
    BY <1>1
  <2>2. /\ Owned(r) /\ s.op = r.op /\ s.caller = r.caller /\ s.container = r.container
        /\ s.path = r.path /\ s.path \in Paths
    BY <1>1, <2>1 DEF CallsOwned, Same, Calls
  <2>3. s.caller \in Workers => work'[s.caller] = work[s.caller]
    <3>1. CASE answer = "none"
      BY <3>1 DEF Answered
    <3>2. CASE answer # "none"
      <4>1. s \in calls /\ s # q
        BY <1>1, <3>2
      <4>2. s.caller \in Workers => s.caller # q.caller
        BY <4>1 DEF CallsOwned
      <4> QED
        BY <3>2, <4>2 DEF Answered, TypeInv, TypeOK
    <3> QED
      BY <3>1, <3>2
  <2>4. s.caller = Admin => admin' = admin
    <3>1. CASE answer = "none" \/ q.caller # Admin
      BY <3>1 DEF Answered
    <3>2. CASE answer # "none" /\ q.caller = Admin
      BY <1>1, <3>2 DEF TypeInv, EditsCall
    <3> QED
      BY <3>1, <3>2
  <2>5. ~Known(s.path) => ~Known(s.path)'
    BY <2>2 DEF NothingRegained
  <2> QED
    BY <2>2, <2>3, <2>4, <2>5 DEF Owned, WorksOn
<1> QED
  BY <1>2, <1>3 DEF CallsOwned

LEMMA CallFrame ==
    ASSUME TypeInv, CallsOwned, EventsOfUploads, NEW q \in calls, NEW answer \in {"none", "ok", "error"},
           CallStep(q, answer) \/ CallFails(q, answer), Answered(q, answer)
    PROVE  /\ EventsOfUploads'
           /\ \A p \in Paths : p # q.path => PathStays(p)
           /\ \A p \in Paths, c \in Containers : c # q.container => StaysAt(c, p)
<1>1. \A w \in Workers : work'[w] = work[w] \/ (w = q.caller /\ answer # "none" /\ work'[w] = Idle)
  BY DEF Answered, TypeInv, TypeOK
<1>2. \A p \in Paths, c \in Containers : p # q.path \/ c # q.container => StaysAt(c, p)
  BY OthersStay
<1>3. EventsOfUploads'
  <2>1. OriginalsQueued'
    BY CallAnnounces DEF EventsOfUploads, OriginalsQueued
  <2> QED
    BY <1>1, <2>1 DEF EventsOfUploads, OriginalsQueued
<1>4. ASSUME NEW p \in Paths, p # q.path
      PROVE  PathStays(p)
  <2>1. WorkStays(p)
    <3>1. q.caller \in Workers => WorksOn(q.caller, q.path)
      BY DEF CallsOwned, Owned
    <3> QED
      BY <1>1, <1>4, <3>1 DEF WorkStays, WorksOn
  <2> QED
    BY <1>2, <1>4, <2>1, CallAnnounces DEF PathStays
<1> QED
  BY <1>2, <1>3, <1>4

\* what an answer does to the edit under way
LEMMA AnsweredEdit ==
    ASSUME TypeInv, NEW q \in calls, NEW answer \in {"none", "ok", "error"}, Answered(q, answer)
    PROVE  /\ q.caller # Admin \/ answer = "none" => UNCHANGED admin
           /\ q.caller = Admin => Renaming /\ Edited' \subseteq Edited
           /\ q.caller = Admin => admin.pc = (IF q.op = "put" THEN "copying" ELSE "deleting")
           /\ q.caller = Admin /\ answer = "ok" /\ q.op = "put" =>
                /\ admin'.pc = "retag" /\ admin'.path = admin.path /\ admin'.found = admin.found
                /\ Edited' = Edited
           /\ q.caller = Admin /\ answer = "ok" /\ q.op # "put" => admin' = NoEdit /\ Edited' = {}
<1>1. q.caller = Admin => admin.pc = (IF q.op = "put" THEN "copying" ELSE "deleting")
  BY DEF TypeInv, EditsCall
<1>2. UNCHANGED admin => Edited' = Edited
  BY DEF Edited
<1>3. admin' = NoEdit => Edited' = {}
  BY DEF Edited
<1>4. ASSUME q.caller = Admin, answer = "ok", q.op = "put"
      PROVE  /\ admin'.pc = "retag" /\ admin'.path = admin.path /\ admin'.found = admin.found
             /\ Edited' = Edited
  <2>1. admin.pc = "copying" /\ admin # NoEdit
    BY <1>1, <1>4 DEF NoEdit
  <2>2. admin' = [admin EXCEPT !.pc = "retag"] /\ admin' # NoEdit
    BY <1>4, <2>1, RetagEdit, EditedFacts DEF Answered, NoEdit
  <2>3. admin'.pc = "retag" /\ admin'.path = admin.path /\ admin'.found = admin.found
    BY <2>1, <2>2, RetagEdit
  <2> QED
    BY <2>1, <2>2, <2>3 DEF Edited
<1> QED
  BY <1>1, <1>2, <1>3, <1>4 DEF Answered, Renaming

\* a call that fails, or cannot go on
LEMMA CallDisturbed ==
    ASSUME TypeInv, AskedFor, NEW q \in calls, NEW answer \in {"none", "ok", "error"},
           CallStep(q, answer) \/ CallFails(q, answer), Answered(q, answer), Forget(Touched(q))
    PROVE  AskedFor'
<1>1. q.path \in Paths /\ q \in Calls
  BY DEF TypeInv, TypeOK, EmulatorTypeOK, Calls
<1>2. /\ \A p \in Paths : Known(p)' => Known(p) /\ expected'[p] = expected[p] /\ p # q.path
      /\ q.caller = Admin => \A p \in Edited : ~Known(p)'
  BY <1>1, EditedFacts DEF Forget, Touched, Known
<1>3. CallsOwned'
  BY <1>2, OwnedAfter DEF NothingRegained, AskedFor
<1>4. EventsOfUploads' /\ \A p \in Paths : p # q.path => PathStays(p)
  BY CallFrame DEF AskedFor
<1>5. UNCHANGED connected
  BY CallAnnounces
<1>6. \/ UNCHANGED admin
      \/ Edited' \subseteq Edited /\ \A p \in Edited : ~Known(p)'
  BY <1>2, AnsweredEdit
<1> QED
  BY <1>2, <1>3, <1>4, <1>5, <1>6, RestKept

\* a step that the edit under way does not notice
LEMMA EditKept ==
    ASSUME TypeInv, AskedFor, UNCHANGED <<admin, connected>>,
           \A p \in Edited : Known(p)' =>
               /\ expected'[p] = expected[p] /\ StaysAt("images", p)
               /\ p \in faceEvents => p \in faceEvents'
    PROVE  /\ \A p \in DOMAIN NewPath : RenameFrom(p)'
           /\ EditHeard' /\ Edited' = Edited /\ Moving' = Moving
<1>1. Edited' = Edited /\ Moving' = Moving /\ (Renaming' <=> Renaming)
  BY DEF Edited, Moving, Renaming
<1>2. ASSUME NEW p \in DOMAIN NewPath
      PROVE  RenameFrom(p)'
  <2>1. Renaming /\ admin.path = p => p \in Edited /\ NewPath[p] \in Edited
    BY EditedFacts
  <2>2. Renaming /\ admin.path = p /\ Known(p)' /\ Known(NewPath[p])' =>
            /\ expected'[p] = expected[p] /\ Known(NewPath[p])
            /\ StaysAt("images", p) /\ StaysAt("images", NewPath[p])
            /\ NewPath[p] \in faceEvents => NewPath[p] \in faceEvents'
    BY <2>1 DEF Known
  <2> QED
    BY <2>2, RenameKept DEF AskedFor
<1>3. EditHeard'
  BY <1>1 DEF EditHeard, AskedFor, Known
<1> QED
  BY <1>1, <1>2, <1>3

LEMMA OfPlace ==
    ASSUME NEW q, NEW t, Same(q, t), t \in calls'
    PROVE  t \in On(q.container, q.path)'
BY DEF On, Same

\* the call of an upload
LEMMA UploadServed ==
    ASSUME TypeInv, BlobsInv, AskedFor, NEW q \in calls, NEW answer \in {"none", "ok"},
           CallStep(q, answer), Answered(q, answer), UNCHANGED expected, q.caller \in Uploads
    PROVE  AskedFor'
<1> DEFINE p0 == q.path
<1>1. /\ p0 \in Paths /\ q.op = "put" /\ q.container = "uploads" /\ q \in On("uploads", p0)
      /\ q.caller \notin Workers /\ q.caller # Admin
  BY PipelineAssumption DEF TypeInv, TypeOK, EmulatorTypeOK, Calls, AskedFor, CallsOwned, Owned, On
<1>2. UNCHANGED <<work, admin, connected>>
  BY <1>1, CallAnnounces DEF Answered
<1>3. CallsOwned'
  BY OwnedAfter DEF AskedFor, NothingRegained, Known
<1>4. /\ EventsOfUploads'
      /\ \A p \in Paths : p # p0 => PathStays(p)
      /\ \A p \in Paths : StaysAt("images", p)
  BY <1>1, CallFrame DEF AskedFor, Containers
<1>5. /\ \A p \in DOMAIN NewPath : RenameFrom(p)'
      /\ EditHeard' /\ Edited' = Edited /\ Moving' = Moving
  <2>1. faceEvents \subseteq faceEvents' /\ Edited \subseteq Paths
    BY CallAnnounces, EditedFacts
  <2> QED
    BY <1>2, <1>4, <2>1, EditKept
<1>6. ASSUME NEW p \in Paths, p # p0
      PROVE  PathWell(p)'
  <2>1. PromiseStays(p)
    BY <1>2, <1>5 DEF PromiseStays
  <2> QED
    BY <1>4, <1>6, <2>1, PathKept DEF AskedFor
<1>7. ASSUME NEW u, Arriving(p0, u)
      PROVE  \/ Arriving(p0, u)' /\ UNCHANGED announced
             \/ answer = "ok" /\ Holds("uploads", p0, ImageOf(u))'
  <2>1. PICK r \in On("uploads", p0) : r.caller = u /\ Carries(r, ImageOf(u))
    BY <1>7 DEF Arriving
  <2>2. r = q
    BY <1>1, <2>1 DEF Carries, On
  <2>3. CASE answer = "none"
    <3>1. PICK t \in calls' : Same(q, t) /\ Carries(t, ImageOf(u))'
      BY <2>1, <2>2, <2>3, CarriedOn
    <3>2. t \in On("uploads", p0)' /\ t.caller = u
      BY <1>1, <2>1, <2>2, <3>1, OfPlace DEF Same
    <3>3. Arriving(p0, u)'
      BY <3>1, <3>2 DEF Arriving
    <3>4. UNCHANGED announced
      BY <2>3, CallAnnounces
    <3> QED
      BY <3>3, <3>4
  <2>4. CASE answer = "ok"
    BY <1>1, <2>1, <2>2, <2>4, CarriedOn
  <2> QED
    BY <2>3, <2>4
<1>8. WorkStays(p0)
  BY <1>2 DEF WorkStays
<1>9. PathWell(p0)'
  <2> SUFFICES ASSUME Known(p0)'
               PROVE  Coming(p0)' \/ (Quiet(p0)' /\ (p0 \in Moving' \/ AsExpected(p0)'))
    BY DEF PathWell
  <2>1. Known(p0) /\ PathWell(p0)
    BY <1>1 DEF Known, AskedFor
  <2>2. ASSUME NEW u \in Uploads, ComingFrom(p0, u)
        PROVE  Coming(p0)'
    <3>1. Arriving(p0, u)
      BY <1>1, <2>2 DEF ComingFrom, Holds
    <3>2. answer = "ok" => Queued(p0)'
      BY <1>1, <2>2, CallAnnounces DEF ComingFrom, Containers
    <3>3. ComingFrom(p0, u)'
      BY <1>2, <1>5, <1>7, <2>2, <3>1, <3>2 DEF ComingFrom
    <3> QED
      BY <3>3 DEF Coming
  <2>3. ASSUME Quiet(p0)
        PROVE  Quiet(p0)'
    <3>1. PICK u \in Uploads : Quality[u] = "broken" /\ Unannounced(p0) /\ Arriving(p0, u)
      BY <1>1, <2>3 DEF Quiet, Hopeless, Holds
    <3>2. CASE Arriving(p0, u)' /\ UNCHANGED announced
      <4>1. Unannounced(p0)'
        BY <1>2, <3>1, <3>2 DEF Unannounced, announced, Queued, WorksOn
      <4> QED
        BY <3>1, <3>2, <4>1 DEF Quiet
    <3>3. CASE Holds("uploads", p0, ImageOf(u))'
      <4>1. Hopeless(p0, u)'
        BY <1>2, <3>1, <3>3 DEF Hopeless, Unannounced, WorksOn
      <4> QED
        BY <3>1, <4>1 DEF Quiet
    <3> QED
      BY <1>7, <3>1, <3>2, <3>3
  <2>4. AsExpected(p0) => AsExpected(p0)'
    BY <1>1, <1>4, CallAnnounces, AsExpectedKept
  <2> QED
    BY <1>5, <2>1, <2>2, <2>3, <2>4 DEF PathWell, Coming
<1> QED
  BY <1>3, <1>4, <1>5, <1>6, <1>9 DEF AskedFor

\* the call of the replica
LEMMA ReplicaServed ==
    ASSUME OneWorker, TypeInv, BlobsInv, AskedFor, NEW q \in calls, NEW answer \in {"none", "ok"},
           CallStep(q, answer), Answered(q, answer), UNCHANGED expected, q.caller \in Workers
    PROVE  AskedFor'
<1> DEFINE p0 == q.path
<1>1. PICK w \in Workers : w = q.caller
  OBVIOUS
<1>2. /\ p0 \in Paths /\ q.op = "put" /\ q.container = "images" /\ q \in On("images", p0)
      /\ w \notin Uploads /\ w # Admin /\ WorksOn(w, p0) /\ work[w].pc = "saving"
  BY <1>1, PipelineAssumption DEF TypeInv, TypeOK, EmulatorTypeOK, Calls, AskedFor, CallsOwned, Owned, On
<1>3. UNCHANGED <<admin, connected, queue>>
  BY <1>1, <1>2, CallAnnounces DEF Answered
<1>4. CallsOwned'
  BY OwnedAfter DEF AskedFor, NothingRegained, Known
<1>5. /\ EventsOfUploads'
      /\ \A p \in Paths : p # p0 => PathStays(p)
      /\ \A p \in Paths : StaysAt("uploads", p)
  BY <1>2, CallFrame DEF AskedFor, Containers
<1>6. Known(p0) => \E u \in Uploads : ComingFrom(p0, u)
  BY <1>2 DEF AskedFor, PathWell, Coming, Quiet, Hopeless, Unannounced
<1>7. faceEvents \subseteq faceEvents' /\ Edited \subseteq Paths
  BY CallAnnounces, EditedFacts
<1>8. /\ \A p \in DOMAIN NewPath : RenameFrom(p)'
      /\ EditHeard' /\ Edited' = Edited /\ Moving' = Moving
  <2>1. \A p \in Edited : Known(p)' => p # p0
    BY <1>6 DEF ComingFrom, Known
  <2> QED
    BY <1>3, <1>5, <1>7, <2>1, EditKept DEF PathStays, Containers
<1>9. ASSUME NEW p \in Paths, p # p0
      PROVE  PathWell(p)'
  <2>1. PromiseStays(p)
    BY <1>3, <1>8 DEF PromiseStays
  <2> QED
    BY <1>5, <1>9, <2>1, PathKept DEF AskedFor
<1>10. ASSUME NEW u \in Uploads, ComingFrom(p0, u)
       PROVE  PathWell(p0)'
  <2>1. Arriving(p0, u) => Arriving(p0, u)'
    BY <1>2, <1>5, StaysFacts DEF Arriving, StaysAt, Containers
  <2>2. Holds("uploads", p0, ImageOf(u)) => Holds("uploads", p0, ImageOf(u))'
    BY <1>2, <1>5, StaysFacts DEF Containers
  <2>3. Queued(p0)' <=> Queued(p0)
    BY <1>3 DEF Queued
  <2>4. CASE Arriving(p0, u) \/ (Holds("uploads", p0, ImageOf(u)) /\ Queued(p0))
    <3>1. ComingFrom(p0, u)'
      BY <1>3, <1>8, <1>10, <2>1, <2>2, <2>3, <2>4 DEF ComingFrom
    <3> QED
      BY <3>1 DEF PathWell, Coming
  <2>5. ASSUME Holds("uploads", p0, ImageOf(u)), ~Queued(p0), NEW v \in Workers, Resizing(v, p0, u)
        PROVE  PathWell(p0)'
    <3>1. v = w
      BY DEF OneWorker
    <3>2. PICK r \in On("images", p0) : r.caller = w /\ Carries(r, ImageOf(u))
      BY <1>2, <2>5, <3>1 DEF Resizing
    <3>3. r = q
      BY <1>2, <3>2 DEF Carries, On
    <3>4. CASE answer = "none"
      <4>1. PICK t \in calls' : Same(q, t) /\ Carries(t, ImageOf(u))'
        BY <3>2, <3>3, <3>4, CarriedOn
      <4>2. t \in On("images", p0)' /\ t.caller = w
        BY <1>1, <1>2, <4>1, OfPlace DEF Same
      <4>3. UNCHANGED work
        BY <3>4 DEF Answered
      <4>4. Resizing(w, p0, u)'
        BY <2>5, <3>1, <4>1, <4>2, <4>3 DEF Resizing, WorksOn, HasRead
      <4>5. ComingFrom(p0, u)'
        BY <1>3, <1>8, <1>10, <2>2, <2>5, <4>4 DEF ComingFrom
      <4> QED
        BY <4>5 DEF PathWell, Coming
    <3>5. CASE answer = "ok"
      <4>1. Holds("images", p0, ImageOf(u))'
        BY <1>2, <3>2, <3>3, <3>5, CarriedOn
      <4>2. p0 \in faceEvents'
        BY <1>2, <1>10, <3>5, CallAnnounces DEF ComingFrom, Containers
      <4>3. AsExpected(p0)'
        <5>1. ImageOf(u) \in Images /\ expected'[p0] = ImageOf(u)
          BY <1>10, ImageOfType DEF ComingFrom
        <5> QED
          BY <4>1, <4>2, <5>1 DEF AsExpected
      <4>4. work'[w] = Idle
        BY <1>1, <3>5 DEF Answered, TypeInv, TypeOK
      <4>5. Unannounced(p0)' /\ On("uploads", p0)' = {}
        BY <2>2, <2>3, <2>5, <4>4 DEF Unannounced, WorksOn, OneWorker, Holds
      <4> QED
        BY <4>3, <4>5 DEF PathWell, Quiet
    <3> QED
      BY <3>4, <3>5
  <2> QED
    BY <1>10, <2>4, <2>5 DEF ComingFrom
<1>11. PathWell(p0)'
  BY <1>6, <1>10 DEF PathWell, Known
<1> QED
  BY <1>4, <1>5, <1>8, <1>9, <1>11 DEF AskedFor

\* the call of an edit
LEMMA CopyServed ==
    ASSUME TypeInv, BlobsInv, AskedFor, NEW q \in calls, NEW answer \in {"none", "ok"},
           CallStep(q, answer), Answered(q, answer), UNCHANGED expected, q.caller = Admin, q.op = "put"
    PROVE  AskedFor'
<1>1. PICK p \in DOMAIN NewPath : p = admin.path
  BY AnsweredEdit, EditedFacts
<1> DEFINE r == NewPath[p]
<1>2. /\ p \in Paths /\ r \in Paths /\ r # p /\ "images" \in Containers
      /\ q.container = "images" /\ q.path = r /\ q \in On("images", r) /\ q.caller \notin Workers
      /\ Renaming /\ admin.pc = "copying" /\ Edited = {p, r} /\ Moving = {p, r}
  BY <1>1, PipelineAssumption, AnsweredEdit, EditedFacts
  DEF AskedFor, CallsOwned, Owned, On, Containers
<1>3. UNCHANGED <<work, connected, queue>>
  BY <1>2, CallAnnounces DEF Answered
<1>4. /\ Edited' = Edited /\ Moving' = Moving
      /\ answer = "none" => UNCHANGED admin
      /\ answer = "ok" => admin'.pc = "retag" /\ admin'.path = p /\ admin'.found = admin.found
  <2>1. admin' = admin => Edited' = Edited /\ Moving' = Moving
    BY DEF Edited, Moving, Renaming
  <2>2. answer = "none" => admin' = admin
    BY AnsweredEdit
  <2>3. answer = "ok" => /\ admin'.pc = "retag" /\ admin'.path = p /\ admin'.found = admin.found
                         /\ Edited' = Edited
    BY <1>1, AnsweredEdit
  <2>4. admin'.pc = "retag" => Moving' = Edited'
    BY DEF Moving, Renaming
  <2> QED
    BY <1>2, <2>1, <2>2, <2>3, <2>4
<1>5. CallsOwned'
  BY OwnedAfter DEF AskedFor, NothingRegained, Known
<1>6. /\ EventsOfUploads'
      /\ \A x \in Paths : x # r => PathStays(x)
      /\ \A x \in Paths : StaysAt("uploads", x)
  BY <1>2, CallFrame DEF AskedFor, Containers
<1>7. ASSUME NEW x \in Paths, x # r
      PROVE  PathWell(x)'
  <2>1. PromiseStays(x)
    BY <1>3, <1>4 DEF PromiseStays
  <2> QED
    BY <1>6, <1>7, <2>1, PathKept DEF AskedFor
<1>8. PathWell(r)'
  <2>1. Known(r) => Quiet(r)
    BY <1>2 DEF AskedFor, PathWell, Coming, ComingFrom
  <2>2. WorkStays(r) /\ (Queued(r)' => Queued(r))
    BY <1>3 DEF WorkStays, Queued
  <2>3. Quiet(r) => Quiet(r)'
    BY <1>2, <1>6, <2>2, QuietKept
  <2>4. r \in Moving'
    BY <1>2, <1>4
  <2> QED
    BY <2>1, <2>3, <2>4 DEF PathWell, Known
<1>9. EditHeard'
  BY <1>3, <1>4 DEF EditHeard, AskedFor, Known
<1>10. ASSUME NEW x \in DOMAIN NewPath
       PROVE  RenameFrom(x)'
  <2> SUFFICES ASSUME admin'.path = x, Known(p), Known(r)
               PROVE  \E photo \in Images :
                          /\ expected'[x] = photo /\ admin'.found = photo.tags
                          /\ PhotoAt(x, photo)' /\ CopyAt(NewPath[x], photo)'
    BY <1>1, <1>4 DEF RenameFrom, Known
  <2>1. x = p
    BY <1>1, <1>4
  <2>2. PICK photo \in Images : /\ expected[p] = photo /\ admin.found = photo.tags
                                /\ PhotoAt(p, photo) /\ CopyAt(r, photo)
    BY <1>1, <1>2 DEF AskedFor, RenameFrom
  <2>3. Holds("images", p, photo)'
    BY <1>2, <1>6, <2>2, StaysFacts DEF PhotoAt, PathStays
  <2>4. Carries(q, photo)
    BY <1>2, <2>2 DEF CopyAt, Carries, On
  <2>5. CASE answer = "none"
    <3>1. PICK t \in calls' : Same(q, t) /\ Carries(t, photo)'
      BY <2>4, <2>5, CarriedOn
    <3>2. t \in On("images", r)' /\ t.caller = Admin
      BY <1>2, <3>1, OfPlace DEF Same
    <3>3. admin' = admin
      BY <1>4, <2>5
    <3>4. PhotoAt(p, photo)'
      BY <1>2, <2>3, <3>3 DEF PhotoAt
    <3>5. CopyAt(r, photo)'
      BY <1>2, <3>1, <3>2, <3>3 DEF CopyAt
    <3> QED
      BY <2>1, <2>2, <3>3, <3>4, <3>5
  <2>6. CASE answer = "ok"
    <3>1. Holds("images", r, photo)'
      BY <1>2, <2>4, <2>6, CarriedOn
    <3>2. connected["images"]
      BY <1>2 DEF AskedFor, EditHeard
    <3>3. r \in faceEvents'
      BY <1>2, <2>6, <3>2, CallAnnounces
    <3>4. PhotoAt(p, photo)' /\ CopyAt(r, photo)'
      BY <1>4, <2>3, <2>6, <3>1, <3>3 DEF PhotoAt, CopyAt
    <3> QED
      BY <1>4, <2>1, <2>2, <2>6, <3>4
  <2> QED
    BY <2>5, <2>6
<1> QED
  BY <1>5, <1>6, <1>7, <1>8, <1>9, <1>10 DEF AskedFor

LEMMA DeleteServed ==
    ASSUME TypeInv, BlobsInv, AskedFor, NEW q \in calls, NEW answer \in {"none", "ok"},
           CallStep(q, answer), Answered(q, answer), q.caller = Admin, q.op = "delete",
           IF answer = "ok" THEN Moved ELSE UNCHANGED expected
    PROVE  AskedFor'
<1>1. PICK p \in DOMAIN NewPath : p = admin.path
  BY AnsweredEdit, EditedFacts
<1> DEFINE r == NewPath[p]
<1>2. /\ p \in Paths /\ r \in Paths /\ r # p /\ "images" \in Containers
      /\ q.container = "images" /\ q.path = p /\ q \in On("images", p) /\ q.caller \notin Workers
      /\ Renaming /\ admin.pc = "deleting" /\ Edited = {p, r} /\ Moving = {p, r}
  BY <1>1, PipelineAssumption, AnsweredEdit, EditedFacts
  DEF AskedFor, CallsOwned, Owned, On, Containers
<1>3. UNCHANGED <<work, connected, queue>>
  BY <1>2, CallAnnounces DEF Answered
<1>4. /\ answer = "none" => UNCHANGED admin
      /\ answer = "ok" => /\ admin' = NoEdit /\ Edited' = {} /\ Moving' = {} /\ ~Renaming'
  BY AnsweredEdit DEF Moving, Renaming, NoEdit
<1>5. answer = "ok" => /\ \A x \in Paths : x \notin {p, r} => expected'[x] = expected[x]
                       /\ Known(p)' \/ Known(r)' =>
                            Known(p) /\ Known(r) /\ expected'[p] = Nothing /\ expected'[r] = expected[p]
  BY <1>1, <1>2 DEF Moved, Known, TypeInv, TypeOK
<1>6. CallsOwned'
  <2>1. NothingRegained
    BY <1>1, <1>5 DEF NothingRegained, Known
  <2> QED
    BY <2>1, OwnedAfter DEF AskedFor
<1>7. /\ EventsOfUploads'
      /\ \A x \in Paths : x # p => PathStays(x)
      /\ \A x \in Paths : StaysAt("uploads", x)
  BY <1>2, CallFrame DEF AskedFor, Containers
<1>8. ASSUME NEW x \in {p, r}
      PROVE  Known(x) => Quiet(x)'
  <2>1. Known(x) => Quiet(x)
    BY <1>2 DEF AskedFor, PathWell, Coming, ComingFrom
  <2>2. WorkStays(x) /\ (Queued(x)' => Queued(x))
    BY <1>3 DEF WorkStays, Queued
  <2> QED
    BY <1>2, <1>7, <2>1, <2>2, QuietKept
<1>9. ASSUME NEW x \in Paths, x \notin {p, r}
      PROVE  PathWell(x)'
  <2>1. PromiseStays(x)
    BY <1>2, <1>3, <1>4, <1>5, <1>9 DEF PromiseStays, Edited
  <2> QED
    BY <1>7, <1>9, <2>1, PathKept DEF AskedFor
<1>10. ASSUME Known(p), Known(r)
       PROVE  \E photo \in Images :
                 /\ expected[p] = photo /\ admin.found = photo.tags
                 /\ Carries(q, Nothing) /\ Holds("images", r, photo)' /\ r \in faceEvents'
  <2>1. PICK photo \in Images : /\ expected[p] = photo /\ admin.found = photo.tags
                                /\ PhotoAt(p, photo) /\ CopyAt(r, photo)
    BY <1>1, <1>2, <1>10 DEF AskedFor, RenameFrom
  <2>2. Carries(q, Nothing)
    BY <1>2, <2>1 DEF PhotoAt, Carries, On
  <2>3. Holds("images", r, photo)' /\ r \in faceEvents'
    BY <1>2, <1>7, <2>1, StaysFacts DEF CopyAt, PathStays
  <2> QED
    BY <2>1, <2>2, <2>3
<1>11. CASE answer = "none"
  <2>1. UNCHANGED <<admin, expected>> /\ Edited' = Edited /\ Moving' = Moving
    BY <1>4, <1>11 DEF Edited, Moving, Renaming
  <2>2. ASSUME NEW x \in {p, r}
        PROVE  PathWell(x)'
    BY <1>2, <1>8, <2>1 DEF PathWell, Known
  <2>3. EditHeard'
    BY <1>3, <2>1 DEF EditHeard, AskedFor, Known
  <2>4. ASSUME NEW x \in DOMAIN NewPath
        PROVE  RenameFrom(x)'
    <3> SUFFICES ASSUME admin'.path = x, Known(p), Known(r)
                 PROVE  \E photo \in Images :
                            /\ expected'[x] = photo /\ admin'.found = photo.tags
                            /\ PhotoAt(x, photo)' /\ CopyAt(NewPath[x], photo)'
      BY <1>1, <2>1 DEF RenameFrom, Known
    <3>1. x = p
      BY <1>1, <2>1
    <3>2. PICK photo \in Images :
                 /\ expected[p] = photo /\ admin.found = photo.tags
                 /\ Carries(q, Nothing) /\ Holds("images", r, photo)' /\ r \in faceEvents'
      BY <1>10
    <3>3. PICK t \in calls' : Same(q, t) /\ Carries(t, Nothing)'
      BY <1>11, <3>2, CarriedOn
    <3>4. t \in On("images", p)' /\ t.caller = Admin
      BY <1>2, <3>3, OfPlace DEF Same
    <3>5. PhotoAt(p, photo)'
      BY <1>2, <2>1, <3>3, <3>4 DEF PhotoAt
    <3>6. CopyAt(r, photo)'
      BY <1>2, <2>1, <3>2 DEF CopyAt
    <3> QED
      BY <2>1, <3>1, <3>2, <3>5, <3>6
  <2> QED
    BY <1>6, <1>7, <1>9, <2>2, <2>3, <2>4 DEF AskedFor
<1>12. CASE answer = "ok"
  <2>1. Nothing \in Images \cup {Nothing}
    OBVIOUS
  <2>2. ASSUME Known(p)'
        PROVE  Quiet(p)' /\ AsExpected(p)'
    <3>1. Known(p) /\ Known(r) /\ expected'[p] = Nothing
      BY <1>5, <1>12, <2>2
    <3>2. Holds("images", p, Nothing)'
      BY <1>2, <1>10, <1>12, <3>1, CarriedOn
    <3> QED
      BY <1>8, <3>1, <3>2 DEF AsExpected
  <2>3. ASSUME Known(r)'
        PROVE  Quiet(r)' /\ AsExpected(r)'
    <3>1. Known(p) /\ Known(r) /\ expected'[r] = expected[p]
      BY <1>5, <1>12, <2>3
    <3>2. PICK photo \in Images : expected[p] = photo /\ Holds("images", r, photo)' /\ r \in faceEvents'
      BY <1>10, <3>1
    <3> QED
      BY <1>8, <3>1, <3>2 DEF AsExpected
  <2>4. PathWell(p)' /\ PathWell(r)'
    BY <2>2, <2>3 DEF PathWell
  <2>5. EditHeard' /\ \A x \in DOMAIN NewPath : RenameFrom(x)'
    BY <1>4, <1>12 DEF EditHeard, RenameFrom
  <2> QED
    BY <1>6, <1>7, <1>9, <2>4, <2>5 DEF AskedFor
<1> QED
  BY <1>11, <1>12

\* a step of any call
LEMMA ServedAsAsked ==
    ASSUME OneWorker, TypeInv, BlobsInv, AskedFor, NEW q \in calls, Serve(q) \/ ServeFails(q)
    PROVE  AskedFor'
<1>1. q \in Calls /\ q.op \in {"put", "delete"} /\ q.path \in Paths /\ q.caller \in Callers
  BY DEF TypeInv, TypeOK, EmulatorTypeOK, Calls
<1>2. CASE ServeFails(q)
  BY <1>2, CallDisturbed DEF ServeFails, Fault
<1>3. ASSUME NEW answer \in {"none", "ok", "error"}, CallStep(q, answer), Answered(q, answer),
             IF answer = "error" THEN Forget(Touched(q))
             ELSE IF answer = "ok" /\ q.op = "delete" /\ q.caller = Admin THEN Moved
             ELSE UNCHANGED expected
      PROVE  AskedFor'
  <2>1. CASE answer = "error"
    BY <1>3, <2>1, CallDisturbed
  <2>2. CASE answer # "error" /\ q.caller \in Uploads
    <3>1. q.caller # Admin /\ answer \in {"none", "ok"}
      BY <1>3, <2>2, PipelineAssumption
    <3> QED
      BY <1>3, <2>2, <3>1, UploadServed
  <2>3. CASE answer # "error" /\ q.caller \in Workers
    <3>1. q.caller # Admin /\ answer \in {"none", "ok"}
      BY <1>3, <2>3, PipelineAssumption
    <3> QED
      BY <1>3, <2>3, <3>1, ReplicaServed
  <2>4. CASE answer # "error" /\ q.caller = Admin
    <3>1. answer \in {"none", "ok"}
      BY <1>3, <2>4
    <3>2. CASE q.op = "put"
      BY <1>3, <2>4, <3>1, <3>2, CopyServed
    <3>3. CASE q.op = "delete"
      BY <1>3, <2>4, <3>1, <3>3, DeleteServed
    <3> QED
      BY <1>1, <3>2, <3>3
  <2>5. CASE answer # "error" /\ q.caller \in 1..MaxFaults
    <3>1. q.caller # Admin /\ q.caller \notin Uploads \cup Workers /\ q.caller \in Nat
      BY <2>5, PipelineAssumption
    <3>2. ~Known(q.path) /\ UNCHANGED expected
      BY <1>3, <2>5, <3>1 DEF AskedFor, CallsOwned, Owned
    <3>3. Forget(Touched(q))
      <4>1. Touched(q) = {q.path} /\ expected \in [Paths -> Images \cup {Nothing, Unknown}]
        BY <3>1 DEF Touched, TypeInv, TypeOK
      <4> QED
        BY <3>2, <4>1 DEF Forget, Known
    <3> QED
      BY <1>3, <3>3, CallDisturbed
  <2> QED
    BY <1>1, <2>1, <2>2, <2>3, <2>4, <2>5, PipelineAssumption
<1> QED
  BY <1>2, <1>3 DEF Serve

-----------------------------------------------------------------------------
(* What goes wrong around the calls.                                       *)

LEMMA Forgotten ==
    ASSUME NEW ps, Forget(ps)
    PROVE  /\ \A p \in Paths : Known(p)' => p \notin ps /\ Known(p) /\ expected'[p] = expected[p]
           /\ \A p \in ps : p \in Paths => ~Known(p)'
BY DEF Forget, Known

LEMMA RestartAsAsked ==
    ASSUME TypeInv, AskedFor, EmulatorRestarts
    PROVE  AskedFor'
<1>1. \A p \in Paths : Known(p)' =>
        /\ Known(p) /\ expected'[p] = expected[p] /\ connected'["images"]
        /\ \A q \in calls : p \notin Touched(q)
  BY Forgotten DEF EmulatorRestarts, Fault
<1>2. connected'["images"] => \A c \in Containers : connected'[c]
  BY DEF EmulatorRestarts, Restart, Containers
<1>3. calls' = {} /\ UNCHANGED <<files, rows, queue, faceEvents>> /\ mixed' = Spoiled(calls)
  BY DEF EmulatorRestarts, Restart, stored, announced
<1>4. CallsOwned'
  BY <1>3 DEF CallsOwned
<1>5. \A w \in Workers : \/ work'[w] = work[w]
                         \/ work'[w] = Idle /\ \E q \in calls : q.caller = w
  BY DEF EmulatorRestarts
<1>6. EventsOfUploads'
  BY <1>3, <1>5 DEF AskedFor, EventsOfUploads
<1>7. ASSUME NEW p \in Paths, Known(p)'
      PROVE  PathStays(p)
  <2>1. \A q \in calls : q.path # p
    BY <1>1, <1>7 DEF Touched
  <2>2. ASSUME NEW c \in Containers
        PROVE  StaysAt(c, p)
    <3>1. On(c, p) = {} /\ On(c, p)' = {}
      BY <1>3, <2>1 DEF On
    <3>2. mixed'[c][p] = mixed[c][p]
      BY <1>3, <2>1 DEF Spoiled, TypeInv, TypeOK, EmulatorTypeOK
    <3> QED
      BY <1>3, <3>1, <3>2 DEF StaysAt
  <2>3. WorkStays(p)
    BY <1>5, <2>1 DEF WorkStays, WorksOn, AskedFor, CallsOwned, Owned
  <2> QED
    BY <1>3, <2>2, <2>3 DEF PathStays, Queued
<1>8. \/ UNCHANGED admin
      \/ Edited' \subseteq Edited /\ \A p \in Edited : ~Known(p)'
  <2>1. CASE \E q \in calls : q.caller = Admin
    <3>1. Edited' = {}
      BY <2>1 DEF EmulatorRestarts, Edited
    <3>2. \A p \in Edited : ~Known(p)'
      BY <1>1, <2>1, EditedFacts DEF Touched
    <3> QED
      BY <3>1, <3>2
  <2>2. CASE ~ \E q \in calls : q.caller = Admin
    BY <2>2 DEF EmulatorRestarts
  <2> QED
    BY <2>1, <2>2
<1> QED
  BY <1>1, <1>2, <1>4, <1>6, <1>7, <1>8, RestKept

LEMMA BrokerLostAsAsked ==
    ASSUME TypeInv, AskedFor, BrokerIsLost
    PROVE  AskedFor'
<1>1. \A p \in Paths : ~Known(p)'
  BY Forgotten DEF BrokerIsLost, Fault
<1>2. UNCHANGED <<calls, queue, work, admin>>
  BY DEF BrokerIsLost, BrokerDrops, announced
<1>3. CallsOwned'
  <2>1. \A q \in calls : q.path \in Paths
    BY DEF TypeInv, TypeOK, EmulatorTypeOK, Calls
  <2> QED
    BY <1>1, <1>2, <2>1 DEF AskedFor, CallsOwned, Owned, WorksOn
<1>4. EventsOfUploads'
  BY <1>2 DEF AskedFor, EventsOfUploads
<1> QED
  BY <1>1, <1>2, <1>3, <1>4, RestKept

\* a caller goes, and its paths are forgotten
LEMMA AbandonedAsAsked ==
    ASSUME TypeInv, AskedFor, NEW x \in Callers, NEW ps, Fault(ps), calls' = Abandoned(x),
           UNCHANGED <<files, rows, mixed, connected, faceEvents>>,
           \A q \in calls : q.caller = x => q.path \in ps,
           \A w \in Workers : work'[w] = work[w] \/ (w = x /\ work'[w] = Idle /\ work[w].event[2] \in ps),
           \A p \in Paths : p \notin ps => (Queued(p)' <=> Queued(p)),
           OriginalsQueued',
           UNCHANGED admin \/ (x = Admin /\ Edited' = {} /\ Edited \subseteq ps)
    PROVE  AskedFor'
<1>1. \A p \in Paths : Known(p)' => p \notin ps /\ Known(p) /\ expected'[p] = expected[p]
  BY Forgotten DEF Fault
<1>2. \A s \in calls' : \/ s \in calls /\ s.caller # x
                        \/ s.caller = faults /\ \E q \in calls : q.caller = x /\ s.path = q.path
  BY AbandonedStays
<1>3. faults \in Nat /\ faults \notin Uploads \cup Workers \cup {Admin}
  BY FaultType, PipelineAssumption DEF TypeInv, TypeOK
<1>4. \A q \in calls : q.path \in Paths
  BY DEF TypeInv, TypeOK, EmulatorTypeOK, Calls
<1>5. CallsOwned'
  <2>1. ASSUME NEW s \in calls'
        PROVE  Owned(s)'
    <3>1. CASE s \in calls /\ s.caller # x
      <4>1. s.caller \in Workers => work'[s.caller] = work[s.caller]
        BY <3>1
      <4>2. s.caller = Admin => UNCHANGED admin
        BY <3>1
      <4>3. Owned(s)
        BY <3>1 DEF AskedFor, CallsOwned
      <4> QED
        BY <1>1, <1>4, <3>1, <4>1, <4>2, <4>3 DEF Owned, WorksOn
    <3>2. CASE s.caller = faults /\ \E q \in calls : q.caller = x /\ s.path = q.path
      BY <1>1, <1>3, <1>4, <3>2 DEF Owned
    <3> QED
      BY <1>2, <3>1, <3>2
  <2> QED
    BY <1>2, <1>3, <2>1 DEF AskedFor, CallsOwned
<1>6. EventsOfUploads'
  BY DEF AskedFor, EventsOfUploads, OriginalsQueued
<1>7. ASSUME NEW p \in Paths, Known(p)'
      PROVE  PathStays(p)
  <2>1. \A c \in Containers : StaysAt(c, p)
    BY <1>1, <1>7, AbandonedStays DEF On
  <2>2. WorkStays(p)
    BY <1>1, <1>7 DEF WorkStays, WorksOn
  <2> QED
    BY <1>1, <1>7, <2>1, <2>2 DEF PathStays
<1>8. \/ UNCHANGED admin
      \/ Edited' \subseteq Edited /\ \A p \in Edited : ~Known(p)'
  BY <1>1, EditedFacts
<1> QED
  BY <1>1, <1>5, <1>6, <1>7, <1>8, RestKept

LEMMA CutOffAsAsked ==
    ASSUME TypeInv, AskedFor,
           (\E u \in Uploads : UploadCutOff(u)) \/ (\E w \in Workers : WorkerDies(w)) \/ EditCutOff
    PROVE  AskedFor'
<1>1. OriginalsQueued
  BY DEF AskedFor, EventsOfUploads, OriginalsQueued
<1>2. \A q \in calls : Owned(q)
  BY DEF AskedFor, CallsOwned
<1>3. ASSUME NEW u \in Uploads, UploadCutOff(u)
      PROVE  AskedFor'
  <2>1. /\ u \in Callers /\ Fault({PathOf[u]}) /\ calls' = Abandoned(u)
        /\ UNCHANGED <<files, rows, mixed, connected, faceEvents, queue, work, admin>>
    BY <1>3, PipelineAssumption DEF UploadCutOff, stored, announced
  <2>2. \A q \in calls : q.caller = u => q.path \in {PathOf[u]}
    BY <1>2 DEF Owned
  <2>3. OriginalsQueued' /\ \A p : Queued(p)' <=> Queued(p)
    BY <1>1, <2>1 DEF OriginalsQueued, Queued
  <2> QED
    BY <2>1, <2>2, <2>3, AbandonedAsAsked
<1>4. ASSUME NEW w \in Workers, WorkerDies(w)
      PROVE  AskedFor'
  <2> DEFINE e == work[w].event
  <2>1. /\ w \in Callers /\ Fault({e[2]}) /\ calls' = Abandoned(w) /\ queue' = <<e>> \o queue
        /\ UNCHANGED <<files, rows, mixed, connected, faceEvents, admin>>
        /\ work[w] # Idle
    BY <1>4, PipelineAssumption DEF WorkerDies, stored
  <2>2. \A v \in Workers : work'[v] = work[v] \/ (v = w /\ work'[v] = Idle /\ work[v].event[2] \in {e[2]})
    BY <1>4 DEF WorkerDies, Acknowledge, TypeInv, TypeOK
  <2>3. \A q \in calls : q.caller = w => q.path \in {e[2]}
    BY <1>2 DEF Owned, WorksOn
  <2>4. e[1] = "uploads"
    BY <2>1 DEF AskedFor, EventsOfUploads
  <2>5. OriginalsQueued' /\ \A p : p # e[2] => (Queued(p)' <=> Queued(p))
    BY <1>1, <2>1, <2>4, Prepended DEF TypeInv, TypeOK, EmulatorTypeOK
  <2> QED
    BY <2>1, <2>2, <2>3, <2>5, AbandonedAsAsked
<1>5. CASE EditCutOff
  <2>1. /\ Admin \in Callers /\ Fault(Edited) /\ calls' = Abandoned(Admin)
        /\ UNCHANGED <<files, rows, mixed, connected, faceEvents, queue, work>>
        /\ admin # NoEdit /\ Edited' = {}
    BY <1>5, PipelineAssumption DEF EditCutOff, stored, announced, EditEnds, Edited
  <2>2. ASSUME NEW q \in calls, q.caller = Admin
        PROVE  q.path \in Edited
    <3>1. Renaming /\ q.path = IF q.op = "put" THEN NewPath[admin.path] ELSE admin.path
      BY <1>2, <2>2 DEF Owned, TypeInv, EditsCall, Renaming
    <3> QED
      BY <3>1, EditedFacts
  <2>3. OriginalsQueued' /\ \A p : Queued(p)' <=> Queued(p)
    BY <1>1, <2>1 DEF OriginalsQueued, Queued
  <2> QED
    BY <2>1, <2>2, <2>3, AbandonedAsAsked
<1> QED
  BY <1>3, <1>4, <1>5

-----------------------------------------------------------------------------
(* An upload begins.                                                       *)

LEMMA UploadAsAsked ==
    ASSUME TypeInv, AskedFor, NEW u \in Uploads, Upload(u)
    PROVE  AskedFor'
<1> DEFINE p0 == PathOf[u]
           r  == Put(u, "uploads", p0, u, <<u, FALSE>>, u)
           undisturbed == /\ \A c \in Containers : connected[c]
                          /\ p0 \notin Edited
                          /\ \A q \in calls : q.path = p0 => q.caller \in Workers
<1>1. UNCHANGED <<files, rows, connected, queue, faceEvents, work, admin>>
  BY DEF Upload, stored, announced
<1>2. CASE Quality[u] = "refused"
  <2>1. UNCHANGED <<calls, mixed, expected>>
    BY <1>2 DEF Upload
  <2>2. CallsOwned' /\ EventsOfUploads'
    BY <1>1, <2>1 DEF AskedFor, CallsOwned, Owned, WorksOn, Known, EventsOfUploads
  <2>3. \A p : PathStays(p)
    BY <1>1, <2>1, UnchangedStays DEF PathStays, WorkStays, Queued
  <2> QED
    BY <1>1, <2>1, <2>2, <2>3, RestKept
<1>3. CASE Quality[u] # "refused"
  <2>1. /\ p0 \in Paths /\ u \in Callers /\ u \notin Workers /\ u # Admin /\ u \notin Nat
        /\ Quality[u] \in {"good", "broken"}
    BY <1>3, PipelineAssumption
  <2>2. /\ r \in Calls /\ r.caller = u /\ r.op = "put" /\ r.container = "uploads" /\ r.path = p0
        /\ r.step = 1 /\ Outcome(r) = ImageOf(u)
    <3>1. u \in Contents \cup {Nothing} /\ <<u, FALSE>> \in Tags \cup {Nothing}
          /\ u \in Uploads \cup {Nothing} /\ "uploads" \in Containers
      BY ImageOfType DEF Contents, Containers
    <3>2. r \in Calls
      BY <2>1, <3>1, PutCall
    <3>3. /\ r.caller = u /\ r.op = "put" /\ r.step = 1 /\ r.bytes = u
          /\ r.container = "uploads" /\ r.path = p0 /\ r.tags = <<u, FALSE>> /\ r.metadata = u
      BY DEF Put
    <3> HIDE DEF r
    <3> QED
      BY <3>2, <3>3 DEF Outcome, ImageOf
  <2>3. /\ Begin(r)
        /\ \A p \in Paths : p # p0 => expected'[p] = expected[p]
        /\ expected'[p0] = AfterUpload(u)
    BY <1>3, <2>1 DEF Upload, TypeInv, TypeOK
  <2>4. AfterUpload(u) = IF Quality[u] = "broken" THEN (IF Busy(p0) THEN Unknown ELSE expected[p0])
                         ELSE IF undisturbed THEN ImageOf(u) ELSE Unknown
    BY DEF AfterUpload
  <2> HIDE DEF r
  <2>5. calls' = calls \cup {r}
    BY <2>3 DEF Begin
  <2>6. /\ On("uploads", p0) = {} => Arriving(p0, u)'
        /\ \A c \in Containers, p \in Paths : <<c, p>> # <<"uploads", p0>> => StaysAt(c, p)
    <3>1. /\ On("uploads", p0) = {} => Carries(r, ImageOf(u))' /\ r \in calls'
          /\ \A c \in Containers, p \in Paths : <<c, p>> # <<"uploads", p0>> => StaysAt(c, p)
      BY <1>1, <2>2, <2>3, BeginHere
    <3> QED
      BY <2>2, <3>1 DEF Arriving, On
  <2>7. \A p \in Paths : /\ Known(p)' => Known(p) \/ (p = p0 /\ Quality[u] = "good" /\ undisturbed)
                         /\ Known(p)' /\ p \in Edited => expected'[p] = expected[p]
    BY <2>1, <2>3, <2>4 DEF Known
  <2>8. CallsOwned'
    <3>1. ASSUME NEW q \in calls
          PROVE  Owned(q)'
      <4>1. Owned(q) /\ q.path \in Paths
        BY DEF AskedFor, CallsOwned, TypeInv, TypeOK, EmulatorTypeOK, Calls
      <4>2. q.caller \in Nat => ~Known(q.path)'
        BY <2>7, <4>1, PipelineAssumption DEF Owned
      <4> QED
        BY <1>1, <4>1, <4>2 DEF Owned, WorksOn
    <3>2. Owned(r)'
      BY <2>1, <2>2 DEF Owned
    <3>3. \A q, s \in calls' : q.caller \in Workers /\ s.caller = q.caller => q \in calls /\ s \in calls
      BY <2>1, <2>2, <2>5
    <3> QED
      BY <2>5, <3>1, <3>2, <3>3 DEF AskedFor, CallsOwned
  <2>9. EventsOfUploads'
    BY <1>1 DEF AskedFor, EventsOfUploads
  <2>10. \A p \in Paths : StaysAt("images", p) /\ WorkStays(p) /\ (Queued(p)' <=> Queued(p))
    BY <1>1, <2>6 DEF WorkStays, Queued, Containers
  <2>11. /\ \A p \in DOMAIN NewPath : RenameFrom(p)'
         /\ EditHeard' /\ Edited' = Edited /\ Moving' = Moving
    <3>1. Edited \subseteq Paths
      BY EditedFacts
    <3> QED
      BY <1>1, <2>7, <2>10, <3>1, EditKept
  <2>12. ASSUME NEW p \in Paths, p # p0
         PROVE  PathWell(p)'
    <3>1. PathStays(p) /\ PromiseStays(p)
      BY <1>1, <2>3, <2>6, <2>10, <2>11, <2>12 DEF PathStays, PromiseStays
    <3> QED
      BY <3>1, PathKept DEF AskedFor
  <2>13. CASE Quality[u] = "good" /\ undisturbed
    <3>1. \A q \in On("uploads", p0) : q.caller \in Workers /\ q.container = "uploads" /\ Owned(q)
      BY <2>13 DEF On, AskedFor, CallsOwned
    <3>2. On("uploads", p0) = {}
      BY <3>1 DEF Owned
    <3>3. ComingFrom(p0, u)'
      BY <1>1, <2>3, <2>4, <2>6, <2>11, <2>13, <3>2 DEF ComingFrom
    <3>4. PathWell(p0)'
      BY <3>3 DEF PathWell, Coming
    <3> QED
      BY <2>8, <2>9, <2>11, <2>12, <3>4 DEF AskedFor
  <2>14. CASE Quality[u] = "broken" /\ ~Busy(p0) /\ Known(p0)
    <3>1. Unannounced(p0) /\ On("uploads", p0) = {}
      BY <2>14 DEF Busy, Unannounced, Queued, WorksOn, On
    <3>2. ~Coming(p0)
      BY <3>1 DEF Coming, ComingFrom, Arriving, Unannounced, Resizing
    <3>3. p0 \in Moving \/ AsExpected(p0)
      BY <2>1, <2>14, <3>2 DEF AskedFor, PathWell
    <3>4. AsExpected(p0) => AsExpected(p0)'
      BY <1>1, <2>1, <2>3, <2>4, <2>10, <2>14, AsExpectedKept
    <3>5. Unannounced(p0)' /\ Arriving(p0, u)'
      BY <1>1, <2>6, <3>1 DEF Unannounced, Queued, WorksOn
    <3>6. PathWell(p0)'
      BY <2>11, <2>14, <3>3, <3>4, <3>5 DEF PathWell, Quiet
    <3> QED
      BY <2>8, <2>9, <2>11, <2>12, <3>6 DEF AskedFor
  <2>15. CASE ~Known(p0)'
    <3>1. PathWell(p0)'
      BY <2>15 DEF PathWell
    <3> QED
      BY <2>8, <2>9, <2>11, <2>12, <3>1 DEF AskedFor
  <2> QED
    BY <2>1, <2>3, <2>4, <2>13, <2>14, <2>15 DEF Known
<1> QED
  BY <1>2, <1>3

-----------------------------------------------------------------------------
(* The replica.                                                            *)

\* it takes an event, reads, or is done with its event
LEMMA ReplicaKept ==
    ASSUME OneWorker, TypeInv, AskedFor, NEW w \in Workers, NEW p0 \in Paths,
           UNCHANGED <<files, rows, calls, mixed, connected, faceEvents, admin, expected>>,
           \A q \in calls : q.caller # w,
           work[w] = Idle \/ work[w].event[2] = p0,
           work'[w] = Idle \/ (work'[w].event[1] = "uploads" /\ work'[w].event[2] = p0),
           OriginalsQueued', \A p : p # p0 => (Queued(p)' <=> Queued(p)),
           Known(p0) /\ Coming(p0) => Coming(p0)',
           Known(p0) /\ Quiet(p0) => Quiet(p0)'
    PROVE  AskedFor'
<1>1. CallsOwned'
  BY DEF AskedFor, CallsOwned, Owned, Known, OneWorker
<1>2. EventsOfUploads'
  BY DEF EventsOfUploads, OriginalsQueued, OneWorker
<1>3. /\ \A p \in DOMAIN NewPath : RenameFrom(p)'
      /\ EditHeard' /\ Edited' = Edited /\ Moving' = Moving
  <2>1. \A p : StaysAt("images", p)
    BY UnchangedStays
  <2> QED
    BY <2>1, EditKept
<1>4. ASSUME NEW p \in Paths, p # p0
      PROVE  PathWell(p)'
  <2>1. PathStays(p)
    BY <1>4, UnchangedStays DEF PathStays, WorkStays, WorksOn, OneWorker
  <2>2. PromiseStays(p)
    BY <1>3 DEF PromiseStays
  <2> QED
    BY <2>1, <2>2, PathKept DEF AskedFor
<1>5. PathWell(p0)'
  <2>1. AsExpected(p0) => AsExpected(p0)'
    BY UnchangedStays, AsExpectedKept
  <2>2. PathWell(p0)
    BY DEF AskedFor
  <2> QED
    BY <1>3, <2>1, <2>2 DEF PathWell, Known
<1> QED
  BY <1>1, <1>2, <1>3, <1>4, <1>5 DEF AskedFor

LEMMA TakeAsAsked ==
    ASSUME OneWorker, TypeInv, AskedFor, NEW w \in Workers, Take(w),
           UNCHANGED <<files, rows, calls, mixed, connected, faceEvents, admin, expected>>
    PROVE  AskedFor'
<1>0. PICK p0 : p0 = Head(queue)[2]
  OBVIOUS
<1>1. /\ work[w] = Idle /\ queue # << >> /\ queue' = Tail(queue)
      /\ work' = [work EXCEPT ![w].pc = "bytes", ![w].event = Head(queue)]
      /\ work \in [Workers -> Jobs \cup {Idle}]
      /\ queue \in Seq(Containers \X Paths)
  BY DEF Take, TypeInv, TypeOK, EmulatorTypeOK
<1>2. /\ \A p : Queued(p) <=> Queued(p)' \/ p0 = p
      /\ OriginalsQueued' /\ Head(queue)[1] = "uploads" /\ p0 \in Paths
  BY <1>0, <1>1, Taken DEF AskedFor, EventsOfUploads, OriginalsQueued
<1>3. work'[w].pc = "bytes" /\ work'[w].event = Head(queue)
  BY <1>1 DEF Idle
<1>4. \A q \in calls : q.caller # w
  BY <1>1 DEF AskedFor, CallsOwned, Owned, WorksOn
<1>5. /\ work'[w] # Idle /\ WorksOn(w, p0)'
  BY <1>0, <1>3 DEF Idle, WorksOn
<1>6. StaysAt("uploads", p0)
  BY UnchangedStays
<1>7. ASSUME NEW u \in Uploads, ComingFrom(p0, u)
      PROVE  ComingFrom(p0, u)'
  <2>1. Edited' = Edited
    BY DEF Edited
  <2>2. Arriving(p0, u) => Arriving(p0, u)'
    BY <1>2, <1>6, StaysFacts DEF Arriving, StaysAt, Containers
  <2>3. Holds("uploads", p0, ImageOf(u)) => Holds("uploads", p0, ImageOf(u))'
    BY <1>2, <1>6, StaysFacts DEF Containers
  <2>4. Resizing(w, p0, u)'
    BY <1>3, <1>5 DEF Resizing, HasRead
  <2> QED
    BY <1>7, <2>1, <2>2, <2>3, <2>4 DEF ComingFrom
<1>8. ASSUME Quiet(p0)
      PROVE  Quiet(p0)'
  <2>1. PICK u \in Uploads : Quality[u] = "broken" /\ Hopeless(p0, u)
    BY <1>2, <1>8 DEF Quiet, Unannounced
  <2>2. Holds("uploads", p0, ImageOf(u))'
    BY <1>2, <1>6, <2>1, StaysFacts DEF Hopeless, Containers
  <2>3. Hopeless(p0, u)'
    BY <1>3, <2>2 DEF Hopeless, OneWorker
  <2> QED
    BY <2>1, <2>3 DEF Quiet
<1> QED
  BY <1>0, <1>1, <1>2, <1>3, <1>4, <1>7, <1>8, ReplicaKept DEF Coming

\* what is left of an event: the replica reads on, if it has found what it
\* is to find, or is done
LEMMA ReadOn ==
    ASSUME OneWorker, TypeInv, AskedFor, NEW w \in Workers, NEW p0 \in Paths,
           work[w] # Idle, work[w].event[2] = p0, work[w].pc # "saving",
           UNCHANGED <<files, rows, calls, mixed, connected, queue, faceEvents, admin, expected>>,
           \/ work'[w] = Idle
           \/ work'[w].event = work[w].event /\ work'[w].pc # "saving",
           \A u \in Uploads :
             Holds("uploads", p0, ImageOf(u)) =>
               /\ Quality[u] = "good" /\ HasRead(w, u) => work'[w] # Idle /\ HasRead(w, u)'
               /\ (work[w].pc # "bytes" => work[w].bytes = u) =>
                    (work'[w] # Idle /\ work'[w].pc # "bytes" => work'[w].bytes = u)
    PROVE  AskedFor'
<1>1. \A q \in calls : q.caller # w
  BY DEF AskedFor, CallsOwned, Owned
<1>2. work[w].event[1] = "uploads" /\ OriginalsQueued' /\ \A p : Queued(p)' <=> Queued(p)
  BY DEF AskedFor, EventsOfUploads, OriginalsQueued, Queued
<1>3. StaysAt("uploads", p0) /\ WorksOn(w, p0)
  BY UnchangedStays DEF WorksOn
<1>4. \A u : /\ Holds("uploads", p0, ImageOf(u)) => Holds("uploads", p0, ImageOf(u))'
             /\ Arriving(p0, u) => Arriving(p0, u)'
  BY <1>3, StaysFacts DEF Arriving, StaysAt, Containers
<1>5. ASSUME NEW u \in Uploads, ComingFrom(p0, u)
      PROVE  ComingFrom(p0, u)'
  <2>1. Edited' = Edited
    BY DEF Edited
  <2>2. Holds("uploads", p0, ImageOf(u)) /\ Resizing(w, p0, u) => Resizing(w, p0, u)'
    BY <1>5 DEF ComingFrom, Resizing, WorksOn
  <2> QED
    BY <1>2, <1>4, <1>5, <2>1, <2>2 DEF ComingFrom, OneWorker
<1>6. ASSUME Quiet(p0)
      PROVE  Quiet(p0)'
  <2>1. PICK u \in Uploads : Quality[u] = "broken" /\ Hopeless(p0, u)
    BY <1>3, <1>6 DEF Quiet, Unannounced
  <2>2. Hopeless(p0, u)'
    BY <1>3, <1>4, <2>1 DEF Hopeless, OneWorker, WorksOn
  <2> QED
    BY <2>1, <2>2 DEF Quiet
<1> QED
  BY <1>1, <1>2, <1>5, <1>6, ReplicaKept DEF Coming

LEMMA ImageIsBlob == Nothing \notin Images
<1>1. Images \subseteq Promises!Wholes
  BY DEF Images, Promises!Wholes, Contents
<1> QED
  BY <1>1, OneReplicaAssumption

\* an original that is there can be read
LEMMA OriginalHere ==
    ASSUME TypeInv, NEW p \in Paths, NEW u \in Uploads, Holds("uploads", p, ImageOf(u))
    PROVE  /\ Blob("uploads", p).bytes = u /\ Blob("uploads", p).tags = <<u, FALSE>>
           /\ Blob("uploads", p).metadata = u
           /\ Blob("uploads", p) # Nothing /\ Readable("uploads", p)
<1>1. Blob("uploads", p) = ImageOf(u) /\ "uploads" \in Containers
  BY DEF Holds, Containers
<1>2. ImageOf(u) # Nothing /\ u # Nothing
  BY ImageOfType, ImageIsBlob, EmulatorAssumption DEF Contents
<1>3. rows["uploads"][p] # Nothing
  BY <1>1, <1>2 DEF Blob
<1>4. files["uploads"][p] = u
  BY <1>1, <1>3 DEF Blob, ImageOf
<1>5. ImageOf(u).bytes = u /\ ImageOf(u).tags = <<u, FALSE>> /\ ImageOf(u).metadata = u
  BY DEF ImageOf
<1> QED
  BY <1>1, <1>2, <1>3, <1>4, <1>5 DEF Readable

\* the three reads
LEMMA ReadsAsAsked ==
    ASSUME OneWorker, TypeInv, AskedFor, NEW w \in Workers,
           UNCHANGED <<files, rows, calls, mixed, connected, queue, faceEvents, admin, expected>>,
           GetBlob(w) \/ GetBlobTags(w) \/ GetBlobMetadata(w)
    PROVE  AskedFor'
<1>1. PICK part \in {"bytes", "tags", "metadata"}, next \in {"tags", "metadata", "resize"} :
        /\ Reads(w, part, next)
        /\ part = "bytes" <=> next = "tags"
        /\ part = "tags" <=> next = "metadata"
        /\ part = "metadata" <=> next = "resize"
  BY DEF GetBlob, GetBlobTags, GetBlobMetadata
<1>2. PICK p0 \in Paths : p0 = work[w].event[2]
  BY <1>1, JobFacts DEF Reads, Idle
<1>3. work[w].pc = part /\ work[w] # Idle /\ work[w] \in Jobs /\ work \in [Workers -> Jobs \cup {Idle}]
  BY <1>1, JobFacts DEF Reads, Idle, TypeInv, TypeOK
<1>4. work[w].event[1] = "uploads" /\ Original(w) = Blob("uploads", p0)
  BY <1>2, <1>3 DEF AskedFor, EventsOfUploads, Original
<1>5. work'[w] = IF Original(w) # Nothing /\ (part = "bytes" => Readable("uploads", p0))
                 THEN [work[w] EXCEPT !.pc = next, ![part] = Original(w)[part]] ELSE Idle
  BY <1>1, <1>2, <1>3, <1>4 DEF Reads, Acknowledge
<1>6. ASSUME work'[w] # Idle
      PROVE  /\ work'[w].event = work[w].event /\ work'[w].pc = next
             /\ part = "bytes" => work'[w].bytes = Original(w).bytes
             /\ part # "bytes" => work'[w].bytes = work[w].bytes
             /\ part = "tags" => work'[w].tags = Original(w).tags
             /\ part # "tags" => work'[w].tags = work[w].tags
             /\ part = "metadata" => work'[w].metadata = Original(w).metadata
  <2>1. work'[w] = [work[w] EXCEPT !.pc = next, ![part] = Original(w)[part]]
    BY <1>5, <1>6
  <2>2. CASE part = "bytes"
    BY <1>3, <2>1, <2>2 DEF Jobs
  <2>3. CASE part = "tags"
    BY <1>3, <2>1, <2>3 DEF Jobs
  <2>4. CASE part = "metadata"
    BY <1>3, <2>1, <2>4 DEF Jobs
  <2> QED
    BY <2>2, <2>3, <2>4
<1>7. ASSUME NEW u \in Uploads, Holds("uploads", p0, ImageOf(u))
      PROVE  /\ HasRead(w, u) => work'[w] # Idle /\ HasRead(w, u)'
             /\ (work[w].pc # "bytes" => work[w].bytes = u) =>
                  (work'[w] # Idle /\ work'[w].pc # "bytes" => work'[w].bytes = u)
  <2>1. /\ Original(w) # Nothing /\ Readable("uploads", p0)
        /\ Original(w).bytes = u /\ Original(w).tags = <<u, FALSE>> /\ Original(w).metadata = u
    BY <1>4, <1>7, OriginalHere
  <2>2. work'[w].pc = next
    <3>1. work'[w] = [work[w] EXCEPT !.pc = next, ![part] = Original(w)[part]]
      BY <1>5, <2>1
    <3> QED
      BY <1>3, <3>1 DEF Jobs
  <2>3. work'[w] # Idle
    BY <2>2 DEF Idle
  <2> QED
    BY <1>1, <1>3, <1>6, <2>1, <2>2, <2>3 DEF HasRead
<1> QED
  BY <1>1, <1>2, <1>3, <1>5, <1>6, <1>7, ReadOn

\* what it has resized is saved
LEMMA SaveAsAsked ==
    ASSUME OneWorker, TypeInv, AskedFor, NEW w \in Workers, SaveImage(w),
           UNCHANGED <<files, rows, connected, faceEvents, admin, expected>>
    PROVE  AskedFor'
<1>1. PICK p0 \in Paths : p0 = work[w].event[2]
  BY JobFacts DEF SaveImage, Idle
<1>2. /\ work[w].pc = "resize" /\ work[w] # Idle /\ WorksOn(w, p0) /\ work \in [Workers -> Jobs \cup {Idle}]
      /\ work[w] \in Jobs /\ UNCHANGED queue /\ work[w].event[1] = "uploads"
  BY <1>1, JobFacts DEF SaveImage, Idle, WorksOn, TypeInv, TypeOK, AskedFor, EventsOfUploads
<1>3. \A q \in calls : q.caller # w
  BY <1>2 DEF AskedFor, CallsOwned, Owned
<1>4. CASE ~Resizable(work[w].bytes)
  <2>1. work'[w] = Idle /\ UNCHANGED <<calls, mixed>>
    BY <1>2, <1>4 DEF SaveImage, Acknowledge
  <2>2. \A u \in Uploads : HasRead(w, u) => Quality[u] # "good"
    BY <1>2, <1>4 DEF HasRead, Resizable
  <2> QED
    BY <1>1, <1>2, <2>1, <2>2, ReadOn
<1>5. CASE Resizable(work[w].bytes)
  <2> DEFINE r == Put(w, "images", p0, work[w].bytes, work[w].tags, work[w].metadata)
  <2>1. PICK t : t = r
    OBVIOUS
  <2>2. Begin(t) /\ work' = [work EXCEPT ![w].pc = "saving"]
    BY <1>1, <1>5, <2>1 DEF SaveImage
  <2>3. t \in Calls
    <3>1. /\ w \in Callers /\ "images" \in Containers
          /\ work[w].bytes \in Contents \cup {Nothing} /\ work[w].tags \in Tags \cup {Nothing}
          /\ work[w].metadata \in Uploads \cup {Nothing}
      BY <1>2, JobFacts, PipelineAssumption DEF Containers
    <3>2. PICK bytes, tags, metadata : bytes = work[w].bytes /\ tags = work[w].tags /\ metadata = work[w].metadata
      OBVIOUS
    <3> QED
      BY <2>1, <3>1, <3>2, PutCall
  <2>4. /\ t.caller = w /\ t.op = "put" /\ t.step = 1 /\ t.bytes = work[w].bytes
        /\ t.container = "images" /\ t.path = p0 /\ t.tags = work[w].tags /\ t.metadata = work[w].metadata
    BY <2>1 DEF Put
  <2> HIDE DEF r
  <2>5. calls' = calls \cup {t}
    BY <2>2 DEF Begin
  <2>6. /\ On("images", p0) = {} => Carries(t, Outcome(t))' /\ t \in On("images", p0)'
        /\ \A c \in Containers, p \in Paths : <<c, p>> # <<"images", p0>> => StaysAt(c, p)
    BY <2>2, <2>3, <2>4, <2>5, BeginHere DEF On
  <2>7. work'[w].pc = "saving" /\ work'[w].event = work[w].event /\ work'[w] # Idle /\ WorksOn(w, p0)'
        /\ \A u : HasRead(w, u) => HasRead(w, u)'
    <3>1. work'[w] = [work[w] EXCEPT !.pc = "saving"]
      BY <1>2, <2>2
    <3>2. /\ work'[w].pc = "saving" /\ work'[w].event = work[w].event /\ work'[w].bytes = work[w].bytes
          /\ work'[w].tags = work[w].tags /\ work'[w].metadata = work[w].metadata
      BY <1>2, <3>1 DEF Jobs
    <3>3. work'[w] # Idle
      BY <3>2 DEF Idle
    <3>4. \A u : HasRead(w, u) => HasRead(w, u)'
      BY <1>2, <3>2 DEF HasRead
    <3> QED
      BY <1>1, <3>2, <3>3, <3>4 DEF WorksOn
  <2>8. CallsOwned'
    <3>1. w \notin Uploads /\ w # Admin /\ w \notin Nat
      BY PipelineAssumption
    <3>2. Owned(t)'
      BY <2>4, <2>7, <3>1 DEF Owned
    <3>3. \A q \in calls : Owned(q)'
      BY <1>3 DEF AskedFor, CallsOwned, Owned, Known, OneWorker
    <3> QED
      BY <1>3, <2>5, <3>2, <3>3 DEF CallsOwned, OneWorker
  <2>9. EventsOfUploads'
    BY <1>2, <2>7 DEF AskedFor, EventsOfUploads, OneWorker
  <2>10. \A p \in Paths : StaysAt("uploads", p) /\ (Queued(p)' <=> Queued(p))
    BY <1>2, <2>6 DEF Queued, Containers
  <2>11. Known(p0) => \E u \in Uploads : ComingFrom(p0, u)
    BY <1>2, <1>5 DEF AskedFor, PathWell, Coming, Quiet, Hopeless, Unannounced, Resizable
  <2>12. /\ \A p \in DOMAIN NewPath : RenameFrom(p)'
         /\ EditHeard' /\ Edited' = Edited /\ Moving' = Moving
    <3>1. \A p \in Edited : Known(p)' => p # p0
      BY <2>11 DEF ComingFrom, Known
    <3>2. Edited \subseteq Paths
      BY EditedFacts
    <3> QED
      BY <2>6, <3>1, <3>2, EditKept DEF Containers
  <2>13. ASSUME NEW p \in Paths, p # p0
         PROVE  PathWell(p)'
    <3>1. PathStays(p)
      BY <1>1, <1>2, <2>6, <2>7, <2>10, <2>13 DEF PathStays, WorkStays, WorksOn, OneWorker
    <3>2. PromiseStays(p)
      BY <2>12 DEF PromiseStays
    <3> QED
      BY <3>1, <3>2, PathKept DEF AskedFor
  <2>14. ASSUME Known(p0), NEW u \in Uploads, ComingFrom(p0, u)
         PROVE  PathWell(p0)'
    <3>1. Arriving(p0, u) => Arriving(p0, u)'
      BY <2>10, StaysFacts DEF Arriving, StaysAt, Containers
    <3>2. Holds("uploads", p0, ImageOf(u)) => Holds("uploads", p0, ImageOf(u))'
      BY <2>10, StaysFacts DEF Containers
    <3>3. On("images", p0) = {}
      <4>1. ASSUME NEW q \in On("images", p0)
            PROVE  FALSE
        <5>1. q \in calls /\ q.container = "images" /\ q.path = p0 /\ Owned(q) /\ q.caller \in Callers
          BY DEF On, AskedFor, CallsOwned, TypeInv, TypeOK, EmulatorTypeOK, Calls
        <5>2. CASE q.caller = Admin
          <6>1. Renaming /\ q.path = IF q.op = "put" THEN NewPath[admin.path] ELSE admin.path
            BY <5>1, <5>2 DEF Owned, TypeInv, EditsCall, Renaming
          <6>2. p0 \in Edited
            BY <5>1, <6>1, EditedFacts
          <6> QED
            BY <2>14, <6>2 DEF ComingFrom
        <5>3. CASE q.caller \in 1..MaxFaults
          <6>1. ~Known(p0)
            BY <5>1, <5>3, PipelineAssumption DEF Owned
          <6> QED
            BY <2>14, <6>1
        <5> QED
          BY <1>3, <5>1, <5>2, <5>3, PipelineAssumption DEF Owned, OneWorker
      <4> QED
        BY <4>1
    <3>4. HasRead(w, u) => Outcome(t) = ImageOf(u)
      BY <1>2, <2>4 DEF HasRead, Outcome, ImageOf
    <3>5. Resizing(w, p0, u) => Resizing(w, p0, u)'
      BY <2>4, <2>6, <2>7, <3>3, <3>4 DEF Resizing
    <3>6. ComingFrom(p0, u)'
      BY <2>10, <2>12, <2>14, <3>1, <3>2, <3>5 DEF ComingFrom, OneWorker
    <3> QED
      BY <3>6 DEF PathWell, Coming
  <2> QED
    BY <2>8, <2>9, <2>11, <2>12, <2>13, <2>14 DEF AskedFor, PathWell, Known
<1> QED
  BY <1>4, <1>5

\* a read fails
LEMMA ResizeFailsAsAsked ==
    ASSUME TypeInv, AskedFor, NEW w \in Workers, ResizeFails(w)
    PROVE  AskedFor'
<1>1. /\ work[w].pc \in {"bytes", "tags", "metadata"} /\ Forget({work[w].event[2]})
      /\ work \in [Workers -> Jobs \cup {Idle}]
      /\ UNCHANGED <<files, rows, calls, mixed, connected, queue, faceEvents, admin>>
  BY DEF ResizeFails, Fault, emulator, TypeInv, TypeOK
<1>7. PICK job : work' = [work EXCEPT ![w] = job] /\ (job # Idle => job.event = work[w].event)
  BY FailedRead
<1>2. \A v \in Workers :
         work'[v] = work[v] \/ (v = w /\ (work'[v] # Idle => work'[v].event = work[v].event))
  BY <1>1, <1>7
<1>8. work[w] # Idle
  BY FailedRead
<1>3. \A p \in Paths : Known(p)' => p # work[w].event[2] /\ Known(p) /\ expected'[p] = expected[p]
  BY <1>1, Forgotten
<1>4. CallsOwned'
  <2>1. \A q \in calls : Owned(q) /\ q.caller # w /\ q.path \in Paths
    BY <1>1 DEF AskedFor, CallsOwned, Owned, TypeInv, TypeOK, EmulatorTypeOK, Calls
  <2>2. \A q \in calls : Owned(q)'
    BY <1>1, <1>2, <1>3, <2>1 DEF Owned, WorksOn
  <2> QED
    BY <1>1, <2>2 DEF AskedFor, CallsOwned
<1>5. EventsOfUploads'
  BY <1>1, <1>2, <1>8 DEF AskedFor, EventsOfUploads
<1>6. \A p \in Paths : Known(p)' => PathStays(p)
  BY <1>1, <1>2, <1>3, UnchangedStays DEF PathStays, WorkStays, WorksOn, Queued
<1> QED
  BY <1>1, <1>3, <1>4, <1>5, <1>6, RestKept

LEMMA ResizeAsAsked ==
    ASSUME OneWorker, TypeInv, AskedFor, NEW w \in Workers, Resize(w) \/ ResizeFails(w)
    PROVE  AskedFor'
<1>1. CASE Resize(w)
  <2>1. UNCHANGED <<files, rows, connected, faceEvents, admin, expected>>
    BY <1>1 DEF Resize, stored
  <2>2. CASE Take(w) /\ UNCHANGED <<calls, mixed>>
    BY <2>1, <2>2, TakeAsAsked
  <2>3. CASE GetBlob(w) \/ GetBlobTags(w) \/ GetBlobMetadata(w)
    <3>1. UNCHANGED <<calls, queue, mixed>>
      BY <2>3 DEF GetBlob, GetBlobTags, GetBlobMetadata, Reads
    <3> QED
      BY <2>1, <2>3, <3>1, ReadsAsAsked
  <2>4. CASE SaveImage(w)
    BY <2>1, <2>4, SaveAsAsked
  <2> QED
    BY <1>1, <2>2, <2>3, <2>4 DEF Resize
<1>2. CASE ResizeFails(w)
  BY <1>2, ResizeFailsAsAsked
<1> QED
  BY <1>1, <1>2

-----------------------------------------------------------------------------
(* Edits.                                                                  *)

\* something is on its way to a path only if it is busy
LEMMA NotBusy ==
    ASSUME NEW p, ~Busy(p)
    PROVE  Unannounced(p) /\ (\A c : On(c, p) = {}) /\ ~Coming(p)
<1>1. Unannounced(p) /\ \A c : On(c, p) = {}
  BY DEF Busy, Unannounced, Queued, WorksOn, On
<1> QED
  BY <1>1 DEF Coming, ComingFrom, Arriving, Unannounced, Resizing

LEMMA FindPhotoAsAsked ==
    ASSUME TypeInv, AskedFor, FindPhoto
    PROVE  AskedFor'
<1>1. PICK p \in Paths, ps \in SUBSET Paths :
        /\ Blob("images", p) # Nothing
        /\ Forget({x \in ps : (\E y \in ps : Busy(y)) \/ ~connected["images"]})
        /\ admin'.path = p
        /\ \/ admin'.pc = "mark" /\ ps = {p}
           \/ /\ admin'.pc = "bytes" /\ ps = {p, NewPath[p]} /\ p \in DOMAIN NewPath
              /\ admin'.found = Blob("images", p).tags
  BY PipelineAssumption DEF FindPhoto, EditBegins, NoEdit
<1>2. admin = NoEdit /\ UNCHANGED <<files, rows, calls, mixed, connected, queue, faceEvents, work>>
  BY DEF FindPhoto, emulator
<1>3. ps \subseteq Paths /\ Edited = {} /\ Moving = {} /\ Edited' = ps /\ admin.pc = "idle"
  <2>1. admin' # NoEdit
    BY <1>1 DEF NoEdit
  <2> QED
    BY <1>1, <1>2, <2>1, PipelineAssumption, EditedFacts DEF Edited, Moving, Renaming
<1>4. /\ \A x \in Paths : Known(x)' => Known(x) /\ expected'[x] = expected[x]
      /\ \A x \in ps : Known(x)' => connected["images"] /\ \A y \in ps : ~Busy(y)
  BY <1>1, <1>3, Forgotten
<1>5. CallsOwned'
  <2>1. \A q \in calls : Owned(q) /\ q.caller # Admin /\ q.path \in Paths
    BY <1>3 DEF AskedFor, CallsOwned, TypeInv, TypeOK, EmulatorTypeOK, EditsCall, Calls
  <2>2. \A q \in calls : Owned(q)'
    BY <1>2, <1>4, <2>1 DEF Owned, WorksOn
  <2> QED
    BY <1>2, <2>2 DEF AskedFor, CallsOwned
<1>6. EventsOfUploads'
  BY <1>2 DEF AskedFor, EventsOfUploads
<1>7. \A x : PathStays(x)
  BY <1>2, UnchangedStays DEF PathStays, WorkStays, Queued
<1>8. ASSUME NEW x \in ps, Known(x)'
      PROVE  Quiet(x)' /\ AsExpected(x)' /\ AsExpected(x)
  <2>1. ~Coming(x)
    BY <1>4, <1>8, NotBusy
  <2>2. Quiet(x) /\ AsExpected(x)
    BY <1>3, <1>4, <1>8, <2>1 DEF AskedFor, PathWell
  <2> QED
    BY <1>3, <1>4, <1>7, <1>8, <2>2, QuietKept, AsExpectedKept DEF PathStays, Containers
<1>9. ASSUME NEW x \in Paths
      PROVE  PathWell(x)'
  <2>1. CASE x \in ps
    BY <1>8, <2>1 DEF PathWell
  <2>2. CASE x \notin ps
    <3>1. PromiseStays(x)
      BY <1>2, <1>3, <1>4, <2>2 DEF PromiseStays
    <3> QED
      BY <1>7, <3>1, PathKept DEF AskedFor
  <2> QED
    BY <2>1, <2>2
<1>10. EditHeard'
  BY <1>2, <1>3, <1>4 DEF EditHeard
<1>11. ASSUME NEW x \in DOMAIN NewPath
       PROVE  RenameFrom(x)'
  <2> SUFFICES ASSUME Renaming', x = p, Known(p)', Known(NewPath[p])'
               PROVE  \E photo \in Images :
                          /\ expected'[x] = photo /\ admin'.found = photo.tags
                          /\ PhotoAt(x, photo)' /\ CopyAt(NewPath[x], photo)'
    BY <1>1 DEF RenameFrom
  <2>1. admin'.pc = "bytes" /\ admin'.found = Blob("images", p).tags
    BY <1>1 DEF Renaming
  <2>2. PICK image \in Images \cup {Nothing} : expected[p] = image /\ Holds("images", p, image)
    BY <1>1, <1>8 DEF AsExpected
  <2>3. image \in Images /\ Blob("images", p) = image
    BY <1>1, <2>2 DEF Holds
  <2>4. Holds("images", p, image)'
    BY <1>7, <2>2, StaysFacts DEF PathStays, Containers
  <2>5. PhotoAt(p, image)' /\ CopyAt(NewPath[p], image)'
    BY <2>1, <2>4 DEF PhotoAt, CopyAt
  <2> QED
    BY <1>4, <2>1, <2>2, <2>3, <2>5
<1> QED
  BY <1>5, <1>6, <1>9, <1>10, <1>11 DEF AskedFor

\* while an edit is not waiting for a call, no call is its own
LEMMA EditCalls ==
    ASSUME TypeInv, AskedFor, admin.pc \notin {"copying", "deleting"}, UNCHANGED work,
           \A x \in Paths : Known(x)' => Known(x),
           \/ UNCHANGED calls
           \/ \E t : calls' = calls \cup {t} /\ t.caller = Admin /\ Owned(t)'
    PROVE  CallsOwned'
<1>1. \A q \in calls : Owned(q) /\ q.caller # Admin /\ q.path \in Paths
  BY DEF AskedFor, CallsOwned, TypeInv, TypeOK, EmulatorTypeOK, EditsCall, Calls
<1>2. \A q \in calls : Owned(q)'
  BY <1>1 DEF Owned, WorksOn
<1>3. Admin \notin Workers
  BY PipelineAssumption
<1> QED
  BY <1>1, <1>2, <1>3 DEF AskedFor, CallsOwned

\* an edit is given up
LEMMA EditGivenUp ==
    ASSUME TypeInv, AskedFor, admin.pc \notin {"copying", "deleting"}, Forget(Edited),
           UNCHANGED <<connected, queue, faceEvents, work>>, Edited' \subseteq Edited,
           \/ UNCHANGED calls
           \/ \E t : calls' = calls \cup {t} /\ t.caller = Admin /\ Owned(t)',
           \A x \in Paths : x \notin Edited => \A c \in Containers : StaysAt(c, x)
    PROVE  AskedFor'
<1>1. /\ \A x \in Paths : Known(x)' => x \notin Edited /\ Known(x) /\ expected'[x] = expected[x]
      /\ \A x \in Edited : ~Known(x)'
  BY Forgotten, EditedFacts
<1>2. CallsOwned'
  BY <1>1, EditCalls
<1>3. EventsOfUploads'
  BY DEF AskedFor, EventsOfUploads
<1>4. \A x \in Paths : Known(x)' => PathStays(x)
  BY <1>1 DEF PathStays, WorkStays, Queued
<1> QED
  BY <1>1, <1>2, <1>3, <1>4, RestKept

\* a photo that is being edited and of which something is promised
LEMMA EditedQuiet ==
    ASSUME TypeInv, AskedFor, NEW x \in Edited, Known(x)
    PROVE  /\ Quiet(x) /\ (x \in Moving \/ AsExpected(x))
           /\ admin.pc \notin {"copying", "deleting"} => On("images", x) = {}
<1>1. x \in Paths /\ ~Coming(x)
  BY EditedFacts DEF Coming, ComingFrom
<1>2. Quiet(x) /\ (x \in Moving \/ AsExpected(x))
  BY <1>1 DEF AskedFor, PathWell
<1>3. ASSUME admin.pc \notin {"copying", "deleting"}, NEW q \in On("images", x)
      PROVE  FALSE
  <2>1. /\ q \in calls /\ q.container = "images" /\ q.path = x /\ Owned(q) /\ q.caller \in Callers
        /\ q.caller # Admin
    BY <1>3 DEF On, AskedFor, CallsOwned, TypeInv, TypeOK, EmulatorTypeOK, EditsCall, Calls
  <2>2. q.caller \notin Workers
    BY <1>2, <2>1 DEF Owned, Quiet, Unannounced, Hopeless
  <2> QED
    BY <2>1, <2>2, PipelineAssumption DEF Owned
<1> QED
  BY <1>2, <1>3

\* a rename goes on
LEMMA RenameGoesOn ==
    ASSUME TypeInv, AskedFor, NEW p \in Paths, p = admin.path, Renaming, Renaming', admin'.path = p,
           UNCHANGED <<connected, queue, faceEvents, work, expected>>, CallsOwned',
           \A x \in Paths : StaysAt("uploads", x),
           \A x \in Paths \ {p, NewPath[p]} : StaysAt("images", x),
           Known(p) /\ Known(NewPath[p]) =>
             \A photo \in Images :
               /\ admin.found = photo.tags /\ PhotoAt(p, photo) /\ CopyAt(NewPath[p], photo)
               => admin'.found = photo.tags /\ PhotoAt(p, photo)' /\ CopyAt(NewPath[p], photo)'
    PROVE  AskedFor'
<1>1. Edited' = {p, NewPath[p]} /\ Edited = {p, NewPath[p]} /\ Moving' = Edited' /\ Moving = Edited
  BY EditedFacts DEF Edited, Moving, Renaming, NoEdit
<1>2. EventsOfUploads' /\ EditHeard'
  BY <1>1 DEF AskedFor, EventsOfUploads, EditHeard, Known
<1>3. \A x : WorkStays(x) /\ (Queued(x)' <=> Queued(x))
  BY DEF WorkStays, Queued
<1>4. ASSUME NEW x \in Paths
      PROVE  PathWell(x)'
  <2>1. CASE x \in Edited
    <3>1. Known(x) => Quiet(x)
      BY <2>1, EditedQuiet
    <3>2. Quiet(x) => Quiet(x)'
      BY <1>3, QuietKept
    <3> QED
      BY <1>1, <2>1, <3>1, <3>2 DEF PathWell, Known
  <2>2. CASE x \notin Edited
    <3>1. PathStays(x) /\ PromiseStays(x)
      BY <1>1, <1>3, <2>2 DEF PathStays, PromiseStays, Containers
    <3> QED
      BY <3>1, PathKept DEF AskedFor
  <2> QED
    BY <2>1, <2>2
<1>5. ASSUME NEW x \in DOMAIN NewPath
      PROVE  RenameFrom(x)'
  <2> SUFFICES ASSUME x = p, Known(p), Known(NewPath[p])
               PROVE  \E photo \in Images :
                          /\ expected'[x] = photo /\ admin'.found = photo.tags
                          /\ PhotoAt(x, photo)' /\ CopyAt(NewPath[x], photo)'
    BY DEF RenameFrom, Known
  <2>1. PICK photo \in Images : /\ expected[p] = photo /\ admin.found = photo.tags
                                /\ PhotoAt(p, photo) /\ CopyAt(NewPath[p], photo)
    BY DEF AskedFor, RenameFrom
  <2> QED
    BY <2>1
<1> QED
  BY <1>2, <1>4, <1>5 DEF AskedFor

\* a blob that is there
LEMMA HeldIsBlob ==
    ASSUME TypeInv, BlobsInv, NEW p \in Paths, NEW b, Holds("images", p, b), rows["images"][p] # Nothing
    PROVE  b # Nothing
<1>1. "images" \in Containers /\ Whole("images", p) /\ UnsettledOn("images", p) = {}
  BY DEF BlobsInv, Holds, UnsettledOn, Containers
<1>2. files["images"][p] \in Contents
  BY <1>1 DEF Whole, TypeInv, TypeOK, EmulatorTypeOK
<1>3. /\ rows["images"][p].tags \in Tags \cup {Nothing}
      /\ rows["images"][p].metadata \in Uploads \cup {Nothing}
  BY <1>1, RowType DEF TypeInv, TypeOK
<1>4. Blob("images", p) \in Promises!Wholes
  BY <1>2, <1>3 DEF Blob, Promises!Wholes
<1> QED
  BY <1>4, OneReplicaAssumption DEF Holds

LEMMA MarkAsAsked ==
    ASSUME TypeInv, BlobsInv, AskedFor, Mark
    PROVE  AskedFor'
<1>1. PICK p \in Paths : p = admin.path
  BY EditFacts DEF Mark, EditAt
<1>2. /\ admin.pc = "mark" /\ admin' = NoEdit /\ UNCHANGED work /\ Edited = {p} /\ Moving = {}
      /\ Edited' = {} /\ Moving' = {} /\ ~Renaming'
  BY <1>1, EditedFacts DEF Mark, EditAt, EditEnds, Edited, Moving, Renaming, NoEdit
<1>3. CASE Forget(Edited) /\ UNCHANGED emulator
  BY <1>2, <1>3, EditGivenUp, UnchangedStays DEF emulator
<1>4. CASE /\ SetTags("images", admin.path, admin.found)
           /\ expected' = [expected EXCEPT ![admin.path] =
                            IF @ \in Images THEN [@ EXCEPT !.tags = admin.found] ELSE @]
  <2>0. PICK found : found = admin.found
    OBVIOUS
  <2>1. found \in Tags /\ "images" \in Containers /\ "uploads" \in Containers
    BY <1>2, <2>0 DEF TypeInv, EditWell, Containers
  <2>2. /\ \A image \in Images : Holds("images", p, image) =>
              Holds("images", p, [image EXCEPT !.tags = found])'
        /\ \A c \in Containers, x \in Paths : <<c, x>> # <<"images", p>> => StaysAt(c, x)
    <3>1. SetTags("images", p, found) /\ found \in Tags \cup {Nothing}
      BY <1>1, <1>4, <2>0, <2>1
    <3> QED
      BY <2>1, <3>1, RetagHere
  <2>3. UNCHANGED <<calls, connected, queue, faceEvents>> /\ rows["images"][p] # Nothing
    BY <1>1, <1>4 DEF SetTags, announced
  <2>4. /\ expected'[p] = IF expected[p] \in Images THEN [expected[p] EXCEPT !.tags = found] ELSE expected[p]
        /\ \A x \in Paths : x # p => expected'[x] = expected[x]
    BY <1>1, <1>4, <2>0 DEF TypeInv, TypeOK
  <2>5. \A x \in Paths : Known(x)' => Known(x)
    BY <2>4, OneReplicaAssumption DEF Known
  <2>6. CallsOwned'
    BY <1>2, <2>3, <2>5, EditCalls
  <2>7. EventsOfUploads'
    BY <1>2, <2>3 DEF AskedFor, EventsOfUploads
  <2>8. \A x \in Paths : WorkStays(x) /\ (Queued(x)' <=> Queued(x)) /\ StaysAt("uploads", x)
    BY <1>2, <2>1, <2>2, <2>3 DEF WorkStays, Queued
  <2>9. ASSUME NEW x \in Paths, x # p
        PROVE  PathWell(x)'
    <3>1. PathStays(x) /\ PromiseStays(x)
      BY <1>2, <2>2, <2>3, <2>4, <2>8, <2>9 DEF PathStays, PromiseStays
    <3> QED
      BY <3>1, PathKept DEF AskedFor
  <2>10. ASSUME Known(p)
         PROVE  PathWell(p)'
    <3>1. Quiet(p) /\ AsExpected(p)
      BY <1>2, <2>10, EditedQuiet
    <3>2. Quiet(p)'
      BY <2>8, <3>1, QuietKept
    <3>3. PICK image \in Images \cup {Nothing} :
            expected[p] = image /\ Holds("images", p, image) /\ (image # Nothing => p \in faceEvents)
      BY <3>1 DEF AsExpected
    <3>4. image \in Images /\ p \in faceEvents
      BY <2>3, <3>3, HeldIsBlob
    <3>5. [image EXCEPT !.tags = found] \in Images
      BY <2>1, <3>4 DEF Images
    <3>6. Holds("images", p, [image EXCEPT !.tags = found])'
      BY <2>2, <3>3, <3>4
    <3>7. AsExpected(p)'
      <4>1. PICK marked \in Images : marked = [image EXCEPT !.tags = found]
        BY <3>5
      <4>2. expected'[p] = marked /\ Holds("images", p, marked)'
        BY <2>4, <3>3, <3>4, <3>6, <4>1
      <4> QED
        BY <2>3, <3>4, <4>2 DEF AsExpected
    <3> QED
      BY <3>2, <3>7 DEF PathWell
  <2>11. PathWell(p)'
    BY <2>5, <2>10 DEF PathWell
  <2>12. EditHeard' /\ \A x \in DOMAIN NewPath : RenameFrom(x)'
    BY <1>2 DEF EditHeard, RenameFrom
  <2> QED
    BY <2>6, <2>7, <2>9, <2>11, <2>12 DEF AskedFor
<1> QED
  BY <1>3, <1>4 DEF Mark

\* what CopyBlob reads
LEMMA PhotoHere ==
    ASSUME NEW p \in Paths, NEW photo \in Images, Holds("images", p, photo)
    PROVE  /\ files["images"][p] = photo.bytes
           /\ CopiedTags = photo.tags \/ admin.path # p
           /\ CopiedMetadata = photo.metadata \/ admin.path # p
<1>1. Blob("images", p) = photo /\ photo # Nothing
  BY ImageIsBlob DEF Holds
<1>2. files["images"][p] = photo.bytes
  BY <1>1 DEF Blob
<1> QED
  BY <1>1, <1>2 DEF CopiedTags, CopiedMetadata

LEMMA CopyReadsAsAsked ==
    ASSUME TypeInv, AskedFor, CopyBytes \/ (CopyTags(CopiedTags) /\ UNCHANGED expected)
    PROVE  AskedFor'
<1>1. PICK p \in Paths : p = admin.path
  BY EditFacts DEF CopyBytes, CopyTags, EditAt
<1>2. /\ admin \in Edits /\ admin.pc \in {"bytes", "tags"} /\ Renaming
      /\ UNCHANGED <<files, rows, calls, mixed, connected, queue, faceEvents, work>>
  BY EditFacts DEF CopyBytes, CopyTags, EditAt, emulator, Renaming
<1>3. CASE CopyBytes /\ ~Readable("images", admin.path)
  <2>1. Forget(Edited) /\ Edited' = {}
    BY <1>3 DEF CopyBytes, EditEnds, Edited
  <2> QED
    BY <1>2, <2>1, EditGivenUp, UnchangedStays
<1>4. CASE UNCHANGED expected /\ Renaming' /\ admin'.path = p /\ admin'.found = admin.found
           /\ (\/ admin.pc = "bytes" /\ admin'.pc = "tags" /\ admin'.bytes = files["images"][p]
               \/ /\ admin.pc = "tags" /\ admin'.pc = "metadata" /\ admin'.bytes = admin.bytes
                  /\ admin'.tags = CopiedTags)
  <2>1. CallsOwned'
    BY <1>2, <1>4, EditCalls DEF Known
  <2>2. ASSUME NEW photo \in Images, PhotoAt(p, photo)
        PROVE  PhotoAt(p, photo)' /\ CopyAt(NewPath[p], photo)'
    <3>1. Holds("images", p, photo)
      BY <1>2, <2>2 DEF PhotoAt
    <3>2. Holds("images", p, photo)'
      BY <1>2, <3>1, UnchangedStays, StaysFacts DEF Containers
    <3>3. files["images"][p] = photo.bytes /\ CopiedTags = photo.tags
      BY <1>1, <3>1, PhotoHere
    <3> QED
      BY <1>4, <2>2, <3>2, <3>3 DEF PhotoAt, CopyAt
  <2> QED
    BY <1>1, <1>2, <1>4, <2>1, <2>2, RenameGoesOn, UnchangedStays
<1>5. CASE CopyBytes /\ Readable("images", admin.path)
  <2>1. UNCHANGED expected /\ admin' = [admin EXCEPT !.pc = "tags", !.bytes = files["images"][p]]
        /\ admin.pc = "bytes"
    BY <1>1, <1>5 DEF CopyBytes, EditAt, EditGoesOn
  <2> QED
    BY <1>1, <1>2, <1>4, <2>1 DEF Edits, Renaming
<1>6. CASE CopyTags(CopiedTags) /\ UNCHANGED expected
  <2>1. UNCHANGED expected /\ admin' = [admin EXCEPT !.pc = "metadata", !.tags = CopiedTags]
        /\ admin.pc = "tags"
    BY <1>6 DEF CopyTags, EditAt
  <2> QED
    BY <1>1, <1>2, <1>4, <2>1 DEF Edits, Renaming
<1> QED
  BY <1>3, <1>5, <1>6

LEMMA CopySavedAsAsked ==
    ASSUME TypeInv, AskedFor, NEW metadata \in Uploads \cup {Nothing}, CopyMetadata(metadata)
    PROVE  /\ UNCHANGED expected /\ metadata = CopiedMetadata => AskedFor'
           /\ Forget(Edited) => AskedFor'
<1>1. PICK p \in DOMAIN NewPath : p = admin.path
  BY EditFacts DEF CopyMetadata, EditAt
<1> DEFINE r == NewPath[p]
<1>2. /\ admin \in Edits /\ admin.pc = "metadata" /\ admin' = [admin EXCEPT !.pc = "copying"]
      /\ UNCHANGED <<files, rows, connected, queue, faceEvents, work>>
      /\ p \in Paths /\ r \in Paths /\ r # p /\ "images" \in Containers
      /\ admin.bytes \in Contents \cup {Nothing} /\ admin.tags \in Tags \cup {Nothing} /\ Admin \in Callers
  BY <1>1, EditFacts, PipelineAssumption DEF CopyMetadata, EditAt, stored, announced, Containers
<1>3. /\ admin'.pc = "copying" /\ admin'.path = p /\ admin'.found = admin.found
      /\ Renaming /\ Renaming' /\ Edited = {p, r} /\ Edited' = {p, r}
  BY <1>1, <1>2, EditedFacts DEF Edits, Renaming, Edited, NoEdit
<1>4. PICK bytes \in Contents \cup {Nothing}, tags \in Tags \cup {Nothing} :
        bytes = admin.bytes /\ tags = admin.tags
  BY <1>2
<1>5. PICK t : t = Put(Admin, "images", r, bytes, tags, metadata)
  OBVIOUS
<1>6. Begin(t)
  BY <1>1, <1>4, <1>5 DEF CopyMetadata
<1>7. /\ t \in Calls /\ t.caller = Admin /\ t.op = "put" /\ t.step = 1 /\ t.bytes = bytes
      /\ t.container = "images" /\ t.path = r /\ t.tags = tags /\ t.metadata = metadata
  <2>1. t \in Calls
    BY <1>2, <1>5, PutCall
  <2> QED
    BY <2>1, <1>5 DEF Put
<1>8. calls' = calls \cup {t}
  BY <1>6 DEF Begin
<1>9. /\ On("images", r) = {} => Carries(t, Outcome(t))' /\ t \in On("images", r)'
      /\ \A c \in Containers, x \in Paths : <<c, x>> # <<"images", r>> => StaysAt(c, x)
  BY <1>2, <1>6, <1>7, <1>8, BeginHere DEF On
<1>10. Owned(t)'
  <2>1. Admin \notin Uploads \cup Workers /\ Admin \notin Nat
    BY PipelineAssumption
  <2> QED
    BY <1>3, <1>7, <2>1 DEF Owned
<1>11. ASSUME Forget(Edited)
       PROVE  AskedFor'
  BY <1>2, <1>3, <1>7, <1>8, <1>9, <1>10, <1>11, EditGivenUp
<1>12. ASSUME UNCHANGED expected, metadata = CopiedMetadata
       PROVE  AskedFor'
  <2>1. CallsOwned'
    BY <1>2, <1>7, <1>8, <1>10, <1>12, EditCalls DEF Known
  <2>2. \A x \in Paths : StaysAt("uploads", x)
    BY <1>9 DEF Containers
  <2>3. ASSUME Known(r), NEW photo \in Images, PhotoAt(p, photo)
        PROVE  PhotoAt(p, photo)' /\ CopyAt(r, photo)'
    <3>1. Holds("images", p, photo) /\ admin.bytes = photo.bytes /\ admin.tags = photo.tags
      BY <1>2, <2>3 DEF PhotoAt
    <3>2. Holds("images", p, photo)'
      BY <1>2, <1>9, <3>1, StaysFacts
    <3>3. CopiedMetadata = photo.metadata
      BY <1>1, <1>2, <3>1, PhotoHere
    <3>4. Outcome(t) = photo
      BY <1>4, <1>7, <1>12, <3>1, <3>3 DEF Outcome, Images
    <3>5. On("images", r) = {}
      BY <1>2, <1>3, <2>3, EditedQuiet
    <3> QED
      BY <1>3, <1>7, <1>9, <3>2, <3>4, <3>5 DEF PhotoAt, CopyAt
  <2> QED
    BY <1>1, <1>2, <1>3, <1>9, <1>12, <2>1, <2>2, <2>3, RenameGoesOn
<1> QED
  BY <1>11, <1>12

LEMMA DeleteOldAsAsked ==
    ASSUME TypeInv, AskedFor, DeleteOld
    PROVE  AskedFor'
<1>1. PICK p \in DOMAIN NewPath : p = admin.path
  BY EditFacts DEF DeleteOld, EditAt
<1> DEFINE r == NewPath[p]
<1>2. /\ admin \in Edits /\ admin.pc = "delete" /\ admin' = [admin EXCEPT !.pc = "deleting"]
      /\ UNCHANGED <<files, rows, connected, queue, faceEvents, work, expected>>
      /\ p \in Paths /\ r \in Paths /\ r # p /\ "images" \in Containers /\ Admin \in Callers
  BY <1>1, EditFacts, PipelineAssumption DEF DeleteOld, EditAt, EditGoesOn, stored, announced, Containers
<1>3. /\ admin'.pc = "deleting" /\ admin'.path = p /\ admin'.found = admin.found
      /\ Renaming /\ Renaming'
  BY <1>1, <1>2 DEF Edits, Renaming
<1>4. PICK t : t = Delete(Admin, "images", p)
  OBVIOUS
<1>5. Begin(t)
  BY <1>1, <1>4 DEF DeleteOld
<1>6. /\ t \in Calls /\ t.caller = Admin /\ t.op = "delete" /\ t.step = 1
      /\ t.container = "images" /\ t.path = p /\ Outcome(t) = Nothing
  <2>1. t \in Calls
    BY <1>2, <1>4, DeleteCall
  <2> QED
    BY <2>1, <1>4 DEF Delete, Outcome
<1>7. calls' = calls \cup {t}
  BY <1>5 DEF Begin
<1>8. /\ On("images", p) = {} => Carries(t, Nothing)' /\ t \in On("images", p)'
      /\ \A c \in Containers, x \in Paths : <<c, x>> # <<"images", p>> => StaysAt(c, x)
  BY <1>2, <1>5, <1>6, <1>7, BeginHere DEF On
<1>9. CallsOwned'
  <2>1. Admin \notin Uploads \cup Workers /\ Admin \notin Nat
    BY PipelineAssumption
  <2>2. Owned(t)'
    BY <1>3, <1>6, <2>1 DEF Owned
  <2> QED
    BY <1>2, <1>6, <1>7, <2>2, EditCalls DEF Known
<1>10. \A x \in Paths : StaysAt("uploads", x)
  BY <1>8 DEF Containers
<1>11. ASSUME NEW photo \in Images, PhotoAt(p, photo), CopyAt(r, photo)
       PROVE  PhotoAt(p, photo)' /\ CopyAt(r, photo)'
  <2>1. On("images", p) = {} /\ Holds("images", r, photo) /\ r \in faceEvents
    BY <1>2, <1>11 DEF PhotoAt, CopyAt, Holds
  <2>2. Holds("images", r, photo)'
    BY <1>2, <1>8, <2>1, StaysFacts
  <2> QED
    BY <1>2, <1>3, <1>6, <1>8, <2>1, <2>2 DEF PhotoAt, CopyAt
<1> QED
  BY <1>1, <1>2, <1>3, <1>8, <1>9, <1>10, <1>11, RenameGoesOn

LEMMA RetagAsAsked ==
    ASSUME TypeInv, AskedFor, Retag
    PROVE  AskedFor'
<1>1. PICK p \in DOMAIN NewPath : p = admin.path
  BY EditFacts DEF Retag, EditAt
<1> DEFINE r == NewPath[p]
<1>2. /\ admin \in Edits /\ admin.pc = "retag" /\ UNCHANGED work /\ Renaming
      /\ p \in Paths /\ r \in Paths /\ r # p /\ "images" \in Containers /\ admin.found \in Tags \cup {Nothing}
  BY <1>1, EditFacts, PipelineAssumption DEF Retag, EditAt, Containers, Renaming
<1>3. CASE EditEnds /\ Forget(Edited) /\ UNCHANGED emulator
  <2>1. Edited' = {} /\ UNCHANGED <<files, rows, calls, mixed, connected, queue, faceEvents>>
    BY <1>3 DEF EditEnds, Edited, emulator
  <2> QED
    BY <1>2, <1>3, <2>1, EditGivenUp, UnchangedStays
<1>4. CASE SetTags("images", NewPath[admin.path], admin.found) /\ EditGoesOn([admin EXCEPT !.pc = "delete"])
  <2>1. PICK found \in Tags \cup {Nothing} : found = admin.found
    BY <1>2
  <2>2. SetTags("images", r, found)
    BY <1>1, <1>4, <2>1
  <2>3. /\ \A image \in Images : Holds("images", r, image) => Holds("images", r, [image EXCEPT !.tags = found])'
        /\ \A c \in Containers, x \in Paths : <<c, x>> # <<"images", r>> => StaysAt(c, x)
    BY <1>2, <2>2, RetagHere
  <2>4. /\ admin'.pc = "delete" /\ admin'.path = p /\ admin'.found = found /\ Renaming'
        /\ UNCHANGED expected
    BY <1>1, <1>2, <1>4, <2>1 DEF EditGoesOn, Edits, Renaming
  <2>5. UNCHANGED <<calls, connected, queue, faceEvents>>
    BY <2>2 DEF SetTags, announced
  <2>6. CallsOwned'
    BY <1>2, <2>4, <2>5, EditCalls DEF Known
  <2>7. \A x \in Paths : StaysAt("uploads", x)
    BY <2>3 DEF Containers
  <2>8. ASSUME NEW photo \in Images, found = photo.tags, PhotoAt(p, photo), CopyAt(r, photo)
        PROVE  PhotoAt(p, photo)' /\ CopyAt(r, photo)'
    <3>1. Holds("images", p, photo) /\ Holds("images", r, photo) /\ r \in faceEvents
      BY <1>2, <2>8 DEF PhotoAt, CopyAt
    <3>2. [photo EXCEPT !.tags = found] = photo
      BY <2>8 DEF Images
    <3>3. Holds("images", r, photo)'
      BY <2>3, <3>1, <3>2
    <3>4. Holds("images", p, photo)'
      BY <1>2, <2>3, <3>1, StaysFacts
    <3> QED
      BY <2>4, <2>5, <3>1, <3>3, <3>4 DEF PhotoAt, CopyAt
  <2> QED
    BY <1>1, <1>2, <2>1, <2>3, <2>4, <2>5, <2>6, <2>7, <2>8, RenameGoesOn
<1> QED
  BY <1>3, <1>4 DEF Retag

LEMMA EditFailsAsAsked ==
    ASSUME TypeInv, AskedFor, EditFails
    PROVE  AskedFor'
<1>1. /\ Forget(Edited)
      /\ \/ /\ EditAt("mark") \/ EditAt("retag")
            /\ EditEnds
            /\ \/ UNCHANGED emulator
               \/ SetTags("images", IF admin.pc = "mark" THEN admin.path ELSE NewPath[admin.path],
                          admin.found)
         \/ EditAt("bytes") /\ EditEnds /\ UNCHANGED emulator
         \/ CopyTags(Nothing) \/ CopyMetadata(Nothing)
  BY DEF EditFails, Fault
<1>2. EditEnds => Edited' = {}
  BY DEF EditEnds, Edited
<1>3. CASE (EditAt("mark") \/ EditAt("retag") \/ EditAt("bytes")) /\ EditEnds /\ UNCHANGED emulator
  BY <1>1, <1>2, <1>3, EditGivenUp, UnchangedStays DEF EditAt, emulator
<1>4. CASE /\ EditAt("mark") \/ EditAt("retag")
           /\ EditEnds
           /\ SetTags("images", IF admin.pc = "mark" THEN admin.path ELSE NewPath[admin.path],
                      admin.found)
  <2>1. PICK x : x = IF admin.pc = "mark" THEN admin.path ELSE NewPath[admin.path]
    OBVIOUS
  <2>2. x \in Edited /\ x \in Paths /\ admin.found \in Tags \cup {Nothing} /\ "images" \in Containers
    BY <1>4, <2>1, EditFacts, EditedFacts DEF EditAt, Renaming, Containers
  <2>3. SetTags("images", x, admin.found)
    BY <1>4, <2>1
  <2>4. \A c \in Containers, y \in Paths : y \notin Edited => StaysAt(c, y)
    <3>1. PICK found \in Tags \cup {Nothing} : found = admin.found
      BY <2>2
    <3>2. \A c \in Containers, y \in Paths : <<c, y>> # <<"images", x>> => StaysAt(c, y)
      BY <2>2, <2>3, <3>1, RetagHere
    <3> QED
      BY <2>2, <3>2
  <2>5. UNCHANGED <<calls, connected, queue, faceEvents, work>> /\ admin.pc \notin {"copying", "deleting"}
    BY <1>4, <2>3 DEF SetTags, announced, EditAt
  <2> QED
    BY <1>1, <1>2, <1>4, <2>4, <2>5, EditGivenUp
<1>5. CASE CopyTags(Nothing)
  <2>1. /\ admin \in Edits /\ admin.pc = "tags" /\ admin' = [admin EXCEPT !.pc = "metadata", !.tags = Nothing]
        /\ UNCHANGED <<files, rows, calls, mixed, connected, queue, faceEvents, work>>
    BY <1>5, EditFacts DEF CopyTags, EditAt, emulator
  <2>2. admin'.pc = "metadata" /\ admin'.path = admin.path
    BY <2>1 DEF Edits
  <2>3. Edited' = Edited
    <3>2. NoEdit.pc = "idle" /\ admin.pc = "tags"
      BY <2>1 DEF NoEdit
    <3>1. admin # NoEdit /\ admin' # NoEdit
      BY ONLY <2>2, <3>2
    <3> QED
      BY <2>1, <2>2, <3>1 DEF Edited
  <2> QED
    BY <1>1, <2>1, <2>3, EditGivenUp, UnchangedStays
<1>6. CASE CopyMetadata(Nothing)
  BY <1>1, <1>6, CopySavedAsAsked
<1> QED
  BY <1>1, <1>3, <1>4, <1>5, <1>6

LEMMA EditAsAsked ==
    ASSUME TypeInv, BlobsInv, AskedFor, FindPhoto \/ EditStep \/ EditFails
    PROVE  AskedFor'
<1>1. CASE CopyMetadata(CopiedMetadata) /\ UNCHANGED expected
  <2>1. admin.pc # "idle"
    BY <1>1 DEF CopyMetadata, EditAt
  <2>2. PICK metadata \in Uploads \cup {Nothing} : metadata = CopiedMetadata
    BY <2>1, CopiedTypes
  <2> QED
    BY <1>1, <2>2, CopySavedAsAsked
<1> QED
  BY <1>1, FindPhotoAsAsked, EditFailsAsAsked, MarkAsAsked, CopyReadsAsAsked, RetagAsAsked,
     DeleteOldAsAsked DEF EditStep

-----------------------------------------------------------------------------
(* Every step.                                                             *)

LEMMA StayAsAsked ==
    ASSUME TypeInv, AskedFor, UNCHANGED vars
    PROVE  AskedFor'
<1>1. UNCHANGED <<files, rows, calls, connected, queue, faceEvents, mixed, work, admin, expected>>
  BY DEF vars, emulator, users
<1>2. CallsOwned' /\ EventsOfUploads'
  BY <1>1 DEF AskedFor, CallsOwned, Owned, WorksOn, Known, EventsOfUploads
<1>3. \A p : PathStays(p)
  BY <1>1, UnchangedStays DEF PathStays, WorkStays, Queued
<1> QED
  BY <1>1, <1>2, <1>3, RestKept

\* every step keeps it
LEMMA KeptAsAsked ==
    ASSUME OneWorker, TypeInv, BlobsInv, AskedFor, [Next]_vars
    PROVE  AskedFor'
<1>1. CASE UNCHANGED vars
  BY <1>1, StayAsAsked
<1>2. CASE \E u \in Uploads : Upload(u) \/ UploadCutOff(u)
  BY <1>2, UploadAsAsked, CutOffAsAsked
<1>3. CASE \E q \in calls : Serve(q) \/ ServeFails(q)
  BY <1>3, ServedAsAsked
<1>4. CASE EmulatorRestarts \/ BrokerIsLost
  BY <1>4, RestartAsAsked, BrokerLostAsAsked
<1>5. CASE \E w \in Workers : Resize(w) \/ ResizeFails(w) \/ WorkerDies(w)
  BY <1>5, ResizeAsAsked, CutOffAsAsked
<1>6. CASE FindPhoto \/ EditStep \/ EditFails \/ EditCutOff
  BY <1>6, EditAsAsked, CutOffAsAsked
<1>7. CASE NoMoreUploads
  BY <1>7, StayAsAsked DEF NoMoreUploads
<1> QED
  BY <1>1, <1>2, <1>3, <1>4, <1>5, <1>6, <1>7 DEF Next

LEMMA StartAsAsked == ASSUME Init PROVE AskedFor
<1>1. PICK start \in Starts : StartWith(start)
  BY DEF Init
<1>2. /\ calls = {} /\ queue = << >> /\ admin = NoEdit /\ work = [w \in Workers |-> Idle]
      /\ mixed = [c \in Containers |-> [p \in Paths |-> FALSE]]
  BY DEF Init
<1>3. start.stored \in [Paths -> Uploads \cup {Nothing}]
  BY PipelineAssumption DEF StartType
<1>4. Edited = {} /\ ~Renaming
  BY <1>2 DEF Edited, Renaming, NoEdit
<1>5. \A c, p : On(c, p) = {}
  BY <1>2 DEF On
<1>6. \A p : Unannounced(p)
  BY <1>2 DEF Unannounced, Queued, WorksOn
<1>7. ASSUME NEW p \in Paths
      PROVE  AsExpected(p)
  <2>1. "images" \in Containers
    BY DEF Containers
  <2>2. ~mixed["images"][p]
    BY <1>2, <2>1
  <2>3. CASE start.stored[p] = Nothing
    <3>1. rows["images"][p] = Nothing /\ expected[p] = Nothing
      BY <1>1, <2>1, <2>3 DEF StartWith
    <3>2. Holds("images", p, Nothing)
      BY <1>5, <2>2, <3>1 DEF Holds, Blob
    <3> QED
      BY <3>1, <3>2 DEF AsExpected
  <2>4. CASE start.stored[p] # Nothing
    <3>1. PICK u \in Uploads : u = start.stored[p]
      BY <1>3, <2>4
    <3>2. /\ rows["images"][p] = [id |-> 1, tags |-> <<u, FALSE>>, metadata |-> u]
          /\ files["images"][p] = u /\ expected[p] = ImageOf(u) /\ p \in faceEvents
      BY <1>1, <2>1, <2>4, <3>1 DEF StartWith
    <3>3. [id |-> 1, tags |-> <<u, FALSE>>, metadata |-> u] \in Rows
      BY ImageOfType DEF Rows
    <3>4. Blob("images", p) = ImageOf(u)
      <4>1. PICK row \in Rows : row = [id |-> 1, tags |-> <<u, FALSE>>, metadata |-> u]
        BY <3>3
      <4>2. row.tags = <<u, FALSE>> /\ row.metadata = u /\ row # Nothing
        BY <4>1, EmulatorAssumption
      <4> QED
        BY <3>2, <4>1, <4>2 DEF Blob, ImageOf
    <3>5. Holds("images", p, ImageOf(u)) /\ ImageOf(u) \in Images
      BY <1>5, <2>2, <3>4, ImageOfType DEF Holds
    <3> QED
      BY <3>2, <3>5 DEF AsExpected
  <2> QED
    BY <2>3, <2>4
<1>8. \A p \in Paths : PathWell(p)
  BY <1>5, <1>6, <1>7 DEF PathWell, Quiet
<1>9. EventsOfUploads /\ CallsOwned
  BY <1>2 DEF EventsOfUploads, CallsOwned
<1>10. EditHeard /\ \A p \in DOMAIN NewPath : RenameFrom(p)
  BY <1>4 DEF EditHeard, RenameFrom
<1> QED
  BY <1>8, <1>9, <1>10 DEF AskedFor

\* when nothing is under way, what is expected is there
LEMMA RestAsAsked ==
    ASSUME TypeInv, AskedFor
    PROVE  LibraryAsAsked
<1> SUFFICES ASSUME AtRest, NEW p \in Paths, Known(p)
             PROVE  Blob("images", p) = expected[p] /\ (expected[p] # Nothing => p \in faceEvents)
  BY DEF LibraryAsAsked, Known
<1>1. \A w : ~WorksOn(w, p) \/ w \notin Workers
  BY DEF AtRest, WorksOn
<1>2. ~Queued(p) /\ \A c : On(c, p) = {}
  BY DEF AtRest, Queued, On
<1>3. ~Coming(p)
  BY <1>1, <1>2 DEF Coming, ComingFrom, Arriving, Resizing
<1>4. p \notin Moving
  BY EditedFacts DEF AtRest, Moving
<1>5. AsExpected(p)
  BY <1>3, <1>4 DEF AskedFor, PathWell
<1> QED
  BY <1>5 DEF AsExpected, Holds

\* With one replica of the resize service, whatever uploads, edits, failures
\* and restarts there are: when all is done, the last upload to a path is the
\* image the site shows there, with the tags an administrator gave it, at the
\* path it was renamed to, and the face service has heard of it (upload.go,
\* blobPutHandler, Resize, softdelete.go, rename.go); unless it is a path of
\* which nothing is promised.
THEOREM LibraryIsAsAsked == ASSUME OneWorker PROVE Spec => []LibraryAsAsked
<1>1. Init => BlobsInv /\ AskedFor
  BY StartAllowed, StartAsAsked
<1>2. BlobsInv /\ AskedFor /\ TypeInv /\ TypeInv' /\ [Next]_vars => BlobsInv' /\ AskedFor'
  BY StepAllowed, KeptAsAsked
<1>3. AskedFor /\ TypeInv => LibraryAsAsked
  BY RestAsAsked
<1> QED
  BY <1>1, <1>2, <1>3, TypesInvariant, PTL DEF Spec
=============================================================================
