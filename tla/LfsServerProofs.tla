-------------------------- MODULE LfsServerProofs --------------------------
(***************************************************************************)
(* Proofs about LfsServer, for every set of slots, repositories, object    *)
(* IDs and requests and every combination of faults.                       *)
(***************************************************************************)
EXTENDS LfsServer, TLAPS

-----------------------------------------------------------------------------
(* The steps of a request, on its record *)

(* An admissible request names at least one object, and each it names is   *)
(* well-formed and has a size.                                             *)
LEMMA AdmissibleItems ==
  ASSUME NEW j \in Requests, Admissible(j)
  PROVE  /\ j.items # <<>>
         /\ \A k \in 1..Len(j.items) :
              j.items[k].oid \in Oids /\ j.items[k].size >= 0
<1>1. j.op \in Ops /\ j.items \in Seq([oid : Oids \union {BadOid}, size : Int])
  BY RequestsAssumption DEF RequestType
<1>2. CASE j.op \in BatchOps
  <2>1. ValidBatch(j.items)
    BY <1>2 DEF Admissible, BatchOps, ProxyOps
  <2> QED
    BY <2>1 DEF ValidBatch, NewOID, NewSize
<1>3. CASE j.op \notin BatchOps
  <2>1. Len(j.items) = 1
    BY <1>3, RequestsAssumption
  <2>2. ValidProxy(j.items[1]) \/ ValidVerify(j.items[1])
    <3>1. CASE j.op \in ProxyOps
      BY <1>3, <3>1 DEF Admissible
    <3>2. CASE j.op = "verify"
      BY <3>2 DEF Admissible, BatchOps, ProxyOps
    <3> QED
      BY <1>1, <1>3, <3>1, <3>2 DEF Ops
  <2>3. j.items # <<>>
    <3>1. Len(<<>>) = 0
      OBVIOUS
    <3> QED
      BY <2>1, <3>1
  <2>4. \A k \in 1..Len(j.items) : k = 1
    BY <2>1
  <2> QED
    BY <2>2, <2>3, <2>4 DEF ValidProxy, ValidVerify, NewOID, NewSize
<1> QED
  BY <1>2, <1>3

(* A request that is being served names a well-formed object of a natural  *)
(* size.                                                                   *)
LEMMA ServedItem ==
  ASSUME NEW q \in ReqState, Control(q), q.pc \notin {"idle", "done"}
  PROVE  /\ q.job \in Requests
         /\ q.job.op \in Ops
         /\ q.job.repo \in Repos
         /\ q.i \in 1..Len(q.job.items)
         /\ Len(q.job.items) \in Nat
         /\ Oid(q) \in Oids
         /\ Item(q).size \in Nat
<1>1. q.job \in Requests /\ Admissible(q.job) /\ q.i \in 1..Len(q.job.items)
  BY DEF Control
<1>2. q.job \in RequestType
  BY <1>1, RequestsAssumption
<1>3. Item(q) \in [oid : Oids \union {BadOid}, size : Int]
  <2> DEFINE S == [oid : Oids \union {BadOid}, size : Int]
  <2>1. q.job.items \in Seq(S)
    BY <1>2 DEF RequestType
  <2> HIDE DEF S
  <2>2. q.job.items[q.i] \in S
    BY <1>1, <2>1
  <2> QED
    BY <2>2 DEF Item, S
<1>4. Oid(q) \in Oids /\ Item(q).size >= 0
  BY <1>1, AdmissibleItems DEF Oid, Item
<1> QED
  BY <1>1, <1>2, <1>3, <1>4 DEF RequestType

(* Answering the request as a whole keeps the record well-formed.          *)
LEMMA FinishControl ==
  ASSUME NEW q \in ReqState, Control(q), q.pc # "idle", NEW s \in Statuses
  PROVE  Finish(q, s) \in ReqState /\ Control(Finish(q, s))
<1> DEFINE f == Finish(q, s)
<1>1. f \in ReqState
  BY DEF Finish, ReqState, Pcs
<1>2. f.pc = "done" /\ f.job = q.job /\ f.isNew = q.isNew
  BY DEF Finish, ReqState
<1> HIDE DEF f
<1>3. Control(f)
  BY <1>2 DEF Control
<1> QED
  BY <1>1, <1>3 DEF f

(* So does the step to the next object of a batch.                         *)
LEMMA NextItemControl ==
  ASSUME NEW q \in ReqState, Control(q), q.pc \notin {"idle", "done"}
  PROVE  NextItem(q) \in ReqState /\ Control(NextItem(q))
<1>0. /\ q.job \in Requests
      /\ q.i \in 1..Len(q.job.items)
      /\ Len(q.job.items) \in Nat
  BY ServedItem
<1>1. CASE q.i < Len(q.job.items)
  <2>1. NextItem(q) = [q EXCEPT !.pc = "authorize", !.i = q.i + 1,
                                !.obj = None, !.isNew = FALSE]
    BY <1>1 DEF NextItem
  <2>2. q.i + 1 \in Nat /\ q.i + 1 \in 1..Len(q.job.items)
    BY <1>0, <1>1
  <2>3. NextItem(q) \in ReqState
    BY <2>1, <2>2 DEF ReqState, Pcs
  <2> QED
    BY <1>0, <2>1, <2>2, <2>3 DEF Control, ReqState
<1>2. CASE ~ (q.i < Len(q.job.items))
  BY <1>2, FinishControl DEF NextItem, Statuses
<1> QED
  BY <1>1, <1>2

(* So does an answer to one object of a batch.                             *)
LEMMA AnswerControl ==
  ASSUME NEW q \in ReqState, Control(q), q.pc \notin {"idle", "done"},
         NEW a \in Answers, q.job.op \in BatchOps,
         a \notin ObjectErrors => q.obj \in Row
  PROVE  Answer(q, a) \in ReqState /\ Control(Answer(q, a))
<1> DEFINE w == [q EXCEPT !.resps = Append(q.resps, a)]
<1>1. w \in ReqState
  <2>1. Append(q.resps, a) \in Seq(Answers)
    <3>1. q.resps \in Seq(Answers)
      BY DEF ReqState
    <3> QED
      BY <3>1
  <2> QED
    BY <2>1 DEF ReqState
<1>2. /\ w.pc = q.pc /\ w.job = q.job /\ w.i = q.i /\ w.obj = q.obj
      /\ w.isNew = q.isNew /\ w.status = q.status
  BY DEF ReqState
<1>3. Control(w)
  BY <1>2 DEF Control
<1>4. CASE q.isNew /\ a \notin ObjectErrors
  <2>1. Answer(q, a) = Goto(w, "claim")
    BY <1>4 DEF Answer
  <2>2. q.job.op = "batchUpload"
    BY <1>4 DEF Control, IsUpload, BatchOps
  <2> HIDE DEF w
  <2> DEFINE v == [w EXCEPT !.pc = "claim"]
  <2>3. /\ v \in ReqState
        /\ v.pc = "claim" /\ v.job = w.job /\ v.i = w.i /\ v.obj = w.obj
        /\ v.isNew = w.isNew /\ v.status = w.status
    BY <1>1 DEF ReqState, Pcs
  <2> HIDE DEF v
  <2>4. Control(v)
    BY <1>2, <1>3, <1>4, <2>2, <2>3 DEF Control
  <2> QED
    BY <2>1, <2>3, <2>4 DEF Goto, v
<1>5. CASE ~ (q.isNew /\ a \notin ObjectErrors)
  <2>1. Answer(q, a) = NextItem(w)
    BY <1>5 DEF Answer
  <2> QED
    BY <1>1, <1>2, <1>3, <2>1, NextItemControl
<1> QED
  BY <1>4, <1>5

-----------------------------------------------------------------------------
(* What is known of a request, through the steps on its record *)

(* The contents the two tables can have.                                   *)
Rows == [Oids -> Row \union {None}]
Owners == [Oids -> Repos \union {None}]

(* No policy is lost from one version of the policies table to the next.   *)
Keeps(old, new) == \A o \in Oids : old[o] # None => new[o] # None

(* The k-th object of an admissible request.                               *)
LEMMA NamedItem ==
  ASSUME NEW j \in Requests, Admissible(j), NEW k \in 1..Len(j.items)
  PROVE  j.items[k].oid \in Oids
BY AdmissibleItems

(* Other requests may only advance the tables, which keeps what a request  *)
(* knows true: the rows it read may be old, but not wrong.                 *)
LEMMA RequestStable ==
  ASSUME NEW q \in ReqState,
         NEW rows \in Rows, NEW rows2 \in Rows, Advances(rows, rows2),
         NEW owners \in Owners, NEW owners2 \in Owners, Keeps(owners, owners2),
         RequestInv(q, rows, owners)
  PROVE  RequestInv(q, rows2, owners2)
<1>1. Control(q) /\ Answered(q)
  BY DEF RequestInv
<1>2. InHand(q, rows2)
  <2>1. CASE q.pc \in {"idle", "done"}
    BY <2>1 DEF InHand
  <2>2. CASE q.pc \notin {"idle", "done"}
    <3>1. Oid(q) \in Oids
      BY <1>1, <2>2, ServedItem
    <3>2. InHand(q, rows)
      BY DEF RequestInv
    <3> QED
      BY <3>1, <3>2 DEF InHand, Advances
  <2> QED
    BY <2>1, <2>2
<1>3. AuthorizedStill(q, owners2)
  <2>1. CASE q.pc \in {"idle", "done"}
    BY <2>1 DEF AuthorizedStill
  <2>2. CASE q.pc \notin {"idle", "done"}
    <3>1. Oid(q) \in Oids
      BY <1>1, <2>2, ServedItem
    <3>2. AuthorizedStill(q, owners)
      BY DEF RequestInv
    <3> QED
      BY <3>1, <3>2 DEF AuthorizedStill, Keeps
  <2> QED
    BY <2>1, <2>2
<1>4. ASSUME q.job # None, q.job.op \in BatchOps
      PROVE  AnswersHold(q, rows2, owners2) /\ Owned(q, owners2)
  <2> SUFFICES ASSUME NEW k \in 1..Len(q.resps)
               PROVE  /\ AnswerHolds(q.resps[k], q.job.items[k],
                                     rows2[q.job.items[k].oid],
                                     owners2[q.job.items[k].oid])
                      /\ owners[q.job.items[k].oid] # None =>
                           owners2[q.job.items[k].oid] # None
    BY <1>4 DEF AnswersHold, Owned, RequestInv
  <2>1. q.job.items[k].oid \in Oids
    <3>1. q.resps # <<>> /\ Len(q.resps) \in Nat
      BY DEF ReqState
    <3>2. q.job \in Requests /\ Admissible(q.job)
      BY <1>1, <1>4, <3>1 DEF Control, Answered, Idle
    <3>3. Len(q.job.items) \in Nat
      BY <3>2, RequestsAssumption DEF RequestType
    <3>4. k \in 1..Len(q.job.items)
      BY <1>1, <1>4, <3>1, <3>3 DEF Answered
    <3> QED
      BY <3>2, <3>4, NamedItem
  <2>2. AnswerHolds(q.resps[k], q.job.items[k], rows[q.job.items[k].oid],
                    owners[q.job.items[k].oid])
    BY <1>4 DEF RequestInv, AnswersHold
  <2> QED
    BY <2>1, <2>2 DEF AnswerHolds, Advances, Keeps
<1> QED
  BY <1>1, <1>2, <1>3, <1>4 DEF RequestInv, Owned, Served, BatchOps

(* A request that is still being served has sent nothing.                  *)
LEMMA RunningServed ==
  ASSUME NEW q, Control(q), q.pc \notin {"idle", "done"}
  PROVE  Served(q)
BY DEF Control, Served

(* A request may be answered as a whole at any step; a batch only answers  *)
(* 200 through NextItem.                                                   *)
LEMMA FinishInv ==
  ASSUME NEW q \in ReqState, NEW rows \in Rows, NEW owners \in Owners,
         RequestInv(q, rows, owners), q.pc \notin {"idle", "done"},
         NEW s \in Statuses \ {"none"}, q.job.op \in BatchOps => s # "ok",
         q.job.op = "proxyDownload" => s \notin {"ok", "cutOff"}
  PROVE  Finish(q, s) \in ReqState /\ RequestInv(Finish(q, s), rows, owners)
<1> DEFINE f == Finish(q, s)
<1>1. f \in ReqState /\ Control(f)
  BY FinishControl DEF RequestInv
<1>2. /\ f.pc = "done" /\ f.job = q.job /\ f.resps = q.resps
      /\ f.status = s /\ f.sent = q.sent /\ f.obj = q.obj
  BY DEF Finish, ReqState
<1> HIDE DEF f
<1>3. InHand(f, rows) /\ AuthorizedStill(f, owners)
  BY <1>2 DEF InHand, AuthorizedStill
<1>4. Answered(f) /\ Owned(f, owners)
  BY <1>2 DEF Answered, Owned, RequestInv, BatchOps
<1>5. f.job # None /\ f.job.op \in BatchOps => AnswersHold(f, rows, owners)
  BY <1>2 DEF AnswersHold, RequestInv
<1>6. Served(f)
  BY <1>2 DEF Served
<1>7. f \in ReqState /\ RequestInv(f, rows, owners)
  BY <1>1, <1>3, <1>4, <1>5, <1>6 DEF RequestInv
<1> QED
  BY <1>7 DEF f

(* The loop of a batch goes on once the object at hand is answered, and    *)
(* owned if it was accepted.                                               *)
LEMMA NextItemInv ==
  ASSUME NEW q \in ReqState, NEW rows \in Rows, NEW owners \in Owners,
         Control(q), q.pc \notin {"idle", "done"}, q.job.op \in BatchOps,
         Len(q.resps) = q.i,
         AnswersHold(q, rows, owners),
         q.job.op = "batchUpload" =>
           \A k \in 1..Len(q.resps) :
             q.resps[k] \notin ObjectErrors => owners[q.job.items[k].oid] # None
  PROVE  /\ NextItem(q) \in ReqState
         /\ RequestInv(NextItem(q), rows, owners)
<1> DEFINE n == NextItem(q)
<1>1. n \in ReqState /\ Control(n)
  BY NextItemControl
<1>2. q.i \in 1..Len(q.job.items) /\ Len(q.job.items) \in Nat
  BY ServedItem
<1>3. Admissible(q.job) /\ q.job \in Requests
  BY DEF Control
<1>4. /\ n.job = q.job /\ n.resps = q.resps
      /\ \/ n.pc = "authorize" /\ n.i = q.i + 1 /\ n.status = "none"
         \/ n.pc = "done" /\ n.status = "ok" /\ q.i = Len(q.job.items)
  <2>1. q.status = "none"
    BY DEF Control
  <2>2. CASE q.i < Len(q.job.items)
    BY <2>1, <2>2 DEF NextItem, ReqState
  <2>3. CASE ~ (q.i < Len(q.job.items))
    BY <1>2, <2>3 DEF NextItem, Finish, ReqState
  <2> QED
    BY <2>2, <2>3
<1> HIDE DEF n
<1>5. InHand(n, rows) /\ AuthorizedStill(n, owners)
  BY <1>4 DEF InHand, AuthorizedStill
<1>6. Answered(n)
  BY <1>2, <1>3, <1>4 DEF Answered
<1>7. Owned(n, owners)
  BY <1>4 DEF Owned
<1>8. AnswersHold(n, rows, owners)
  BY <1>4 DEF AnswersHold
<1>9. Served(n)
  BY <1>4 DEF Served, BatchOps
<1>10. n \in ReqState /\ RequestInv(n, rows, owners)
  BY <1>1, <1>5, <1>6, <1>7, <1>8, <1>9 DEF RequestInv
<1> QED
  BY <1>10 DEF n

(* A true answer may be given for the object at hand.                      *)
LEMMA AnswerStep ==
  ASSUME NEW q \in ReqState, NEW rows \in Rows, NEW owners \in Owners,
         RequestInv(q, rows, owners),
         q.pc \notin {"idle", "done", "authorize", "claim"},
         q.job.op \in BatchOps, NEW a \in Answers,
         a \notin ObjectErrors =>
           /\ q.obj \in Row
           /\ rows[Oid(q)] # None
           /\ rows[Oid(q)].size = q.obj.size,
         AnswerHolds(a, Item(q), rows[Oid(q)], owners[Oid(q)])
  PROVE  /\ Answer(q, a) \in ReqState
         /\ RequestInv(Answer(q, a), rows, owners)
<1> DEFINE w == [q EXCEPT !.resps = Append(q.resps, a)]
<1>0. Control(q) /\ Answered(q)
  BY DEF RequestInv
<1>1. q.resps \in Seq(Answers) /\ Append(q.resps, a) \in Seq(Answers)
  <2>1. q.resps \in Seq(Answers)
    BY DEF ReqState
  <2> QED
    BY <2>1
<1>2. /\ w \in ReqState
      /\ w.pc = q.pc /\ w.job = q.job /\ w.i = q.i /\ w.obj = q.obj
      /\ w.isNew = q.isNew /\ w.status = q.status /\ w.stream = q.stream
      /\ w.resps = Append(q.resps, a)
  BY <1>1 DEF ReqState
<1> HIDE DEF w
<1>3. Control(w)
  BY <1>0, <1>2 DEF Control
<1>4. /\ q.job \in Requests /\ q.i \in 1..Len(q.job.items)
      /\ Len(q.job.items) \in Nat /\ q.job # None /\ Admissible(q.job)
  BY <1>0, ServedItem, NoneAssumption DEF Control
<1>5. Len(q.resps) = q.i - 1
  BY <1>0, <1>4 DEF Answered
<1>6. /\ Len(w.resps) = q.i
      /\ w.resps[q.i] = a
      /\ \A k \in 1..(q.i - 1) : w.resps[k] = q.resps[k]
  BY <1>1, <1>2, <1>4, <1>5
<1>7. AnswersHold(w, rows, owners)
  <2> SUFFICES ASSUME NEW k \in 1..q.i
               PROVE  AnswerHolds(w.resps[k], q.job.items[k],
                                  rows[q.job.items[k].oid],
                                  owners[q.job.items[k].oid])
    BY <1>2, <1>6 DEF AnswersHold
  <2>1. CASE k = q.i
    BY <1>6, <2>1 DEF Item, Oid
  <2>2. CASE k # q.i
    <3>1. k \in 1..Len(q.resps) /\ w.resps[k] = q.resps[k]
      BY <1>4, <1>5, <1>6, <2>2
    <3>2. AnswersHold(q, rows, owners)
      BY <1>4 DEF RequestInv
    <3> QED
      BY <3>1, <3>2 DEF AnswersHold
  <2> QED
    BY <2>1, <2>2
<1>8. ASSUME q.job.op = "batchUpload", NEW k \in 1..(q.i - 1),
             w.resps[k] \notin ObjectErrors
      PROVE  owners[q.job.items[k].oid] # None
  <2>1. k \in 1..Len(q.resps) /\ q.resps[k] \notin ObjectErrors
    BY <1>5, <1>6, <1>8
  <2>2. Owned(q, owners)
    BY DEF RequestInv
  <2> QED
    BY <1>4, <1>8, <2>1, <2>2 DEF Owned
<1>9. CASE q.isNew /\ a \notin ObjectErrors
  <2> DEFINE v == Goto(w, "claim")
  <2>1. Answer(q, a) = v
    BY <1>9 DEF Answer, w
  <2>2. v \in ReqState /\ Control(v)
    BY <2>1, <1>0, AnswerControl
  <2>3. /\ v.pc = "claim" /\ v.job = q.job /\ v.i = q.i /\ v.obj = q.obj
        /\ v.isNew = q.isNew /\ v.status = q.status /\ v.resps = w.resps
    BY <1>2 DEF Goto, ReqState
  <2> HIDE DEF v
  <2>4. Oid(v) = Oid(q)
    BY <2>3 DEF Oid, Item
  <2>5. InHand(v, rows) /\ AuthorizedStill(v, owners)
    BY <1>9, <2>3, <2>4 DEF InHand, AuthorizedStill
  <2>6. q.status = "none"
    BY <1>0 DEF Control
  <2>7. Answered(v)
    BY <1>4, <1>6, <1>9, <2>3, <2>6 DEF Answered
  <2>8. AnswersHold(v, rows, owners)
    BY <1>7, <1>2, <2>3 DEF AnswersHold
  <2>9. Owned(v, owners)
    BY <1>4, <1>6, <1>8, <2>3 DEF Owned
  <2> QED
    BY RunningServed, <2>1, <2>2, <2>3, <2>5, <2>7, <2>8, <2>9 DEF RequestInv
<1>10. CASE ~ (q.isNew /\ a \notin ObjectErrors)
  <2>1. Answer(q, a) = NextItem(w)
    BY <1>10 DEF Answer, w
  <2>2. ASSUME q.job.op = "batchUpload", NEW k \in 1..Len(w.resps),
               w.resps[k] \notin ObjectErrors
        PROVE  owners[q.job.items[k].oid] # None
    <3>1. CASE k = q.i
      <4>1. ~ q.isNew
        BY <1>6, <1>10, <2>2, <3>1
      <4>2. AuthorizedStill(q, owners)
        BY DEF RequestInv
      <4> QED
        BY <3>1, <4>1, <4>2 DEF AuthorizedStill, Oid, Item
    <3>2. CASE k # q.i
      <4>1. k \in 1..(q.i - 1)
        BY <1>4, <1>6, <2>2, <3>2
      <4> QED
        BY <1>8, <2>2, <4>1
    <3> QED
      BY <3>1, <3>2
  <2> QED
    BY <1>2, <1>3, <1>6, <1>7, <2>1, <2>2, NextItemInv
<1> QED
  BY <1>9, <1>10

(* Every use case goes on correctly with an object that agrees with its    *)
(* row, however old the row that was read.                                 *)
LEMMA FoundStep ==
  ASSUME NEW q \in ReqState, NEW rows \in Rows, NEW owners \in Owners,
         RequestInv(q, rows, owners), q.pc \in {"find", "fill"},
         q.obj \in Row,
         rows[Oid(q)] # None,
         rows[Oid(q)].size = q.obj.size,
         q.obj.uploaded => rows[Oid(q)].uploaded
  PROVE  /\ Found(q) \in ReqState
         /\ RequestInv(Found(q), rows, owners)
<1>1. Control(q) /\ q.job # None /\ q.job \in Requests
  BY NoneAssumption DEF RequestInv, Control
<1>2. q.job.op \in Ops /\ Item(q).size \in Nat /\ Oid(q) \in Oids
  BY <1>1, ServedItem
<1>3. rows[Oid(q)] \in Row
  BY <1>2 DEF Rows
<1>4. CASE q.job.op = "batchUpload"
  <2> DEFINE a == UploadAnswer(q)
  <2>1. Found(q) = Answer(q, a)
    BY <1>4 DEF Found
  <2>2. a \in Answers /\ AnswerHolds(a, Item(q), rows[Oid(q)], owners[Oid(q)])
    BY DEF Answers, AnswerHolds, ObjectErrors, UploadAnswer
  <2> HIDE DEF a
  <2> QED
    BY <1>4, <2>1, <2>2, AnswerStep DEF BatchOps
<1>5. CASE q.job.op = "batchDownload"
  <2> DEFINE a == IF q.obj.uploaded THEN "download" ELSE "missing"
  <2>1. Found(q) = Answer(q, a)
    BY <1>5 DEF Found, DownloadAnswer
  <2>2. owners[Oid(q)] # None
    <3>1. AuthorizedStill(q, owners) /\ ~ q.isNew
      BY <1>1, <1>5 DEF RequestInv, Control, IsUpload
    <3> QED
      BY <1>5, <3>1 DEF AuthorizedStill, BatchOps
  <2>3. a \in Answers /\ AnswerHolds(a, Item(q), rows[Oid(q)], owners[Oid(q)])
    BY <2>2 DEF Answers, AnswerHolds, ObjectErrors
  <2> HIDE DEF a
  <2> QED
    BY <1>5, <2>1, <2>3, AnswerStep DEF BatchOps
<1>6. CASE q.job.op = "proxyUpload"
  <2> DEFINE g == Goto(q, "put")
  <2>1. Found(q) = g
    BY <1>6 DEF Found, ProxyUpload
  <2>2. /\ g \in ReqState
        /\ g.pc = "put" /\ g.job = q.job /\ g.i = q.i /\ g.obj = q.obj
        /\ g.isNew = q.isNew /\ g.status = q.status
    BY DEF Goto, ReqState, Pcs
  <2> HIDE DEF g
  <2>3. Control(g)
    BY <1>1, <1>6, <2>2 DEF Control
  <2>4. InHand(g, rows)
    BY <2>2 DEF InHand, Oid, Item
  <2>5. RequestInv(g, rows, owners)
    BY <1>6, <2>2, <2>3, <2>4 DEF RequestInv, AuthorizedStill, Answered, Owned, Served, BatchOps
  <2> QED
    BY <2>1, <2>2, <2>5
<1>7. CASE q.job.op = "proxyDownload"
  <2>1. CASE ~ q.obj.uploaded
    <3>1. Found(q) = Finish(q, "notUploaded")
      BY <1>7, <2>1 DEF Found, ProxyDownload
    <3> QED
      BY <3>1, FinishInv DEF Statuses
  <2>2. CASE q.obj.uploaded
    <3> DEFINE g == Goto(q, "get")
    <3>1. Found(q) = g
      BY <1>7, <2>2 DEF Found, ProxyDownload
    <3>2. /\ g \in ReqState
          /\ g.pc = "get" /\ g.job = q.job /\ g.i = q.i /\ g.obj = q.obj
          /\ g.isNew = q.isNew /\ g.status = q.status
      BY DEF Goto, ReqState, Pcs
    <3> HIDE DEF g
    <3>3. Control(g)
      BY <1>1, <1>7, <2>2, <3>2 DEF Control
    <3>4. InHand(g, rows)
      BY <3>2 DEF InHand, Oid, Item
    <3>5. RequestInv(g, rows, owners)
      BY RunningServed, <1>7, <3>2, <3>3, <3>4 DEF RequestInv, AuthorizedStill, Answered, Owned, BatchOps
    <3> QED
      BY <3>1, <3>2, <3>5
  <2> QED
    BY <2>1, <2>2
<1>8. CASE q.job.op = "verify"
  <2>1. CASE q.obj.size # Item(q).size
    <3>1. Found(q) = Finish(q, "mismatch")
      BY <1>8, <2>1 DEF Found, VerifyUpload
    <3> QED
      BY <1>8, <3>1, FinishInv DEF Statuses, BatchOps
  <2>2. CASE q.obj.size = Item(q).size
    <3> DEFINE g == Goto(MarkAsUploaded(q), "update")
    <3>1. Found(q) = g
      BY <1>8, <2>2 DEF Found, VerifyUpload
    <3>2. /\ g \in ReqState
          /\ g.pc = "update" /\ g.job = q.job /\ g.i = q.i
          /\ g.obj \in Row /\ g.obj.size = q.obj.size /\ g.obj.uploaded
          /\ g.isNew = q.isNew /\ g.status = q.status
      BY DEF Goto, MarkAsUploaded, ReqState, Pcs, Row
    <3> HIDE DEF g
    <3>3. Control(g)
      BY <1>1, <1>8, <3>2 DEF Control
    <3>4. InHand(g, rows)
      BY <3>2 DEF InHand, Oid, Item
    <3>5. RequestInv(g, rows, owners)
      BY <1>8, <3>2, <3>3, <3>4 DEF RequestInv, AuthorizedStill, Answered, Owned, Served, BatchOps
    <3> QED
      BY <3>1, <3>2, <3>5
  <2> QED
    BY <2>1, <2>2
<1> QED
  BY <1>2, <1>4, <1>5, <1>6, <1>7, <1>8 DEF Ops, BatchOps, ProxyOps

(* So it does when there is no row,                                        *)
LEMMA NotFoundStep ==
  ASSUME NEW q \in ReqState, NEW rows \in Rows, NEW owners \in Owners,
         RequestInv(q, rows, owners), q.pc = "findDb"
  PROVE  /\ NotFound(q) \in ReqState
         /\ RequestInv(NotFound(q), rows, owners)
<1>1. Control(q) /\ q.job # None /\ q.job \in Requests
  BY NoneAssumption DEF RequestInv, Control
<1>2. q.job.op \in Ops /\ Item(q).size \in Nat /\ Oid(q) \in Oids
  BY <1>1, ServedItem
<1>3. CASE q.job.op = "batchUpload"
  <2> DEFINE g == [q EXCEPT !.pc = "insert", !.obj = NewObject(Item(q))]
  <2>1. NotFound(q) = g
    BY <1>3 DEF NotFound
  <2>2. /\ g \in ReqState
        /\ g.pc = "insert" /\ g.job = q.job /\ g.i = q.i
        /\ g.obj \in Row /\ ~ g.obj.uploaded
        /\ g.isNew = q.isNew /\ g.status = q.status /\ g.resps = q.resps
    BY <1>2 DEF NewObject, ReqState, Pcs, Row
  <2> HIDE DEF g
  <2>3. Control(g)
    BY <1>1, <1>3, <2>2 DEF Control
  <2>4. InHand(g, rows) /\ AuthorizedStill(g, owners)
    BY <2>2 DEF InHand, AuthorizedStill, Oid, Item, RequestInv
  <2>5. Answered(g) /\ Owned(g, owners)
    BY <2>2 DEF Answered, Owned, RequestInv
  <2>6. AnswersHold(g, rows, owners)
    BY <1>1, <1>3, <2>2 DEF AnswersHold, RequestInv, BatchOps
  <2> QED
    BY RunningServed, <2>1, <2>2, <2>3, <2>4, <2>5, <2>6 DEF RequestInv
<1>4. CASE q.job.op = "batchDownload"
  <2>1. NotFound(q) = Answer(q, "missing")
    BY <1>4 DEF NotFound
  <2>2. /\ "missing" \in Answers /\ "missing" \in ObjectErrors
        /\ AnswerHolds("missing", Item(q), rows[Oid(q)], owners[Oid(q)])
    BY DEF Answers, ObjectErrors, AnswerHolds
  <2> QED
    BY <1>4, <2>1, <2>2, AnswerStep DEF BatchOps
<1>5. CASE q.job.op \notin BatchOps
  <2>1. NotFound(q) = Finish(q, "notFound")
    BY <1>5 DEF NotFound, BatchOps
  <2> QED
    BY <1>5, <2>1, FinishInv DEF Statuses
<1> QED
  BY <1>3, <1>4, <1>5 DEF BatchOps

(* and when the lookup or the insertion of the row fails.                  *)
LEMMA MetadataErrorStep ==
  ASSUME NEW q \in ReqState, NEW rows \in Rows, NEW owners \in Owners,
         RequestInv(q, rows, owners), q.pc \in {"findDb", "insert"}
  PROVE  /\ MetadataError(q) \in ReqState
         /\ RequestInv(MetadataError(q), rows, owners)
<1>1. CASE q.job.op \in BatchOps
  <2>1. MetadataError(q) = Answer(q, "error")
    BY <1>1 DEF MetadataError
  <2>2. /\ "error" \in Answers /\ "error" \in ObjectErrors
        /\ AnswerHolds("error", Item(q), rows[Oid(q)], owners[Oid(q)])
    BY DEF Answers, ObjectErrors, AnswerHolds
  <2> QED
    BY <1>1, <2>1, <2>2, AnswerStep
<1>2. CASE q.job.op \notin BatchOps
  BY <1>2, FinishInv DEF MetadataError, Statuses
<1> QED
  BY <1>1, <1>2

(* Authorization lets a batch go on with a new or an owned object.         *)
LEMMA AuthorizeStep ==
  ASSUME NEW q \in ReqState, NEW rows \in Rows, NEW owners \in Owners,
         RequestInv(q, rows, owners), q.pc = "authorize"
  PROVE  LET a == AuthorizeResult(q, owners[Oid(q)])
         IN  a \in ReqState /\ RequestInv(a, rows, owners)
<1> DEFINE a == AuthorizeResult(q, owners[Oid(q)])
<1>1. Control(q) /\ Answered(q) /\ q.job \in Requests /\ q.job # None
  BY NoneAssumption DEF RequestInv, Control
<1>2. CASE a = Finish(q, "denied")
  BY <1>2, FinishInv DEF Statuses
<1>3. CASE a # Finish(q, "denied")
  <2>1. \/ /\ owners[Oid(q)] = None /\ IsUpload(q.job)
           /\ a = [q EXCEPT !.pc = "find", !.isNew = TRUE]
        \/ /\ owners[Oid(q)] # None
           /\ a = [q EXCEPT !.pc = "find"]
    BY <1>3 DEF AuthorizeResult, Goto
  <2>2. /\ a \in ReqState
        /\ a.pc = "find" /\ a.job = q.job /\ a.i = q.i /\ a.resps = q.resps
        /\ a.status = q.status
        /\ a.isNew => q.isNew \/ IsUpload(q.job)
        /\ ~ a.isNew => owners[Oid(q)] # None
    BY <2>1 DEF ReqState, Pcs
  <2> HIDE DEF a
  <2>3. Control(a)
    BY <1>1, <2>2 DEF Control
  <2>4. InHand(a, rows) /\ AuthorizedStill(a, owners)
    BY <2>2 DEF InHand, AuthorizedStill, Oid, Item
  <2>5. Answered(a) /\ Owned(a, owners)
    BY <1>1, <2>2 DEF Answered, Owned, RequestInv
  <2>6. a.job.op \in BatchOps => AnswersHold(a, rows, owners)
    BY <1>1, <2>2 DEF AnswersHold, RequestInv
  <2> QED
    BY RunningServed, <2>2, <2>3, <2>4, <2>5, <2>6 DEF RequestInv, a
<1> QED
  BY <1>2, <1>3

-----------------------------------------------------------------------------
(* The actions *)

(* What a request in flight knows.                                         *)
LEMMA InFlight ==
  ASSUME IInv, NEW r \in Slots
  PROVE  /\ req[r] \in ReqState
         /\ objects \in Rows /\ cache \in Rows /\ policies \in Owners
         /\ storage \in [Oids -> Nat \union {None}]
         /\ RequestInv(req[r], objects, policies)
         /\ req[r].pc \notin {"idle", "done"} =>
              /\ Oid(req[r]) \in Oids
              /\ Item(req[r]).size \in Nat
              /\ req[r].job.repo \in Repos
              /\ req[r].job \in Requests
<1>1. /\ req[r] \in ReqState
      /\ objects \in Rows /\ cache \in Rows /\ policies \in Owners
      /\ storage \in [Oids -> Nat \union {None}]
      /\ RequestInv(req[r], objects, policies)
  BY DEF IInv, TypeOK, Rows, Owners
<1>2. Control(req[r])
  BY <1>1 DEF RequestInv
<1> QED
  BY <1>1, <1>2, ServedItem

(* A step of one request that only advances the tables, and leaves the     *)
(* request in a known state, preserves the invariant: RequestStable covers *)
(* the others.                                                             *)
LEMMA RequestMoves ==
  ASSUME IInv, NEW r \in Slots, NEW Q \in ReqState, Become(r, Q),
         objects' \in Rows, cache' \in Rows, policies' \in Owners,
         storage' \in [Oids -> Nat \union {None}],
         Advances(objects, objects'), Keeps(policies, policies'),
         RequestInv(Q, objects', policies'),
         CacheNeverAhead', StoredAsRegistered', PoliciesHaveRows'
  PROVE  IInv'
<1>1. /\ req' \in [Slots -> ReqState]
      /\ req'[r] = Q
      /\ \A s \in Slots \ {r} : req'[s] = req[s]
  BY DEF IInv, TypeOK, Become
<1>2. TypeOK'
  BY <1>1 DEF TypeOK, Rows, Owners
<1>3. ASSUME NEW s \in Slots
      PROVE  RequestInv(req'[s], objects', policies')
  <2>1. CASE s = r
    BY <1>1, <2>1
  <2>2. CASE s # r
    <3>1. /\ req[s] \in ReqState /\ RequestInv(req[s], objects, policies)
          /\ objects \in Rows /\ policies \in Owners
      BY InFlight
    <3> QED
      BY <1>1, <2>2, <3>1, RequestStable
  <2> QED
    BY <2>1, <2>2
<1> QED
  BY <1>2, <1>3 DEF IInv

(* The case of a step that leaves the tables, the cache and the storage as *)
(* they are.                                                               *)
LEMMA RequestMovesAlone ==
  ASSUME IInv, NEW r \in Slots, NEW Q \in ReqState, Become(r, Q),
         RequestInv(Q, objects, policies),
         UNCHANGED <<objects, policies, cache, storage>>
  PROVE  IInv'
<1>1. Advances(objects, objects') /\ Keeps(policies, policies')
  BY DEF Advances, Keeps
<1>2. CacheNeverAhead' /\ StoredAsRegistered' /\ PoliciesHaveRows'
  BY DEF IInv, CacheNeverAhead, StoredAsRegistered, PoliciesHaveRows
<1>3. /\ objects' \in Rows /\ cache' \in Rows /\ policies' \in Owners
      /\ storage' \in [Oids -> Nat \union {None}]
  BY InFlight
<1>4. RequestInv(Q, objects', policies')
  OBVIOUS
<1> QED
  BY <1>1, <1>2, <1>3, <1>4, RequestMoves

(* An idle slot knows nothing.                                             *)
LEMMA IdleInv ==
  ASSUME NEW rows, NEW owners
  PROVE  Idle \in ReqState /\ RequestInv(Idle, rows, owners)
<1>1. /\ Idle.pc = "idle" /\ Idle.job = None /\ Idle.isNew = FALSE
      /\ Idle.resps = <<>>
  BY DEF Idle
<1>2. Idle \in ReqState
  BY DEF Idle, ReqState, Pcs, Statuses
<1> QED
  BY <1>1, <1>2 DEF RequestInv, Control, InHand, AuthorizedStill, Answered, Owned, Served

(* A request just received knows nothing about the tables yet.             *)
LEMMA ReceiveInv ==
  ASSUME IInv, NEW r \in Slots, Receive(r)
  PROVE  IInv'
<1>1. PICK j \in Requests :
        \/ Admissible(j) /\ Become(r, Accepted(j))
        \/ \E x \in {"invalid", "denied"} : Become(r, Rejected(j, x))
  BY DEF Receive
<1>2. j # None /\ j.items \in Seq([oid : Oids \union {BadOid}, size : Int])
  BY NoneAssumption, RequestsAssumption DEF RequestType
<1>3. Len(j.items) \in Nat
  BY <1>2
<1>4. /\ Idle \in ReqState
      /\ Idle.i = 0 /\ Idle.resps = <<>> /\ Idle.status = "none"
      /\ Idle.isNew = FALSE
  BY IdleInv DEF Idle
<1>5. CASE Admissible(j) /\ Become(r, Accepted(j))
  <2> DEFINE a == Accepted(j)
  <2>1. /\ a \in ReqState
        /\ a.pc = IF j.op = "verify" THEN "find" ELSE "authorize"
        /\ a.job = j /\ a.i = 1 /\ a.resps = <<>> /\ a.status = "none"
        /\ a.isNew = FALSE
    BY <1>4 DEF Accepted, ReqState, Pcs
  <2> HIDE DEF a
  <2>2. 1 \in 1..Len(j.items)
    BY <1>2, <1>3, <1>5, AdmissibleItems
  <2>3. Control(a)
    BY <1>5, <2>1, <2>2 DEF Control
  <2>4. InHand(a, objects) /\ AuthorizedStill(a, policies)
    BY <2>1 DEF InHand, AuthorizedStill, BatchOps
  <2>5. Answered(a) /\ Owned(a, policies) /\ AnswersHold(a, objects, policies)
    BY <1>3, <2>1 DEF Answered, Owned, AnswersHold
  <2>6. RequestInv(a, objects, policies)
    BY RunningServed, <2>1, <2>3, <2>4, <2>5 DEF RequestInv
  <2> QED
    BY <1>1, <1>5, <2>1, <2>6, RequestMovesAlone DEF Receive, a
<1>6. CASE \E x \in {"invalid", "denied"} : Become(r, Rejected(j, x))
  <2>1. PICK x \in {"invalid", "denied"} : Become(r, Rejected(j, x))
    BY <1>6
  <2> DEFINE a == Rejected(j, x)
  <2>2. /\ a \in ReqState
        /\ a.pc = "done" /\ a.job = j /\ a.resps = <<>>
        /\ a.status = x /\ a.isNew = FALSE
    BY <1>4 DEF Rejected, ReqState, Pcs, Statuses
  <2>3. Become(r, a)
    BY <2>1
  <2> HIDE DEF a
  <2>4. RequestInv(a, objects, policies)
    BY <1>3, <2>2 DEF RequestInv, Control, InHand, AuthorizedStill, Answered,
                      Owned, AnswersHold, Served
  <2> QED
    BY <2>2, <2>3, <2>4, RequestMovesAlone DEF Receive
<1> QED
  BY <1>1, <1>5, <1>6

(* A slot that becomes idle, answered or killed, knows nothing.            *)
LEMMA ReplyOrCrashInv ==
  ASSUME IInv, NEW r \in Slots, Reply(r) \/ Crash(r)
  PROVE  IInv'
BY IdleInv, RequestMovesAlone DEF Reply, Crash

(* The result of the policy lookup, or its failure.                        *)
LEMMA AuthorizeInv ==
  ASSUME IInv, NEW r \in Slots, Authorize(r)
  PROVE  IInv'
<1> DEFINE q == req[r]
<1>1. /\ q \in ReqState /\ objects \in Rows /\ policies \in Owners
      /\ RequestInv(q, objects, policies) /\ q.pc = "authorize"
      /\ UNCHANGED <<objects, policies, cache, storage>>
  BY InFlight DEF Authorize, At
<1>2. \/ Become(r, AuthorizeResult(q, policies[Oid(q)]))
      \/ Become(r, Finish(q, "failed"))
  BY DEF Authorize
<1> HIDE DEF q
<1>3. CASE Become(r, AuthorizeResult(q, policies[Oid(q)]))
  BY <1>1, <1>3, AuthorizeStep, RequestMovesAlone
<1>4. CASE Become(r, Finish(q, "failed"))
  <2>1. /\ Finish(q, "failed") \in ReqState
        /\ RequestInv(Finish(q, "failed"), objects, policies)
    BY <1>1, FinishInv DEF Statuses
  <2> QED
    BY <1>1, <1>4, <2>1, RequestMovesAlone
<1> QED
  BY <1>2, <1>3, <1>4

(* A cache hit gives an object that may lag behind its row.                *)
LEMMA FindCachedInv ==
  ASSUME IInv, NEW r \in Slots, FindCached(r)
  PROVE  IInv'
<1> DEFINE q == req[r]
           e == cache[Oid(q)]
<1>1. /\ q \in ReqState /\ objects \in Rows /\ policies \in Owners
      /\ RequestInv(q, objects, policies) /\ q.pc = "find"
      /\ UNCHANGED <<objects, policies, cache, storage>>
      /\ Oid(q) \in Oids /\ e \in Row \union {None}
  BY InFlight DEF FindCached, At, Rows
<1>2. \/ e # None /\ Become(r, Found([q EXCEPT !.obj = e]))
      \/ Become(r, Goto(q, "findDb"))
  BY DEF FindCached
<1>3. CASE e # None /\ Become(r, Found([q EXCEPT !.obj = e]))
  <2> DEFINE f == [q EXCEPT !.obj = e]
  <2>1. /\ objects[Oid(q)] # None /\ objects[Oid(q)].size = e.size
        /\ e.uploaded => objects[Oid(q)].uploaded
    BY <1>1, <1>3 DEF IInv, CacheNeverAhead
  <2> HIDE DEF q, e
  <2>2. /\ f \in ReqState /\ f.pc = "find" /\ f.job = q.job /\ f.i = q.i
        /\ f.obj = e /\ f.isNew = q.isNew /\ f.resps = q.resps
        /\ f.status = q.status
    BY <1>1 DEF ReqState
  <2> HIDE DEF f
  <2>3. Oid(f) = Oid(q) /\ Item(f) = Item(q)
    BY <2>2 DEF Oid, Item
  <2>4. Control(f)
    BY <1>1, <2>2 DEF Control, RequestInv
  <2>5. RequestInv(f, objects, policies)
    BY RunningServed, <1>1, <2>2, <2>3, <2>4 DEF RequestInv, InHand, AuthorizedStill,
       Answered, AnswersHold, Owned
  <2>6. Found(f) \in ReqState /\ RequestInv(Found(f), objects, policies)
    BY <1>1, <1>3, <2>1, <2>2, <2>3, <2>5, FoundStep
  <2> QED
    BY <1>1, <1>3, <2>6, RequestMovesAlone DEF f
<1>4. CASE Become(r, Goto(q, "findDb"))
  <2> DEFINE g == Goto(q, "findDb")
  <2> HIDE DEF q
  <2>1. /\ g \in ReqState /\ g.pc = "findDb" /\ g.job = q.job /\ g.i = q.i
        /\ g.obj = q.obj /\ g.isNew = q.isNew /\ g.resps = q.resps
        /\ g.status = q.status
    BY <1>1 DEF ReqState, Goto, Pcs
  <2> HIDE DEF g
  <2>2. Oid(g) = Oid(q)
    BY <2>1 DEF Oid, Item
  <2>3. Control(g)
    BY <1>1, <2>1 DEF Control, RequestInv
  <2>4. RequestInv(g, objects, policies)
    BY RunningServed, <1>1, <2>1, <2>2, <2>3 DEF RequestInv, InHand, AuthorizedStill,
       Answered, AnswersHold, Owned
  <2> QED
    BY <1>1, <1>4, <2>1, <2>4, RequestMovesAlone DEF g
<1> QED
  BY <1>2, <1>3, <1>4

(* The row is read, is missing or cannot be read.                          *)
LEMMA FindStoredInv ==
  ASSUME IInv, NEW r \in Slots, FindStored(r)
  PROVE  IInv'
<1> DEFINE q == req[r]
           row == objects[Oid(q)]
<1>1. /\ q \in ReqState /\ objects \in Rows /\ policies \in Owners
      /\ RequestInv(q, objects, policies) /\ q.pc = "findDb"
      /\ UNCHANGED <<objects, policies, cache, storage>>
      /\ Oid(q) \in Oids /\ row \in Row \union {None}
  BY InFlight DEF FindStored, At, Rows
<1>2. \/ row # None /\ Become(r, [q EXCEPT !.pc = "fill", !.obj = row])
      \/ Become(r, NotFound(q))
      \/ Become(r, MetadataError(q))
  BY DEF FindStored
<1> HIDE DEF q
<1>3. CASE row # None /\ Become(r, [q EXCEPT !.pc = "fill", !.obj = row])
  <2> DEFINE g == [q EXCEPT !.pc = "fill", !.obj = row]
  <2>1. /\ g \in ReqState /\ g.pc = "fill" /\ g.job = q.job /\ g.i = q.i
        /\ g.obj = row /\ g.isNew = q.isNew /\ g.resps = q.resps
        /\ g.status = q.status
    BY <1>1 DEF ReqState, Pcs
  <2> HIDE DEF g
  <2>2. Oid(g) = Oid(q)
    BY <2>1 DEF Oid, Item
  <2>3. Control(g)
    BY <1>1, <1>3, <2>1 DEF Control, RequestInv
  <2>4. RequestInv(g, objects, policies)
    BY RunningServed, <1>1, <1>3, <2>1, <2>2, <2>3 DEF RequestInv, InHand, AuthorizedStill,
       Answered, AnswersHold, Owned
  <2> QED
    BY <1>1, <1>3, <2>1, <2>4, RequestMovesAlone DEF g
<1>4. CASE Become(r, NotFound(q))
  BY <1>1, <1>4, NotFoundStep, RequestMovesAlone
<1>5. CASE Become(r, MetadataError(q))
  BY <1>1, <1>5, MetadataErrorStep, RequestMovesAlone
<1> QED
  BY <1>2, <1>3, <1>4, <1>5

(* A request that holds an object no newer than its row may put it into    *)
(* the cache and go on.                                                    *)
LEMMA CacheMetadataInv ==
  ASSUME IInv, NEW r \in Slots, NEW Q \in ReqState, Become(r, Q),
         RequestInv(Q, objects, policies),
         req[r].pc \in {"fill", "cacheSaved", "cacheUpdated"},
         CacheMetadata(req[r]),
         UNCHANGED <<objects, policies, storage>>
  PROVE  IInv'
<1> DEFINE q == req[r]
<1>1. /\ objects \in Rows /\ cache \in Rows /\ policies \in Owners
      /\ storage \in [Oids -> Nat \union {None}]
      /\ Oid(q) \in Oids
      /\ Control(q) /\ InHand(q, objects)
  BY InFlight DEF RequestInv
<1>2. /\ q.obj \in Row
      /\ objects[Oid(q)] # None /\ objects[Oid(q)].size = q.obj.size
      /\ q.obj.uploaded => objects[Oid(q)].uploaded
  BY <1>1 DEF Control, InHand
<1>3. cache' = [cache EXCEPT ![Oid(q)] = q.obj] \/ cache' = cache
  BY DEF CacheMetadata
<1> HIDE DEF q
<1>4. cache' \in Rows
  BY <1>1, <1>2, <1>3 DEF Rows
<1>5. CacheNeverAhead'
  BY <1>1, <1>2, <1>3 DEF IInv, CacheNeverAhead, Rows
<1>6. Advances(objects, objects') /\ Keeps(policies, policies')
  BY DEF Advances, Keeps
<1>7. StoredAsRegistered' /\ PoliciesHaveRows'
  BY DEF IInv, StoredAsRegistered, PoliciesHaveRows
<1>8. RequestInv(Q, objects', policies')
  OBVIOUS
<1> QED
  BY <1>1, <1>4, <1>5, <1>6, <1>7, <1>8, RequestMoves

(* The row read may meanwhile be older than the one stored, so that the    *)
(* cache lags, but it is never ahead.                                      *)
LEMMA FillCacheInv ==
  ASSUME IInv, NEW r \in Slots, FillCache(r)
  PROVE  IInv'
<1> DEFINE q == req[r]
<1>1. /\ q \in ReqState /\ objects \in Rows /\ policies \in Owners
      /\ RequestInv(q, objects, policies) /\ q.pc = "fill"
      /\ Control(q) /\ InHand(q, objects)
      /\ Become(r, Found(q))
  BY InFlight DEF FillCache, At, RequestInv
<1>2. Found(q) \in ReqState /\ RequestInv(Found(q), objects, policies)
  <2> HIDE DEF q
  <2> QED
    BY <1>1, FoundStep DEF Control, InHand
<1> QED
  BY <1>1, <1>2, CacheMetadataInv DEF FillCache

(* The row just inserted goes to the cache, and the client may upload.     *)
LEMMA CacheSavedInv ==
  ASSUME IInv, NEW r \in Slots, CacheSaved(r)
  PROVE  IInv'
<1> DEFINE q == req[r]
<1>1. /\ q \in ReqState /\ objects \in Rows /\ policies \in Owners
      /\ RequestInv(q, objects, policies) /\ q.pc = "cacheSaved"
      /\ Control(q) /\ InHand(q, objects)
      /\ Become(r, Answer(q, "upload"))
  BY InFlight DEF CacheSaved, At, RequestInv
<1>2. /\ Answer(q, "upload") \in ReqState
      /\ RequestInv(Answer(q, "upload"), objects, policies)
  <2> HIDE DEF q
  <2>1. /\ q.job.op \in BatchOps /\ q.obj \in Row
        /\ objects[Oid(q)] # None /\ objects[Oid(q)].size = q.obj.size
    BY <1>1 DEF Control, InHand, BatchOps
  <2>2. /\ "upload" \in Answers
        /\ AnswerHolds("upload", Item(q), objects[Oid(q)], policies[Oid(q)])
    BY <2>1 DEF Answers, AnswerHolds
  <2> QED
    BY <1>1, <2>1, <2>2, AnswerStep
<1> QED
  BY <1>1, <1>2, CacheMetadataInv DEF CacheSaved

(* The row just updated goes to the cache, and the request ends.           *)
LEMMA CacheUpdatedInv ==
  ASSUME IInv, NEW r \in Slots, CacheUpdated(r)
  PROVE  IInv'
<1> DEFINE q == req[r]
<1>1. /\ q \in ReqState /\ objects \in Rows /\ policies \in Owners
      /\ RequestInv(q, objects, policies) /\ q.pc = "cacheUpdated"
      /\ Control(q)
      /\ Become(r, Finish(q, "ok"))
  BY InFlight DEF CacheUpdated, At, RequestInv
<1>2. /\ Finish(q, "ok") \in ReqState
      /\ RequestInv(Finish(q, "ok"), objects, policies)
  <2> HIDE DEF q
  <2>1. q.job.op \notin BatchOps /\ q.job.op # "proxyDownload"
    BY <1>1 DEF Control, BatchOps
  <2> QED
    BY <1>1, <2>1, FinishInv DEF Statuses
<1> QED
  BY <1>1, <1>2, CacheMetadataInv DEF CacheUpdated

(* Only a missing row is inserted, so nothing that is known changes.       *)
LEMMA InsertInv ==
  ASSUME IInv, NEW r \in Slots, Insert(r)
  PROVE  IInv'
<1> DEFINE q == req[r]
           o == Oid(q)
           inserted == [objects EXCEPT ![o] = q.obj]
<1>1. /\ q \in ReqState /\ objects \in Rows /\ policies \in Owners
      /\ cache \in Rows /\ storage \in [Oids -> Nat \union {None}]
      /\ RequestInv(q, objects, policies) /\ q.pc = "insert" /\ o \in Oids
      /\ Control(q)
      /\ UNCHANGED <<policies, cache, storage>>
  BY InFlight DEF Insert, At, RequestInv
<1>2. \/ objects[o] = None /\ objects' = inserted
      \/ objects' = objects
  BY DEF Insert
<1>3. \/ /\ objects[o] = None /\ objects' = inserted
         /\ Become(r, Goto(q, "cacheSaved"))
      \/ Become(r, MetadataError(q))
  BY DEF Insert
<1>4. CacheNeverAhead /\ StoredAsRegistered /\ PoliciesHaveRows
  BY DEF IInv
<1> HIDE DEF q, o
<1>5. q.obj \in Row
  BY <1>1 DEF Control
<1>6. objects' \in Rows /\ Advances(objects, objects')
  BY <1>1, <1>2, <1>5 DEF Rows, Advances
<1>7. policies' \in Owners /\ Keeps(policies, policies')
  BY <1>1 DEF Keeps
<1>8. CacheNeverAhead' /\ StoredAsRegistered' /\ PoliciesHaveRows'
  BY <1>1, <1>2, <1>4, <1>5
     DEF CacheNeverAhead, StoredAsRegistered, PoliciesHaveRows, Rows
<1>9. RequestInv(q, objects', policies')
  BY <1>1, <1>6, <1>7, RequestStable
<1>10. CASE Become(r, MetadataError(q))
  <2>1. /\ MetadataError(q) \in ReqState
        /\ RequestInv(MetadataError(q), objects', policies')
    BY <1>1, <1>6, <1>7, <1>9, MetadataErrorStep
  <2> QED
    BY <1>1, <1>6, <1>7, <1>8, <1>10, <2>1, RequestMoves
<1>11. CASE /\ objects[o] = None /\ objects' = inserted
            /\ Become(r, Goto(q, "cacheSaved"))
  <2> DEFINE g == Goto(q, "cacheSaved")
  <2>1. /\ g \in ReqState /\ g.pc = "cacheSaved" /\ g.job = q.job /\ g.i = q.i
        /\ g.obj = q.obj /\ g.isNew = q.isNew /\ g.resps = q.resps
        /\ g.status = q.status
    BY <1>1 DEF ReqState, Goto, Pcs
  <2> HIDE DEF g
  <2>2. Oid(g) = o
    BY <2>1 DEF Oid, Item, o
  <2>3. Control(g)
    BY <1>1, <2>1 DEF Control
  <2>4. objects'[o] = q.obj /\ q.obj # None
    BY <1>1, <1>5, <1>11, NoneAssumption DEF Rows
  <2>5. InHand(g, objects')
    BY <2>1, <2>2, <2>4 DEF InHand
  <2>6. AuthorizedStill(g, policies')
    BY <1>1, <1>9, <2>1, <2>2 DEF AuthorizedStill, RequestInv, o
  <2>7. Answered(g) /\ Owned(g, policies')
    BY <1>1, <1>9, <2>1 DEF Answered, Owned, RequestInv
  <2>8. g.job # None /\ g.job.op \in BatchOps =>
          AnswersHold(g, objects', policies')
    BY <1>9, <2>1 DEF AnswersHold, RequestInv
  <2>9. RequestInv(g, objects', policies')
    BY RunningServed, <2>1, <2>3, <2>5, <2>6, <2>7, <2>8 DEF RequestInv
  <2> QED
    BY <1>1, <1>6, <1>7, <1>8, <1>11, <2>1, <2>9, RequestMoves DEF g
<1> QED
  BY <1>3, <1>10, <1>11

(* Update writes an object marked as uploaded over a row of the same size. *)
LEMMA UpdateInv ==
  ASSUME IInv, NEW r \in Slots, Update(r)
  PROVE  IInv'
<1> DEFINE q == req[r]
           o == Oid(q)
           updated == [objects EXCEPT ![o] = q.obj]
<1>1. /\ q \in ReqState /\ objects \in Rows /\ policies \in Owners
      /\ cache \in Rows /\ storage \in [Oids -> Nat \union {None}]
      /\ RequestInv(q, objects, policies) /\ q.pc = "update" /\ o \in Oids
      /\ Control(q) /\ InHand(q, objects)
      /\ UNCHANGED <<policies, cache, storage>>
  BY InFlight DEF Update, At, RequestInv
<1>2. objects' = updated \/ objects' = objects
  BY DEF Update
<1>3. \/ objects' = updated /\ Become(r, Goto(q, "cacheUpdated"))
      \/ Become(r, Finish(q, "failed"))
  BY DEF Update
<1>4. CacheNeverAhead /\ StoredAsRegistered /\ PoliciesHaveRows
  BY DEF IInv
<1>5. /\ q.obj \in Row /\ q.obj.uploaded /\ q.obj # None
      /\ objects[o] # None /\ objects[o].size = q.obj.size
      /\ q.job.op \in {"proxyUpload", "verify"}
  BY <1>1, NoneAssumption DEF Control, InHand
<1> HIDE DEF q, o
<1>6. objects' \in Rows /\ Advances(objects, objects')
  BY <1>1, <1>2, <1>5 DEF Rows, Advances
<1>7. policies' \in Owners /\ Keeps(policies, policies')
  BY <1>1 DEF Keeps
<1>8. CacheNeverAhead' /\ StoredAsRegistered' /\ PoliciesHaveRows'
  BY <1>1, <1>2, <1>4, <1>5
     DEF CacheNeverAhead, StoredAsRegistered, PoliciesHaveRows, Rows
<1>9. RequestInv(q, objects', policies')
  BY <1>1, <1>6, <1>7, RequestStable
<1>10. CASE Become(r, Finish(q, "failed"))
  <2>1. /\ Finish(q, "failed") \in ReqState
        /\ RequestInv(Finish(q, "failed"), objects', policies')
    BY <1>1, <1>6, <1>7, <1>9, FinishInv DEF Statuses
  <2> QED
    BY <1>1, <1>6, <1>7, <1>8, <1>10, <2>1, RequestMoves
<1>11. CASE objects' = updated /\ Become(r, Goto(q, "cacheUpdated"))
  <2> DEFINE g == Goto(q, "cacheUpdated")
  <2>1. /\ g \in ReqState /\ g.pc = "cacheUpdated" /\ g.job = q.job
        /\ g.i = q.i /\ g.obj = q.obj /\ g.isNew = q.isNew
        /\ g.status = q.status
    BY <1>1 DEF ReqState, Goto, Pcs
  <2> HIDE DEF g
  <2>2. Oid(g) = o
    BY <2>1 DEF Oid, Item, o
  <2>3. Control(g)
    BY <1>1, <2>1 DEF Control
  <2>4. objects'[o] = q.obj
    BY <1>1, <1>11 DEF Rows
  <2>5. InHand(g, objects')
    BY <1>5, <2>1, <2>2, <2>4 DEF InHand
  <2>6. RequestInv(g, objects', policies')
    BY <1>5, <2>1, <2>3, <2>5
       DEF RequestInv, AuthorizedStill, Answered, Owned, Served, BatchOps
  <2> QED
    BY <1>1, <1>6, <1>7, <1>8, <1>11, <2>1, <2>6, RequestMoves DEF g
<1> QED
  BY <1>3, <1>10, <1>11

(* Claim sets the policy of the object that was answered last.             *)
LEMMA ClaimInv ==
  ASSUME IInv, NEW r \in Slots, Claim(r)
  PROVE  IInv'
<1> DEFINE q == req[r]
           o == Oid(q)
           claimed == [policies EXCEPT ![o] = q.job.repo]
<1>1. /\ q \in ReqState /\ objects \in Rows /\ policies \in Owners
      /\ cache \in Rows /\ storage \in [Oids -> Nat \union {None}]
      /\ RequestInv(q, objects, policies) /\ q.pc = "claim" /\ o \in Oids
      /\ q.job.repo \in Repos /\ q.job \in Requests
      /\ Control(q) /\ InHand(q, objects) /\ Answered(q)
      /\ UNCHANGED <<objects, cache, storage>>
  BY InFlight DEF Claim, At, RequestInv
<1>2. policies' = claimed \/ policies' = policies
  BY DEF Claim
<1>3. \/ policies' = claimed /\ Become(r, NextItem(q))
      \/ Become(r, Finish(q, "failed"))
  BY DEF Claim
<1>4. CacheNeverAhead /\ StoredAsRegistered /\ PoliciesHaveRows
  BY DEF IInv
<1>5. objects[o] # None /\ q.job.op = "batchUpload" /\ q.job # None
  BY <1>1, NoneAssumption DEF Control, InHand
<1> HIDE DEF q, o
<1>6. policies' \in Owners /\ Keeps(policies, policies')
  BY <1>1, <1>2, NoneAssumption DEF Owners, Keeps
<1>7. objects' \in Rows /\ Advances(objects, objects')
  BY <1>1 DEF Advances
<1>8. CacheNeverAhead' /\ StoredAsRegistered'
  BY <1>1, <1>4 DEF CacheNeverAhead, StoredAsRegistered
<1>9. PoliciesHaveRows'
  BY <1>1, <1>2, <1>4, <1>5 DEF PoliciesHaveRows, Owners
<1>10. RequestInv(q, objects', policies')
  BY <1>1, <1>6, <1>7, RequestStable
<1>11. CASE Become(r, Finish(q, "failed"))
  <2>1. /\ Finish(q, "failed") \in ReqState
        /\ RequestInv(Finish(q, "failed"), objects', policies')
    BY <1>1, <1>6, <1>7, <1>10, FinishInv DEF Statuses
  <2> QED
    BY <1>1, <1>6, <1>7, <1>8, <1>9, <1>11, <2>1, RequestMoves
<1>12. CASE policies' = claimed /\ Become(r, NextItem(q))
  <2>1. Len(q.resps) = q.i /\ q.job.op \in BatchOps
    BY <1>1, <1>5 DEF Answered, BatchOps
  <2>2. AnswersHold(q, objects', policies') /\ Owned(q, policies')
    BY <1>5, <1>10, <2>1 DEF RequestInv
  <2>3. policies'[o] # None
    BY <1>1, <1>12, NoneAssumption DEF Owners
  <2>4. ASSUME NEW k \in 1..Len(q.resps), q.resps[k] \notin ObjectErrors
        PROVE  policies'[q.job.items[k].oid] # None
    <3>1. CASE k = q.i
      BY <2>3, <3>1 DEF o, Oid, Item
    <3>2. CASE k # q.i
      BY <1>1, <1>5, <2>2, <2>4, <3>2 DEF Owned
    <3> QED
      BY <3>1, <3>2
  <2>5. NextItem(q) \in ReqState /\ RequestInv(NextItem(q), objects', policies')
    BY <1>1, <1>6, <1>7, <2>1, <2>2, <2>4, NextItemInv
  <2> QED
    BY <1>1, <1>6, <1>7, <1>8, <1>9, <1>12, <2>5, RequestMoves
<1> QED
  BY <1>3, <1>11, <1>12

(* Whatever body is sent, only content of the row's size is stored.        *)
LEMMA PutInv ==
  ASSUME IInv, NEW r \in Slots, Put(r)
  PROVE  IInv'
<1> DEFINE q == req[r]
           o == Oid(q)
           stored == [storage EXCEPT ![o] = q.obj.size]
<1>1. /\ q \in ReqState /\ objects \in Rows /\ policies \in Owners
      /\ cache \in Rows /\ storage \in [Oids -> Nat \union {None}]
      /\ RequestInv(q, objects, policies) /\ q.pc = "put" /\ o \in Oids
      /\ Control(q) /\ InHand(q, objects)
      /\ UNCHANGED <<objects, policies, cache>>
  BY InFlight DEF Put, At, RequestInv
<1>2. storage' = stored \/ storage' = storage
  BY DEF Put
<1>3. \/ Become(r, Goto(MarkAsUploaded(q), "update"))
      \/ Become(r, Finish(q, "storageError"))
  BY DEF Put
<1>4. CacheNeverAhead /\ StoredAsRegistered /\ PoliciesHaveRows
  BY DEF IInv
<1>5. /\ q.obj \in Row /\ q.obj.size \in Nat
      /\ objects[o] # None /\ objects[o].size = q.obj.size
      /\ q.job.op = "proxyUpload"
  BY <1>1 DEF Control, InHand, Row
<1> HIDE DEF q, o
<1>6. storage' \in [Oids -> Nat \union {None}]
  BY <1>1, <1>2, <1>5
<1>7. Advances(objects, objects') /\ Keeps(policies, policies')
  BY <1>1 DEF Advances, Keeps
<1>8. CacheNeverAhead' /\ PoliciesHaveRows'
  BY <1>1, <1>4 DEF CacheNeverAhead, PoliciesHaveRows
<1>9. StoredAsRegistered'
  BY <1>1, <1>2, <1>4, <1>5 DEF StoredAsRegistered
<1>10. ASSUME NEW Q \in ReqState, RequestInv(Q, objects, policies), Become(r, Q)
       PROVE  IInv'
  <2>1. RequestInv(Q, objects', policies')
    BY <1>1, <1>10
  <2> QED
    BY <1>1, <1>6, <1>7, <1>8, <1>9, <1>10, <2>1, RequestMoves
<1>11. CASE Become(r, Finish(q, "storageError"))
  <2>1. /\ Finish(q, "storageError") \in ReqState
        /\ RequestInv(Finish(q, "storageError"), objects, policies)
    BY <1>1, FinishInv DEF Statuses
  <2> QED
    BY <1>10, <1>11, <2>1
<1>12. CASE Become(r, Goto(MarkAsUploaded(q), "update"))
  <2> DEFINE g == Goto(MarkAsUploaded(q), "update")
  <2>1. /\ g \in ReqState /\ g.pc = "update" /\ g.job = q.job /\ g.i = q.i
        /\ g.obj \in Row /\ g.obj.size = q.obj.size /\ g.obj.uploaded
        /\ g.isNew = q.isNew /\ g.status = q.status
    BY <1>1, <1>5 DEF Goto, MarkAsUploaded, ReqState, Pcs, Row
  <2> HIDE DEF g
  <2>2. Oid(g) = o
    BY <2>1 DEF Oid, Item, o
  <2>3. Control(g)
    BY <1>1, <1>5, <2>1 DEF Control
  <2>4. InHand(g, objects)
    BY <1>5, <2>1, <2>2 DEF InHand
  <2>5. RequestInv(g, objects, policies)
    BY <1>5, <2>1, <2>3, <2>4
       DEF RequestInv, AuthorizedStill, Answered, Owned, Served, BatchOps
  <2> QED
    BY <1>10, <1>12, <2>1, <2>5 DEF g
<1> QED
  BY <1>3, <1>11, <1>12

(* The stream that is opened is as long as the object in hand says.        *)
LEMMA GetInv ==
  ASSUME IInv, NEW r \in Slots, Get(r)
  PROVE  IInv'
<1> DEFINE q == req[r]
           o == Oid(q)
<1>1. /\ q \in ReqState /\ objects \in Rows /\ policies \in Owners
      /\ storage \in [Oids -> Nat \union {None}]
      /\ RequestInv(q, objects, policies) /\ q.pc = "get" /\ o \in Oids
      /\ Control(q) /\ InHand(q, objects)
      /\ UNCHANGED <<objects, policies, cache, storage>>
  BY InFlight DEF Get, At, RequestInv
<1>2. \/ storage[o] # None /\ Become(r, Opened(q, storage[o]))
      \/ Become(r, Finish(q, "storageError"))
  BY DEF Get
<1>3. storage[o] # None => storage[o] = objects[o].size
  BY <1>1 DEF IInv, StoredAsRegistered
<1> HIDE DEF q, o
<1>4. CASE Become(r, Finish(q, "storageError"))
  <2>1. /\ Finish(q, "storageError") \in ReqState
        /\ RequestInv(Finish(q, "storageError"), objects, policies)
    BY <1>1, FinishInv DEF Statuses
  <2> QED
    BY <1>1, <1>4, <2>1, RequestMovesAlone
<1>5. CASE storage[o] # None /\ Become(r, Opened(q, storage[o]))
  <2> DEFINE g == Opened(q, storage[o])
  <2>1. /\ g \in ReqState /\ g.pc = "stream" /\ g.job = q.job /\ g.i = q.i
        /\ g.obj = q.obj /\ g.isNew = q.isNew /\ g.status = q.status
        /\ g.resps = q.resps /\ g.stream = storage[o]
    BY <1>1, <1>5 DEF Opened, ReqState, Pcs
  <2> HIDE DEF g
  <2>2. storage[o] = q.obj.size /\ q.obj \in Row /\ q.job.op = "proxyDownload"
    BY <1>1, <1>3, <1>5 DEF Control, InHand, o
  <2>3. Control(g)
    BY <1>1, <2>1, <2>2 DEF Control
  <2>4. RequestInv(g, objects, policies)
    BY RunningServed, <2>1, <2>2, <2>3
       DEF RequestInv, InHand, AuthorizedStill, Answered, Owned, BatchOps
  <2> QED
    BY <1>1, <1>5, <2>1, <2>4, RequestMovesAlone DEF g
<1> QED
  BY <1>2, <1>4, <1>5

(* The client gets the announced number of bytes exactly if it gets the    *)
(* whole stream.                                                           *)
LEMMA StreamInv ==
  ASSUME IInv, NEW r \in Slots, Stream(r)
  PROVE  IInv'
<1> DEFINE q == req[r]
<1>1. /\ q \in ReqState /\ RequestInv(q, objects, policies)
      /\ q.pc = "stream" /\ Control(q)
      /\ UNCHANGED <<objects, policies, cache, storage>>
  BY InFlight DEF Stream, At, RequestInv
<1>2. /\ q.job \in Requests /\ q.job.op = "proxyDownload" /\ q.obj \in Row
      /\ q.stream = q.obj.size /\ q.obj.size \in Nat
  BY <1>1 DEF Control, Row
<1>3. PICK n, s : /\ Become(r, Sent(q, n, s))
                  /\ n \in Nat /\ s \in {"ok", "cutOff"}
                  /\ s = "ok" => n = q.stream
  BY <1>2 DEF Stream
<1> HIDE DEF q
<1> DEFINE g == Sent(q, n, s)
<1>4. /\ g \in ReqState /\ g.pc = "done" /\ g.job = q.job /\ g.obj = q.obj
      /\ g.isNew = q.isNew /\ g.stream = q.stream /\ g.sent = n /\ g.status = s
  BY <1>1, <1>3 DEF Sent, ReqState, Pcs, Statuses
<1> HIDE DEF g
<1>5. Control(g)
  BY <1>1, <1>4 DEF Control
<1>6. Served(g)
  BY <1>2, <1>3, <1>4 DEF Served
<1>7. RequestInv(g, objects, policies)
  BY <1>2, <1>4, <1>5, <1>6
     DEF RequestInv, InHand, AuthorizedStill, Answered, Owned, BatchOps
<1> QED
  BY <1>1, <1>3, <1>4, <1>7, RequestMovesAlone DEF g

(* An entry that is gone contradicts nothing.                              *)
LEMMA ExpireInv ==
  ASSUME IInv, NEW o \in Oids, Expire(o)
  PROVE  IInv'
<1>1. TypeOK'
  BY DEF Expire, IInv, TypeOK
<1>2. CacheNeverAhead'
  BY DEF Expire, IInv, TypeOK, CacheNeverAhead
<1>3. StoredAsRegistered' /\ PoliciesHaveRows'
  BY DEF Expire, IInv, StoredAsRegistered, PoliciesHaveRows
<1>4. ASSUME NEW r \in Slots
      PROVE  RequestInv(req'[r], objects', policies')
  BY DEF Expire, IInv
<1> QED
  BY <1>1, <1>2, <1>3, <1>4 DEF IInv

-----------------------------------------------------------------------------
(* The invariant and what follows from it *)

(* The initial state satisfies the invariant.                              *)
LEMMA InitInv == Init => IInv
<1> SUFFICES ASSUME Init PROVE IInv
  OBVIOUS
<1>1. TypeOK
  BY IdleInv DEF Init, TypeOK
<1>2. CacheNeverAhead /\ StoredAsRegistered /\ PoliciesHaveRows
  BY DEF Init, CacheNeverAhead, StoredAsRegistered, PoliciesHaveRows
<1>3. ASSUME NEW r \in Slots
      PROVE  RequestInv(req[r], objects, policies)
  BY IdleInv DEF Init
<1> QED
  BY <1>1, <1>2, <1>3 DEF IInv

(* Every step preserves it.                                                *)
LEMMA NextInv == IInv /\ [Next]_vars => IInv'
<1> SUFFICES ASSUME IInv, [Next]_vars PROVE IInv'
  OBVIOUS
<1>1. ASSUME NEW r \in Slots, Step(r)
      PROVE  IInv'
  BY <1>1, AuthorizeInv, FindCachedInv, FindStoredInv, FillCacheInv, InsertInv,
     CacheSavedInv, ClaimInv, PutInv, UpdateInv, CacheUpdatedInv, GetInv,
     StreamInv, ReplyOrCrashInv DEF Step
<1>2. CASE UNCHANGED vars
  BY <1>2 DEF vars, IInv, TypeOK, CacheNeverAhead, StoredAsRegistered,
              PoliciesHaveRows
<1> QED
  BY <1>1, <1>2, ReceiveInv, ReplyOrCrashInv, ExpireInv DEF Next

(* The invariant holds in every reachable state.                           *)
THEOREM Invariance == Spec => []IInv
BY InitInv, NextInv, PTL DEF Spec

(* TypeOK: the tables, the cache, the storage and the requests keep their  *)
(* types.                                                                  *)
THEOREM TypeCorrect == Spec => []TypeOK
<1>1. IInv => TypeOK
  BY DEF IInv
<1> QED
  BY <1>1, Invariance, PTL

(* CacheNeverAhead: the metadata cache never shows more than the objects   *)
(* table.                                                                  *)
THEOREM CacheAgrees == Spec => []CacheNeverAhead
<1>1. IInv => CacheNeverAhead
  BY DEF IInv
<1> QED
  BY <1>1, Invariance, PTL

(* StoredAsRegistered: what is in storage has a row, and is as long as the *)
(* row says.                                                               *)
THEOREM StorageAgrees == Spec => []StoredAsRegistered
<1>1. IInv => StoredAsRegistered
  BY DEF IInv
<1> QED
  BY <1>1, Invariance, PTL

(* DownloadsComplete: the client of a download receives the announced      *)
(* number of bytes exactly if it receives the whole stored object, also    *)
(* when the copy is cut off at any byte after the 200.                     *)
THEOREM DownloadsAreComplete == Spec => []DownloadsComplete
<1>1. IInv => DownloadsComplete
  BY DEF IInv, RequestInv, DownloadsComplete
<1> QED
  BY <1>1, Invariance, PTL

(* WritesFindTheirRow: neither the foreign key of the policies nor Update  *)
(* ever misses the row.                                                    *)
THEOREM RowsAreThere == Spec => []WritesFindTheirRow
<1>1. IInv => WritesFindTheirRow
  BY DEF IInv, RequestInv, InHand, WritesFindTheirRow
<1> QED
  BY <1>1, Invariance, PTL

(* BatchAnswersHold: what a batch tells its client is still true when it   *)
(* ends.                                                                   *)
THEOREM AnswersAreTrue == Spec => []BatchAnswersHold
<1>1. IInv => BatchAnswersHold
  BY DEF IInv, RequestInv, BatchAnswersHold
<1> QED
  BY <1>1, Invariance, PTL

(* AcceptedObjectsAreOwned: the objects a successful batch upload accepted *)
(* belong to a repository.                                                 *)
THEOREM AcceptedAreOwned == Spec => []AcceptedObjectsAreOwned
<1>1. ASSUME IInv, NEW r \in Slots, req[r].job # None,
             req[r].job.op = "batchUpload", req[r].status = "ok",
             NEW k \in 1..Len(req[r].job.items),
             req[r].resps[k] \notin ObjectErrors
      PROVE  policies[req[r].job.items[k].oid] # None
  <2> DEFINE q == req[r]
  <2>1. Answered(q) /\ Owned(q, policies) /\ Control(q)
    BY <1>1 DEF IInv, RequestInv
  <2>2. Len(q.resps) = Len(q.job.items)
    BY <1>1, <2>1 DEF Answered, BatchOps
  <2>3. q.pc # "claim"
    BY <1>1, <2>1 DEF Control
  <2> QED
    BY <1>1, <2>1, <2>2, <2>3 DEF Owned
<1>2. IInv => AcceptedObjectsAreOwned
  BY <1>1 DEF AcceptedObjectsAreOwned
<1> QED
  BY <1>2, Invariance, PTL

-----------------------------------------------------------------------------
(* Refinement *)

(* Each step registers, stores, completes or assigns one object, or leaves *)
(* the tables and the storage alone.                                       *)
LEMMA TablesStep ==
  ASSUME IInv, [Next]_vars
  PROVE  [Registry!Next]_<<objects, policies, storage>>
<1>1. ASSUME NEW r \in Slots, Insert(r)
      PROVE  Registry!Next \/ UNCHANGED <<objects, policies, storage>>
  <2> DEFINE q == req[r]
  <2>1. /\ q.pc = "insert" /\ Control(q) /\ Oid(q) \in Oids
        /\ objects \in Rows
        /\ UNCHANGED <<policies, storage>>
    BY <1>1, InFlight DEF Insert, At, RequestInv
  <2>2. q.obj \in Row /\ ~ q.obj.uploaded
    BY <2>1 DEF Control
  <2>3. \/ objects[Oid(q)] = None /\ objects' = [objects EXCEPT ![Oid(q)] = q.obj]
        \/ objects' = objects
    BY <1>1 DEF Insert
  <2> HIDE DEF q
  <2>4. CASE objects[Oid(q)] = None /\ objects' = [objects EXCEPT ![Oid(q)] = q.obj]
    <3>1. objects'[Oid(q)] = q.obj
      BY <2>1, <2>4 DEF Rows
    <3>2. q.obj \in [size : Nat, uploaded : {FALSE}]
      BY <2>2 DEF Row
    <3>3. Registry!Register(Oid(q))
      BY <2>1, <2>4, <3>1, <3>2 DEF Registry!Register, Registry!Registered
    <3> QED
      BY <2>1, <3>3 DEF Registry!Next
  <2> QED
    BY <2>1, <2>3, <2>4
<1>2. ASSUME NEW r \in Slots, Update(r)
      PROVE  Registry!Next \/ UNCHANGED <<objects, policies, storage>>
  <2> DEFINE q == req[r]
  <2>1. /\ q.pc = "update" /\ Control(q) /\ Oid(q) \in Oids
        /\ InHand(q, objects)
        /\ UNCHANGED <<policies, storage>>
    BY <1>2, InFlight DEF Update, At, RequestInv
  <2>2. /\ q.obj \in Row /\ q.obj.uploaded
        /\ objects[Oid(q)] # None /\ objects[Oid(q)].size = q.obj.size
    BY <2>1 DEF Control, InHand
  <2>3. \/ objects' = [objects EXCEPT ![Oid(q)] = q.obj]
        \/ objects' = objects
    BY <1>2 DEF Update
  <2> HIDE DEF q
  <2>4. q.obj = [size |-> objects[Oid(q)].size, uploaded |-> TRUE]
    BY <2>2 DEF Row
  <2>5. CASE objects' = [objects EXCEPT ![Oid(q)] = q.obj]
    <3>1. Registry!Complete(Oid(q))
      BY <2>1, <2>2, <2>4, <2>5 DEF Registry!Complete, Registry!Registered
    <3> QED
      BY <2>1, <3>1 DEF Registry!Next
  <2> QED
    BY <2>1, <2>3, <2>5
<1>3. ASSUME NEW r \in Slots, Put(r)
      PROVE  Registry!Next \/ UNCHANGED <<objects, policies, storage>>
  <2> DEFINE q == req[r]
  <2>1. /\ q.pc = "put" /\ Oid(q) \in Oids /\ InHand(q, objects)
        /\ UNCHANGED <<objects, policies>>
    BY <1>3, InFlight DEF Put, At, RequestInv
  <2>2. objects[Oid(q)] # None /\ objects[Oid(q)].size = q.obj.size
    BY <2>1 DEF InHand
  <2>3. \/ storage' = [storage EXCEPT ![Oid(q)] = q.obj.size]
        \/ storage' = storage
    BY <1>3 DEF Put
  <2> HIDE DEF q
  <2>4. CASE storage' = [storage EXCEPT ![Oid(q)] = q.obj.size]
    <3>1. Registry!Store(Oid(q))
      BY <2>1, <2>2, <2>4 DEF Registry!Store, Registry!Registered
    <3> QED
      BY <2>1, <3>1 DEF Registry!Next
  <2> QED
    BY <2>1, <2>3, <2>4
<1>4. ASSUME NEW r \in Slots, Claim(r)
      PROVE  Registry!Next \/ UNCHANGED <<objects, policies, storage>>
  <2> DEFINE q == req[r]
  <2>1. /\ q.pc = "claim" /\ Oid(q) \in Oids /\ InHand(q, objects)
        /\ q.job.repo \in Repos
        /\ UNCHANGED <<objects, storage>>
    BY <1>4, InFlight DEF Claim, At, RequestInv
  <2>2. objects[Oid(q)] # None
    BY <2>1 DEF InHand
  <2>3. \/ policies' = [policies EXCEPT ![Oid(q)] = q.job.repo]
        \/ policies' = policies
    BY <1>4 DEF Claim
  <2> HIDE DEF q
  <2>4. CASE policies' = [policies EXCEPT ![Oid(q)] = q.job.repo]
    <3>1. Registry!Assign(Oid(q))
      BY <2>1, <2>2, <2>4 DEF Registry!Assign, Registry!Registered
    <3> QED
      BY <2>1, <3>1 DEF Registry!Next
  <2> QED
    BY <2>1, <2>3, <2>4
<1>5. ASSUME NEW r \in Slots,
             \/ Receive(r) \/ Crash(r) \/ Authorize(r) \/ FindCached(r)
             \/ FindStored(r) \/ FillCache(r) \/ CacheSaved(r)
             \/ CacheUpdated(r) \/ Get(r) \/ Stream(r) \/ Reply(r)
      PROVE  UNCHANGED <<objects, policies, storage>>
  BY <1>5 DEF Receive, Crash, Authorize, FindCached, FindStored, FillCache,
              CacheSaved, CacheUpdated, Get, Stream, Reply
<1>6. ASSUME NEW o \in Oids, Expire(o)
      PROVE  UNCHANGED <<objects, policies, storage>>
  BY <1>6 DEF Expire
<1>7. CASE UNCHANGED vars
  BY <1>7 DEF vars
<1> QED
  BY <1>1, <1>2, <1>3, <1>4, <1>5, <1>6, <1>7 DEF Next, Step

(* ImplementsRegistry: LfsServer implements ObjectRegistry.                *)
THEOREM Refinement == Spec => ImplementsRegistry
<1>1. Init => Registry!Init
  BY DEF Init, Registry!Init
<1>2. IInv /\ [Next]_vars => [Registry!Next]_<<objects, policies, storage>>
  BY TablesStep
<1> QED
  BY <1>1, <1>2, Invariance, PTL DEF Spec, ImplementsRegistry, Registry!Spec

(* Each step only advances the rows.                                       *)
LEMMA RowsStep ==
  ASSUME IInv, [Next]_vars
  PROVE  Advances(objects, objects') \/ UNCHANGED objects
<1>1. objects \in Rows
  BY DEF IInv, TypeOK, Rows
<1>2. \/ \E o \in Oids : Registry!Register(o) \/ Registry!Complete(o)
      \/ UNCHANGED objects
  BY TablesStep DEF Registry!Next, Registry!Store, Registry!Assign
<1>3. ASSUME NEW o \in Oids, Registry!Register(o)
      PROVE  Advances(objects, objects')
  BY <1>1, <1>3 DEF Registry!Register, Registry!Registered, Advances, Rows
<1>4. ASSUME NEW o \in Oids, Registry!Complete(o)
      PROVE  Advances(objects, objects')
  <2> DEFINE v == [size |-> objects[o].size, uploaded |-> TRUE]
  <2>1. v # None
    <3>1. v \in Row
      BY <1>1, <1>4 DEF Registry!Complete, Registry!Registered, Rows, Row
    <3> QED
      BY <3>1, NoneAssumption
  <2> QED
    BY <1>1, <1>4, <2>1
       DEF Registry!Complete, Registry!Registered, Advances, Rows
<1> QED
  BY <1>2, <1>3, <1>4

(* RowsOnlyAdvance: a row is never lost, keeps its size and stays uploaded.*)
THEOREM RowsAdvance == Spec => RowsOnlyAdvance
<1>1. IInv /\ [Next]_vars => [Advances(objects, objects')]_objects
  BY RowsStep
<1> QED
  BY <1>1, Invariance, PTL DEF Spec, RowsOnlyAdvance

-----------------------------------------------------------------------------
(* Uploaded objects are stored, if nobody calls verify *)

(* A request about to mark its object as uploaded has stored it.           *)
StoredFirst ==
  \A r \in Slots : At(r, "update") => storage[Oid(req[r])] # None

(* Of the steps on a request's record, only verify's leads to Update.      *)
LEMMA OnlyVerifySkipsStorage ==
  ASSUME NEW q \in ReqState, Control(q), q.pc \notin {"idle", "done"},
         q.job.op # "verify"
  PROVE  /\ \A a : Answer(q, a).pc # "update"
         /\ NextItem(q).pc # "update"
         /\ Found(q).pc # "update"
         /\ NotFound(q).pc # "update"
         /\ MetadataError(q).pc # "update"
         /\ \A p : AuthorizeResult(q, p).pc # "update"
<1>1. ASSUME NEW w \in ReqState
      PROVE  NextItem(w).pc # "update"
  BY DEF NextItem, Finish, ReqState
<1>2. ASSUME NEW a
      PROVE  Answer(q, a).pc # "update"
  <2> DEFINE w == [q EXCEPT !.resps = Append(q.resps, a)]
  <2>1. w.pc = q.pc /\ w.job = q.job /\ w.i = q.i
    BY DEF ReqState
  <2>2. [w EXCEPT !.pc = "claim"].pc = "claim"
    BY DEF ReqState
  <2>3. NextItem(w).pc \in {"authorize", "done"}
    BY DEF NextItem, Finish, ReqState
  <2> QED
    BY <2>2, <2>3 DEF Answer, Goto
<1>3. q.job.op \in Ops
  BY ServedItem
<1>4. Found(q).pc # "update"
  <2>1. Goto(q, "put").pc = "put" /\ Goto(q, "get").pc = "get"
    BY DEF Goto, ReqState
  <2>2. Finish(q, "notUploaded").pc = "done"
    BY DEF Finish, ReqState
  <2> QED
    BY <1>2, <1>3, <2>1, <2>2 DEF Found, ProxyUpload, ProxyDownload, Ops,
                                   BatchOps, ProxyOps
<1>5. NotFound(q).pc # "update" /\ MetadataError(q).pc # "update"
  BY <1>2 DEF NotFound, MetadataError, Finish, ReqState
<1>6. ASSUME NEW p
      PROVE  AuthorizeResult(q, p).pc # "update"
  BY DEF AuthorizeResult, Goto, Finish, ReqState
<1> QED
  BY <1>1, <1>2, <1>4, <1>5, <1>6

(* How a download ends.                                                    *)
LEMMA StreamEnds ==
  ASSUME NEW r \in Slots, Stream(r), req[r] \in ReqState
  PROVE  /\ req[r].pc = "stream"
         /\ \E Q : Become(r, Q) /\ Q.pc = "done"
<1>1. PICK n, s : Become(r, Sent(req[r], n, s))
  BY DEF Stream
<1>2. Sent(req[r], n, s).pc = "done"
  BY DEF Sent, ReqState
<1> QED
  BY <1>1, <1>2 DEF Stream, At

(* Without verify, StoredFirst and UploadedIsStored are preserved: storage *)
(* is written before the row, and nothing is removed from it.              *)
LEMMA StoredStep ==
  ASSUME \A j \in Requests : j.op # "verify",
         IInv, StoredFirst, UploadedIsStored, [Next]_vars
  PROVE  StoredFirst' /\ UploadedIsStored'
<1>1. /\ objects \in Rows /\ storage \in [Oids -> Nat \union {None}]
      /\ req \in [Slots -> ReqState]
  BY DEF IInv, TypeOK, Rows
<1>2. ASSUME NEW r \in Slots
      PROVE  /\ Control(req[r])
             /\ InHand(req[r], objects)
             /\ ~ At(r, "idle") /\ ~ At(r, "done") =>
                  Oid(req[r]) \in Oids /\ req[r].job.op # "verify"
  BY InFlight DEF RequestInv, At
<1>3. ASSUME NEW r \in Slots, NEW Q, Become(r, Q), Q.pc # "update",
             \A o \in Oids : storage[o] # None => storage'[o] # None
      PROVE  StoredFirst'
  <2> SUFFICES ASSUME NEW s \in Slots, req'[s].pc = "update"
               PROVE  storage'[Oid(req'[s])] # None
    BY DEF StoredFirst, At
  <2>1. s # r /\ req'[s] = req[s]
    BY <1>1, <1>3 DEF Become
  <2> QED
    BY <1>2, <1>3, <2>1 DEF StoredFirst, At
<1>4. ASSUME UNCHANGED <<objects, storage>>
      PROVE  UploadedIsStored'
  BY <1>4 DEF UploadedIsStored
<1>5. ASSUME NEW r \in Slots, Receive(r) \/ Reply(r) \/ Crash(r) \/ Stream(r)
      PROVE  StoredFirst' /\ UploadedIsStored'
  <2>1. PICK Q : Become(r, Q) /\ Q.pc # "update"
    <3>1. ASSUME NEW j \in Requests
          PROVE  /\ Accepted(j).pc # "update"
                 /\ \A x : Rejected(j, x).pc # "update"
      BY DEF Accepted, Rejected, Idle
    <3>2. Idle.pc # "update"
      BY DEF Idle
    <3> QED
      BY <1>1, <1>5, <3>1, <3>2, StreamEnds DEF Receive, Reply, Crash
  <2>2. UNCHANGED <<objects, storage>>
    BY <1>5 DEF Receive, Reply, Crash, Stream
  <2> QED
    BY <1>3, <1>4, <2>1, <2>2
<1>6. ASSUME NEW r \in Slots,
             \/ Authorize(r) \/ FindCached(r) \/ FindStored(r) \/ FillCache(r)
             \/ CacheSaved(r) \/ CacheUpdated(r) \/ Get(r) \/ Claim(r)
      PROVE  StoredFirst' /\ UploadedIsStored'
  <2> DEFINE q == req[r]
  <2>1. UNCHANGED <<objects, storage>>
    BY <1>6 DEF Authorize, FindCached, FindStored, FillCache, CacheSaved,
                CacheUpdated, Get, Claim
  <2>2. /\ q \in ReqState /\ Control(q) /\ q.pc \notin {"idle", "done"}
        /\ q.job.op # "verify"
    BY <1>1, <1>2, <1>6 DEF At, Authorize, FindCached, FindStored, FillCache,
                            CacheSaved, CacheUpdated, Get, Claim
  <2>3. ASSUME NEW s PROVE Finish(q, s).pc # "update"
    BY <2>2 DEF Finish, ReqState
  <2>4. CASE FindCached(r)
    <3> DEFINE f == [q EXCEPT !.obj = cache[Oid(q)]]
    <3>1. \/ cache[Oid(q)] # None /\ Become(r, Found(f))
          \/ Become(r, Goto(q, "findDb"))
      BY <2>4 DEF FindCached
    <3>2. Goto(q, "findDb").pc # "update"
      BY <2>2 DEF Goto, ReqState
    <3>3. CASE cache[Oid(q)] # None /\ Become(r, Found(f))
      <4>1. cache[Oid(q)] \in Row \union {None}
        BY <1>2, <2>4, InFlight DEF FindCached, At, Rows
      <4>2. /\ f \in ReqState /\ f.pc = "find" /\ f.job = q.job /\ f.i = q.i
            /\ f.isNew = q.isNew /\ f.status = q.status
        BY <2>2, <2>4, <4>1 DEF ReqState, FindCached, At
      <4>3. Control(f)
        BY <2>2, <2>4, <4>2 DEF Control
      <4>4. Found(f).pc # "update"
        BY <2>2, <4>2, <4>3, OnlyVerifySkipsStorage
      <4> QED
        BY <1>3, <1>4, <2>1, <3>3, <4>4
    <3> QED
      BY <1>3, <1>4, <2>1, <3>1, <3>2, <3>3
  <2>5. CASE ~ FindCached(r)
    <3>1. CASE Authorize(r)
      <4>1. PICK p : \/ Become(r, AuthorizeResult(q, p))
                     \/ Become(r, Finish(q, "failed"))
        BY <3>1 DEF Authorize
      <4> QED
        BY <1>3, <1>4, <2>1, <2>2, <2>3, <4>1, OnlyVerifySkipsStorage
    <3>2. CASE FindStored(r)
      <4>1. [q EXCEPT !.pc = "fill", !.obj = objects[Oid(q)]].pc # "update"
        BY <2>2 DEF ReqState
      <4>2. \/ Become(r, [q EXCEPT !.pc = "fill", !.obj = objects[Oid(q)]])
            \/ Become(r, NotFound(q))
            \/ Become(r, MetadataError(q))
        BY <3>2 DEF FindStored
      <4> QED
        BY <1>3, <1>4, <2>1, <2>2, <4>1, <4>2, OnlyVerifySkipsStorage
    <3>3. CASE FillCache(r) \/ CacheSaved(r) \/ CacheUpdated(r)
      <4>1. \/ Become(r, Found(q))
            \/ Become(r, Answer(q, "upload"))
            \/ Become(r, Finish(q, "ok"))
        BY <3>3 DEF FillCache, CacheSaved, CacheUpdated
      <4> QED
        BY <1>3, <1>4, <2>1, <2>2, <2>3, <4>1, OnlyVerifySkipsStorage
    <3>4. CASE Get(r)
      <4>1. Opened(q, storage[Oid(q)]).pc # "update"
        BY <2>2 DEF ReqState, Opened
      <4>2. \/ Become(r, Opened(q, storage[Oid(q)]))
            \/ Become(r, Finish(q, "storageError"))
        BY <3>4 DEF Get
      <4> QED
        BY <1>3, <1>4, <2>1, <2>3, <4>1, <4>2
    <3>5. CASE Claim(r)
      <4>1. Become(r, NextItem(q)) \/ Become(r, Finish(q, "failed"))
        BY <3>5 DEF Claim
      <4> QED
        BY <1>3, <1>4, <2>1, <2>2, <2>3, <4>1, OnlyVerifySkipsStorage
    <3> QED
      BY <1>6, <2>5, <3>1, <3>2, <3>3, <3>4, <3>5
  <2> QED
    BY <2>4, <2>5
<1>7. ASSUME NEW r \in Slots, Insert(r)
      PROVE  StoredFirst' /\ UploadedIsStored'
  <2> DEFINE q == req[r]
  <2>1. /\ q \in ReqState /\ Control(q) /\ q.pc = "insert"
        /\ q.job.op # "verify" /\ Oid(q) \in Oids
    BY <1>1, <1>2, <1>7 DEF Insert, At
  <2>2. Goto(q, "cacheSaved").pc # "update"
    BY <2>1 DEF Goto, ReqState
  <2>3. StoredFirst'
    <3>1. Become(r, Goto(q, "cacheSaved")) \/ Become(r, MetadataError(q))
      BY <1>7 DEF Insert
    <3>2. UNCHANGED storage
      BY <1>7 DEF Insert
    <3> QED
      BY <1>3, <2>1, <2>2, <3>1, <3>2, OnlyVerifySkipsStorage
  <2>4. UploadedIsStored'
    <3>1. UNCHANGED objects \/ objects' = [objects EXCEPT ![Oid(q)] = q.obj]
      BY <1>7 DEF Insert
    <3>2. UNCHANGED storage
      BY <1>7 DEF Insert
    <3>3. ~ q.obj.uploaded
      BY <2>1 DEF Control
    <3> QED
      BY <1>1, <2>1, <3>1, <3>2, <3>3 DEF UploadedIsStored, Rows
  <2> QED
    BY <2>3, <2>4
<1>8. ASSUME NEW r \in Slots, Put(r)
      PROVE  StoredFirst' /\ UploadedIsStored'
  <2> DEFINE q == req[r]
             marked == Goto(MarkAsUploaded(q), "update")
  <2>1. /\ q \in ReqState /\ q.pc = "put" /\ q.obj \in Row
        /\ Oid(q) \in Oids
    BY <1>1, <1>2, <1>8 DEF Put, At, Control
  <2>2. q.obj.size # None
    BY <2>1, NoneAssumption DEF Row
  <2>3. \/ UNCHANGED storage
        \/ storage' = [storage EXCEPT ![Oid(q)] = q.obj.size]
    BY <1>8 DEF Put
  <2>4. \A o \in Oids : storage[o] # None => storage'[o] # None
    BY <1>1, <2>1, <2>2, <2>3
  <2>5. UploadedIsStored'
    <3>1. UNCHANGED objects
      BY <1>8 DEF Put
    <3> QED
      BY <2>4, <3>1 DEF UploadedIsStored
  <2>6. CASE Become(r, Finish(q, "storageError"))
    <3>1. Finish(q, "storageError").pc # "update"
      BY <2>1 DEF Finish, ReqState
    <3> QED
      BY <1>3, <2>4, <2>5, <2>6, <3>1
  <2>7. CASE /\ storage' = [storage EXCEPT ![Oid(q)] = q.obj.size]
             /\ Become(r, marked)
    <3>1. marked.job = q.job /\ marked.i = q.i
      BY <2>1 DEF Goto, MarkAsUploaded, ReqState
    <3>2. Oid(marked) = Oid(q)
      BY <3>1 DEF Oid, Item
    <3>3. storage'[Oid(q)] # None
      BY <1>1, <2>1, <2>2, <2>7
    <3>4. ASSUME NEW s \in Slots, req'[s].pc = "update"
          PROVE  storage'[Oid(req'[s])] # None
      <4>1. CASE s = r
        <5>1. req'[s] = marked
          BY <1>1, <2>7, <4>1 DEF Become
        <5> QED
          BY <3>2, <3>3, <5>1
      <4>2. CASE s # r
        <5>1. req'[s] = req[s]
          BY <1>1, <2>7, <4>2 DEF Become
        <5> QED
          BY <1>2, <2>4, <3>4, <5>1 DEF StoredFirst, At
      <4> QED
        BY <4>1, <4>2
    <3> QED
      BY <2>5, <3>4 DEF StoredFirst, At
  <2> QED
    BY <1>8, <2>6, <2>7 DEF Put
<1>9. ASSUME NEW r \in Slots, Update(r)
      PROVE  StoredFirst' /\ UploadedIsStored'
  <2> DEFINE q == req[r]
  <2>1. /\ q \in ReqState /\ Oid(q) \in Oids /\ storage[Oid(q)] # None
    BY <1>1, <1>2, <1>9 DEF Update, At, StoredFirst
  <2>2. UNCHANGED storage
    BY <1>9 DEF Update
  <2>3. StoredFirst'
    <3>1. \/ Become(r, Goto(q, "cacheUpdated"))
          \/ Become(r, Finish(q, "failed"))
      BY <1>9 DEF Update
    <3>2. Goto(q, "cacheUpdated").pc # "update" /\ Finish(q, "failed").pc # "update"
      BY <2>1 DEF Goto, Finish, ReqState
    <3> QED
      BY <1>3, <2>2, <3>1, <3>2
  <2>4. UploadedIsStored'
    <3>1. UNCHANGED objects \/ objects' = [objects EXCEPT ![Oid(q)] = q.obj]
      BY <1>9 DEF Update
    <3> QED
      BY <1>1, <2>1, <2>2, <3>1 DEF UploadedIsStored, Rows
  <2> QED
    BY <2>3, <2>4
<1>10. CASE UNCHANGED vars \/ \E o \in Oids : Expire(o)
  <2>1. UNCHANGED <<objects, storage, req>>
    BY <1>10 DEF vars, Expire
  <2>2. StoredFirst'
    BY <2>1 DEF StoredFirst, At
  <2> QED
    BY <1>4, <2>1, <2>2
<1> QED
  BY <1>5, <1>6, <1>7, <1>8, <1>9, <1>10 DEF Next, Step

(* As long as no client calls verify, a row says uploaded only after the   *)
(* object's content has been stored: ProxyUploadUseCase stores first and   *)
(* updates the row afterwards, and no step in between can lose the object. *)
THEOREM UploadedAreStored ==
  ASSUME \A j \in Requests : j.op # "verify"
  PROVE  Spec => []UploadedIsStored
<1>1. Init => StoredFirst /\ UploadedIsStored
  BY DEF Init, StoredFirst, UploadedIsStored, At, Idle
<1>2. /\ IInv /\ StoredFirst /\ UploadedIsStored /\ [Next]_vars
      => StoredFirst' /\ UploadedIsStored'
  BY StoredStep
<1> QED
  BY <1>1, <1>2, Invariance, PTL DEF Spec

-----------------------------------------------------------------------------
(* How a request moves: bounded work, settled owners, healed entries *)

(* The ways a request that is being served can move: it is answered, takes *)
(* the next object of a batch, or comes closer to the end of its turn.     *)
Flow(q, Q) ==
  \/ Q.pc = "done"
  \/ /\ Q.pc = "authorize"
     /\ Q.job = q.job
     /\ Q.i = q.i + 1
     /\ q.i < Len(q.job.items)
     /\ ~ Q.isNew
  \/ /\ Q.pc \notin {"idle", "authorize", "done"}
     /\ Q.job = q.job
     /\ Q.i = q.i
     /\ CallsAt(Q.pc) < CallsAt(q.pc)
     /\ Q.isNew = q.isNew \/ q.pc = "authorize"

LEMMA CallsAtValues ==
  /\ CallsAt("authorize") = 8 /\ CallsAt("find") = 7 /\ CallsAt("findDb") = 6
  /\ CallsAt("fill") = 5 /\ CallsAt("insert") = 4 /\ CallsAt("put") = 4
  /\ CallsAt("cacheSaved") = 3 /\ CallsAt("update") = 3 /\ CallsAt("get") = 3
  /\ CallsAt("cacheUpdated") = 2 /\ CallsAt("claim") = 2
  /\ CallsAt("stream") = 2
  /\ CallsAt("done") = 1 /\ CallsAt("idle") = 0
BY DEF CallsAt

LEMMA FinishFlow ==
  ASSUME NEW q \in ReqState, NEW Q, NEW s
  PROVE  Flow(Q, Finish(q, s))
BY DEF Flow, Finish, ReqState

LEMMA NextItemFlow ==
  ASSUME NEW q \in ReqState
  PROVE  Flow(q, NextItem(q))
<1>1. CASE q.i < Len(q.job.items)
  BY <1>1 DEF NextItem, Flow, ReqState
<1>2. CASE ~ (q.i < Len(q.job.items))
  BY <1>2, FinishFlow DEF NextItem
<1> QED
  BY <1>1, <1>2

LEMMA AnswerFlow ==
  ASSUME NEW q \in ReqState, NEW a, CallsAt(q.pc) > 2
  PROVE  Flow(q, Answer(q, a))
<1> DEFINE w == [q EXCEPT !.resps = Append(q.resps, a)]
<1>1. /\ w.pc = q.pc /\ w.job = q.job /\ w.i = q.i /\ w.isNew = q.isNew
  BY DEF ReqState
<1>2. CASE q.isNew /\ a \notin ObjectErrors
  <2>1. Answer(q, a) = [w EXCEPT !.pc = "claim"]
    BY <1>2 DEF Answer, Goto
  <2>2. /\ Answer(q, a).pc = "claim" /\ Answer(q, a).job = q.job
        /\ Answer(q, a).i = q.i /\ Answer(q, a).isNew = q.isNew
    BY <2>1 DEF ReqState
  <2> QED
    BY <2>2, CallsAtValues DEF Flow
<1>3. CASE ~ (q.isNew /\ a \notin ObjectErrors)
  <2>1. Answer(q, a) = NextItem(w)
    BY <1>3 DEF Answer
  <2>2. CASE q.i < Len(q.job.items)
    <3>1. Answer(q, a) = [w EXCEPT !.pc = "authorize", !.i = q.i + 1,
                                   !.obj = None, !.isNew = FALSE]
      BY <1>1, <2>1, <2>2 DEF NextItem
    <3>2. /\ Answer(q, a).pc = "authorize" /\ Answer(q, a).job = q.job
          /\ Answer(q, a).i = q.i + 1 /\ ~ Answer(q, a).isNew
      BY <3>1 DEF ReqState
    <3> QED
      BY <2>2, <3>2 DEF Flow
  <2>3. CASE ~ (q.i < Len(q.job.items))
    <3>1. Answer(q, a) = [w EXCEPT !.pc = "done", !.status = "ok"]
      BY <1>1, <2>1, <2>3 DEF NextItem, Finish
    <3>2. Answer(q, a).pc = "done"
      BY <3>1 DEF ReqState
    <3> QED
      BY <3>2 DEF Flow
  <2> QED
    BY <2>2, <2>3
<1> QED
  BY <1>2, <1>3

LEMMA FoundFlow ==
  ASSUME NEW q \in ReqState, q.pc \in {"find", "fill"}, q.job.op \in Ops
  PROVE  Flow(q, Found(q))
<1>1. CallsAt(q.pc) \in {5, 7}
  BY CallsAtValues
<1>2. ASSUME NEW s \in {"put", "get"}
      PROVE  Flow(q, Goto(q, s))
  <2>1. /\ Goto(q, s).pc = s /\ Goto(q, s).job = q.job /\ Goto(q, s).i = q.i
        /\ Goto(q, s).isNew = q.isNew
    BY DEF Goto, ReqState
  <2> QED
    BY <1>1, <2>1, CallsAtValues DEF Flow
<1>3. Flow(q, Goto(MarkAsUploaded(q), "update"))
  <2> DEFINE w == Goto(MarkAsUploaded(q), "update")
  <2>1. w.pc = "update" /\ w.job = q.job /\ w.i = q.i /\ w.isNew = q.isNew
    BY DEF Goto, MarkAsUploaded, ReqState
  <2> QED
    BY <1>1, <2>1, CallsAtValues DEF Flow
<1>4. Flow(q, VerifyUpload(q)) /\ Flow(q, ProxyDownload(q)) /\ Flow(q, ProxyUpload(q))
  BY <1>2, <1>3, FinishFlow DEF VerifyUpload, ProxyDownload, ProxyUpload
<1>5. \A a : Flow(q, Answer(q, a))
  BY <1>1, AnswerFlow
<1> QED
  BY <1>4, <1>5 DEF Found, Ops, BatchOps, ProxyOps

LEMMA NotFoundFlow ==
  ASSUME NEW q \in ReqState, q.pc = "findDb"
  PROVE  Flow(q, NotFound(q)) /\ Flow(q, MetadataError(q))
<1>1. \A a : Flow(q, Answer(q, a))
  BY AnswerFlow, CallsAtValues
<1>2. Flow(q, [q EXCEPT !.pc = "insert", !.obj = NewObject(Item(q))])
  BY CallsAtValues DEF Flow, ReqState
<1> QED
  BY <1>1, <1>2, FinishFlow DEF NotFound, MetadataError

(* Every step of a request is a move of Flow or the end of the request.    *)
LEMMA StepFlow ==
  ASSUME IInv, NEW r \in Slots, Step(r)
  PROVE  \E Q :
           /\ Become(r, Q)
           /\ \/ At(r, "done") /\ Q = Idle
              \/ req[r].pc \notin {"idle", "done"} /\ Flow(req[r], Q)
<1> DEFINE q == req[r]
           Moves == \E Q : Become(r, Q) /\ q.pc \notin {"idle", "done"} /\ Flow(q, Q)
<1>1. /\ q \in ReqState
      /\ q.pc \notin {"idle", "done"} => q.job.op \in Ops
  BY InFlight, ServedItem DEF RequestInv
<1>2. ASSUME NEW s PROVE Flow(q, Finish(q, s))
  BY <1>1, FinishFlow
<1>3. ASSUME Authorize(r) PROVE Moves
  <2>1. ASSUME NEW p PROVE Flow(q, AuthorizeResult(q, p))
    <3>1. q.pc = "authorize"
      BY <1>3 DEF Authorize, At
    <3>2. /\ Flow(q, Goto(q, "find"))
          /\ Flow(q, [q EXCEPT !.pc = "find", !.isNew = TRUE])
      BY <1>1, <3>1, CallsAtValues DEF Flow, Goto, ReqState
    <3> QED
      BY <1>2, <3>2 DEF AuthorizeResult
  <2>2. \/ Become(r, AuthorizeResult(q, policies[Oid(q)]))
        \/ Become(r, Finish(q, "failed"))
    BY <1>3 DEF Authorize
  <2>3. q.pc \notin {"idle", "done"}
    BY <1>3 DEF Authorize, At
  <2> QED
    BY <1>2, <2>1, <2>2, <2>3
<1>4. ASSUME FindCached(r) PROVE Moves
  <2> DEFINE f == [q EXCEPT !.obj = cache[Oid(q)]]
  <2>1. q.pc = "find" /\ Oid(q) \in Oids /\ cache \in Rows
    BY <1>4, InFlight DEF FindCached, At
  <2>2. \/ Become(r, Found(f))
        \/ Become(r, Goto(q, "findDb"))
    BY <1>4 DEF FindCached
  <2>3. Flow(q, Goto(q, "findDb"))
    BY <1>1, <2>1, CallsAtValues DEF Flow, Goto, ReqState
  <2>4. Flow(q, Found(f))
    <3>1. /\ f \in ReqState /\ f.pc = q.pc /\ f.job = q.job /\ f.i = q.i
          /\ f.isNew = q.isNew
      BY <1>1, <2>1 DEF ReqState, Rows
    <3>2. Flow(f, Found(f))
      BY <1>1, <2>1, <3>1, FoundFlow
    <3> QED
      BY <3>1, <3>2 DEF Flow
  <2> QED
    BY <2>1, <2>2, <2>3, <2>4
<1>5. ASSUME FindStored(r) PROVE Moves
  <2>1. q.pc = "findDb"
    BY <1>5 DEF FindStored, At
  <2>2. \/ Become(r, [q EXCEPT !.pc = "fill", !.obj = objects[Oid(q)]])
        \/ Become(r, NotFound(q))
        \/ Become(r, MetadataError(q))
    BY <1>5 DEF FindStored
  <2>3. Flow(q, [q EXCEPT !.pc = "fill", !.obj = objects[Oid(q)]])
    BY <1>1, <2>1, CallsAtValues DEF Flow, ReqState
  <2> QED
    BY <1>1, <2>1, <2>2, <2>3, NotFoundFlow
<1>6. ASSUME FillCache(r) \/ CacheSaved(r) \/ CacheUpdated(r) PROVE Moves
  <2>1. \/ q.pc = "fill" /\ Become(r, Found(q))
        \/ q.pc = "cacheSaved" /\ Become(r, Answer(q, "upload"))
        \/ q.pc = "cacheUpdated" /\ Become(r, Finish(q, "ok"))
    BY <1>6 DEF FillCache, CacheSaved, CacheUpdated, At
  <2>2. q.pc = "fill" => Flow(q, Found(q))
    BY <1>1, FoundFlow
  <2>3. q.pc = "cacheSaved" => Flow(q, Answer(q, "upload"))
    BY <1>1, AnswerFlow, CallsAtValues
  <2> QED
    BY <1>2, <2>1, <2>2, <2>3
<1>7. ASSUME Insert(r) PROVE Moves
  <2>1. q.pc = "insert" /\ q.job.op \in BatchOps
    BY <1>7, InFlight DEF Insert, At, RequestInv, Control, BatchOps
  <2>2. \/ Become(r, Goto(q, "cacheSaved"))
        \/ Become(r, MetadataError(q))
    BY <1>7 DEF Insert
  <2>3. Flow(q, Goto(q, "cacheSaved"))
    BY <1>1, <2>1, CallsAtValues DEF Flow, Goto, ReqState
  <2>4. Flow(q, MetadataError(q))
    BY <1>1, <2>1, AnswerFlow, CallsAtValues DEF MetadataError
  <2> QED
    BY <2>1, <2>2, <2>3, <2>4
<1>8. ASSUME Claim(r) \/ Get(r) \/ Stream(r) PROVE Moves
  <2>1. CASE Claim(r)
    <3>1. /\ q.pc = "claim"
          /\ Become(r, NextItem(q)) \/ Become(r, Finish(q, "failed"))
      BY <2>1 DEF Claim, At
    <3> QED
      BY <1>1, <1>2, <3>1, NextItemFlow
  <2>2. CASE Get(r)
    <3>1. /\ q.pc = "get"
          /\ \/ Become(r, Opened(q, storage[Oid(q)]))
             \/ Become(r, Finish(q, "storageError"))
      BY <2>2 DEF Get, At
    <3>2. Flow(q, Opened(q, storage[Oid(q)]))
      BY <1>1, <3>1, CallsAtValues DEF Flow, Opened, ReqState
    <3> QED
      BY <1>2, <3>1, <3>2
  <2>3. CASE Stream(r)
    BY <1>1, <2>3, StreamEnds DEF Flow
  <2> QED
    BY <1>8, <2>1, <2>2, <2>3
<1>9. ASSUME Put(r) \/ Update(r) PROVE Moves
  <2> DEFINE m == Goto(MarkAsUploaded(q), "update")
  <2>1. \/ q.pc = "put" /\ Become(r, m)
        \/ q.pc = "update" /\ Become(r, Goto(q, "cacheUpdated"))
        \/ q.pc \in {"put", "update"} /\ \E s : Become(r, Finish(q, s))
    BY <1>9 DEF Put, Update, At
  <2>2. q.pc = "put" => Flow(q, m)
    <3>1. m.pc = "update" /\ m.job = q.job /\ m.i = q.i /\ m.isNew = q.isNew
      BY <1>1 DEF Goto, MarkAsUploaded, ReqState
    <3> QED
      BY <3>1, CallsAtValues DEF Flow
  <2>3. q.pc = "update" => Flow(q, Goto(q, "cacheUpdated"))
    BY <1>1, CallsAtValues DEF Flow, Goto, ReqState
  <2> QED
    BY <1>2, <2>1, <2>2, <2>3
<1>10. ASSUME Reply(r) PROVE Become(r, Idle) /\ At(r, "done")
  BY <1>10 DEF Reply
<1> QED
  BY <1>3, <1>4, <1>5, <1>6, <1>7, <1>8, <1>9, <1>10 DEF Step

(* A move of Flow leaves fewer calls to make.                              *)
LEMMA FlowShrinks ==
  ASSUME NEW q \in ReqState, Control(q), q.pc \notin {"idle", "done"},
         NEW Q, Flow(q, Q), Q.pc \in Pcs
  PROVE  CallsLeft(q) \in Int /\ CallsLeft(Q) \in 0..(CallsLeft(q) - 1)
<1>1. q.i \in 1..Len(q.job.items) /\ Len(q.job.items) \in Nat
  BY ServedItem
<1>2. q.pc \in Pcs
  BY DEF ReqState
<1>3. \A s \in Pcs \ {"idle", "done"} : CallsAt(s) \in 2..8
  BY CallsAtValues DEF Pcs
<1> DEFINE n == Len(q.job.items) - q.i
           c == CallsAt(q.pc)
<1>4. CallsLeft(q) = c + 7 * n /\ n \in Nat /\ c \in 2..8
  <2>1. n \in Nat /\ c \in 2..8
    BY <1>1, <1>2, <1>3
  <2> QED
    BY <2>1 DEF CallsLeft
<1>5. CASE Q.pc = "done"
  <2>1. CallsLeft(Q) = 1
    BY <1>5, CallsAtValues DEF CallsLeft
  <2> HIDE DEF n, c
  <2> QED
    BY <1>4, <2>1
<1>6. CASE Q.pc = "authorize"
  <2>1. Q.job = q.job /\ Q.i = q.i + 1 /\ q.i < Len(q.job.items)
    BY <1>6 DEF Flow
  <2>2. CallsLeft(Q) = 8 + 7 * (Len(q.job.items) - (q.i + 1))
    BY <1>1, <1>6, <2>1, CallsAtValues DEF CallsLeft
  <2>3. n >= 1 /\ Len(q.job.items) - (q.i + 1) = n - 1
    BY <1>1, <2>1
  <2> HIDE DEF n, c
  <2> QED
    BY <1>4, <2>2, <2>3
<1>7. CASE Q.pc \notin {"done", "authorize"}
  <2>1. /\ Q.pc # "idle" /\ Q.job = q.job /\ Q.i = q.i
        /\ CallsAt(Q.pc) < c
    BY <1>7 DEF Flow
  <2>2. CallsAt(Q.pc) \in 2..8
    BY <1>3, <1>7, <2>1
  <2>3. CallsLeft(Q) = CallsAt(Q.pc) + 7 * n
    BY <1>7, <2>1 DEF CallsLeft
  <2> HIDE DEF n, c
  <2> QED
    BY <1>4, <2>1, <2>2, <2>3
<1> QED
  BY <1>5, <1>6, <1>7

(* What a step may do to the requests: only one moves.                     *)
LEMMA OneMoves ==
  ASSUME IInv, [Next]_vars, NEW r \in Slots, req'[r] # req[r]
  PROVE  Receive(r) \/ Step(r) \/ Crash(r)
<1>1. req \in [Slots -> ReqState]
  BY DEF IInv, TypeOK
<1>2. ASSUME NEW s \in Slots, s # r, Receive(s) \/ Step(s) \/ Crash(s)
      PROVE  FALSE
  <2>1. \E Q : Become(s, Q)
    BY <1>2, StepFlow DEF Receive, Crash
  <2> QED
    BY <1>1, <1>2, <2>1 DEF Become
<1>3. (\E s \in Slots : Receive(s) \/ Step(s) \/ Crash(s)) \/ UNCHANGED req
  BY DEF Next, Expire, vars
<1> QED
  BY <1>2, <1>3

(* CallsAreBounded: 7 calls for each object of a request, and no way back. *)
THEOREM WorkIsBounded == Spec => CallsAreBounded
<1>1. ASSUME IInv, IInv', [Next]_vars, NEW r \in Slots, req'[r] # req[r]
      PROVE  \/ CallsLeft(req'[r]) \in 0..(CallsLeft(req[r]) - 1)
             \/ /\ At(r, "idle")
                /\ CallsLeft(req'[r]) \in 0..(7 * Len(req'[r].job.items) + 1)
  <2>1. /\ req \in [Slots -> ReqState] /\ Control(req[r])
        /\ req'[r] \in ReqState
    BY <1>1 DEF IInv, TypeOK, RequestInv
  <2>2. CASE Step(r)
    <3>1. PICK Q : /\ Become(r, Q)
                   /\ \/ At(r, "done") /\ Q = Idle
                      \/ req[r].pc \notin {"idle", "done"} /\ Flow(req[r], Q)
      BY <1>1, <2>2, StepFlow
    <3>2. req'[r] = Q
      BY <2>1, <3>1 DEF Become
    <3>3. CASE At(r, "done") /\ Q = Idle
      BY <3>2, <3>3, CallsAtValues DEF CallsLeft, At, Idle
    <3>4. CASE req[r].pc \notin {"idle", "done"} /\ Flow(req[r], Q)
      <4>1. Q.pc \in Pcs
        BY <2>1, <3>2 DEF ReqState
      <4> QED
        BY <2>1, <3>2, <3>4, <4>1, FlowShrinks
    <3> QED
      BY <3>1, <3>3, <3>4
  <2>3. CASE Crash(r)
    <3>1. req[r].pc # "idle" /\ req'[r] = Idle
      BY <2>1, <2>3 DEF Crash, Become, At
    <3>2. CallsLeft(Idle) = 0
      BY CallsAtValues DEF CallsLeft, Idle
    <3>3. CASE req[r].pc = "done"
      BY <3>1, <3>2, <3>3, CallsAtValues DEF CallsLeft
    <3>4. CASE req[r].pc # "done"
      <4> DEFINE Q == Finish(req[r], "failed")
      <4>1. Flow(req[r], Q) /\ Q.pc = "done"
        BY <2>1, FinishFlow DEF Finish, ReqState
      <4>2. CallsLeft(Q) = 1
        BY <4>1, CallsAtValues DEF CallsLeft
      <4>3. CallsLeft(req[r]) \in Int /\ CallsLeft(Q) \in 0..(CallsLeft(req[r]) - 1)
        BY <2>1, <3>1, <3>4, <4>1, FlowShrinks DEF Pcs
      <4> QED
        BY <3>1, <3>2, <4>2, <4>3
    <3> QED
      BY <3>3, <3>4
  <2>4. CASE Receive(r)
    <3>1. PICK j \in Requests :
            Become(r, Accepted(j)) \/ \E s : Become(r, Rejected(j, s))
      BY <2>4 DEF Receive
    <3>2. Len(j.items) \in Nat
      BY RequestsAssumption DEF RequestType
    <3>3. CASE Become(r, Accepted(j))
      <4>1. req'[r] = Accepted(j)
        BY <2>1, <3>3 DEF Become
      <4>2. Accepted(j).pc \in {"find", "authorize"} /\ Accepted(j).i = 1 /\ Accepted(j).job = j
        BY DEF Accepted, Idle
      <4>3. Control(req'[r])
        BY <1>1 DEF IInv, RequestInv
      <4>4. Len(j.items) >= 1
        BY <3>2, <4>1, <4>2, <4>3 DEF Control
      <4> QED
        BY <2>4, <3>2, <4>1, <4>2, <4>4, CallsAtValues DEF CallsLeft, Receive
    <3>4. CASE \E s : Become(r, Rejected(j, s))
      <4>1. req'[r].pc = "done" /\ req'[r].job = j
        BY <2>1, <3>4 DEF Become, Rejected, Idle
      <4> QED
        BY <2>4, <3>2, <4>1, CallsAtValues DEF CallsLeft, Receive
    <3> QED
      BY <3>1, <3>3, <3>4
  <2> QED
    BY <1>1, <2>2, <2>3, <2>4, OneMoves
<1>2. IInv /\ IInv' /\ [Next]_vars =>
        [\A r \in Slots :
           \/ req'[r] = req[r]
           \/ CallsLeft(req'[r]) \in 0..(CallsLeft(req[r]) - 1)
           \/ At(r, "idle") /\ CallsLeft(req'[r]) \in 0..(7 * Len(req'[r].job.items) + 1)]_vars
  BY <1>1
<1> QED
  BY <1>2, Invariance, PTL DEF Spec, CallsAreBounded

(* Only Authorize moves a request that is about to be authorized.          *)
LEMMA AuthorizeFirst ==
  ASSUME NEW r \in Slots, Step(r), At(r, "authorize")
  PROVE  Authorize(r)
BY DEF Step, At, FindCached, FindStored, FillCache, Insert, CacheSaved, Claim,
       Put, Update, CacheUpdated, Get, Stream, Reply

(* A request that has just begun, or ended, claims nothing.                *)
LEMMA NewcomersDoNotClaim ==
  ASSUME NEW r \in Slots, req \in [Slots -> ReqState], Receive(r) \/ Crash(r),
         NEW o
  PROVE  ~ Claimant(req'[r], o)
<1>1. ASSUME NEW j, NEW s
      PROVE  ~ Accepted(j).isNew /\ Rejected(j, s).pc = "done"
  BY DEF Accepted, Rejected, Idle
<1>2. Idle.pc = "idle"
  BY DEF Idle
<1>3. \/ req'[r] = Idle
      \/ \E j : \E s : req'[r] \in {Accepted(j), Rejected(j, s)}
  BY DEF Receive, Crash, Become
<1> QED
  BY <1>1, <1>2, <1>3 DEF Claimant

(* A step leaves the owner of an object nobody else competes for.          *)
LEMMA OwnerStep ==
  ASSUME IInv, [Next]_vars, NEW o \in Oids, policies[o] # None, ~ Contested(o)
  PROVE  policies'[o] = policies[o] /\ ~ Contested(o)'
<1>1. req \in [Slots -> ReqState] /\ policies \in Owners
  BY DEF IInv, TypeOK, Owners
<1>2. policies'[o] = policies[o]
  <2>1. ASSUME NEW r \in Slots, Claim(r)
        PROVE  policies'[o] = policies[o]
    <3> DEFINE q == req[r]
    <3>1. /\ q.pc = "claim" /\ Control(q) /\ Answered(q) /\ q.job \in Requests
          /\ Oid(q) \in Oids
      BY <2>1, InFlight DEF Claim, At, RequestInv
    <3>2. \/ policies' = [policies EXCEPT ![Oid(q)] = q.job.repo]
          \/ policies' = policies
      BY <2>1 DEF Claim
    <3>3. Claimant(q, Oid(q))
      BY <3>1, NoneAssumption DEF Claimant, Control, Answered, BatchOps
    <3>4. Oid(q) = o => q.job.repo = policies[o]
      BY <3>3 DEF Contested
    <3> QED
      BY <1>1, <3>1, <3>2, <3>4 DEF Owners
  <2>2. (\E r \in Slots : Claim(r)) \/ UNCHANGED policies
    BY DEF Next, Step, vars, Receive, Crash, Expire, Authorize, FindCached,
           FindStored, FillCache, Insert, CacheSaved, Put, Update,
           CacheUpdated, Get, Stream, Reply
  <2> QED
    BY <2>1, <2>2
<1>3. ASSUME NEW r \in Slots, Claimant(req'[r], o), req'[r].job.repo # policies[o]
      PROVE  FALSE
  <2> DEFINE q == req[r]
  <2>1. CASE req'[r] = q
    BY <1>3, <2>1 DEF Contested
  <2>2. CASE Receive(r) \/ Crash(r)
    BY <1>1, <1>3, <2>2, NewcomersDoNotClaim
  <2>3. CASE Step(r)
    <3>1. PICK Q : /\ Become(r, Q)
                   /\ \/ At(r, "done") /\ Q = Idle
                      \/ q.pc \notin {"idle", "done"} /\ Flow(q, Q)
      BY <2>3, StepFlow
    <3>2. req'[r] = Q
      BY <1>1, <3>1 DEF Become
    <3>3. Q # Idle
      BY <1>3, <3>2 DEF Claimant, Idle
    <3>4. /\ q.pc \notin {"idle", "done"}
          /\ Q.job = q.job /\ Q.i = q.i
          /\ Q.isNew = q.isNew \/ q.pc = "authorize"
      BY <1>3, <3>1, <3>2, <3>3 DEF Flow, Claimant
    <3>5. Oid(q) = o
      BY <1>3, <3>2, <3>4 DEF Claimant, Oid, Item
    <3>6. CASE q.pc = "authorize"
      <4>1. Authorize(r) /\ ~ q.isNew
        BY <2>3, <3>6, AuthorizeFirst, InFlight DEF At, RequestInv, Control
      <4>2. Q = AuthorizeResult(q, policies[o]) \/ Q = Finish(q, "failed")
        BY <1>1, <3>2, <3>5, <4>1 DEF Authorize, Become
      <4>3. Q = Goto(q, "find") \/ \E s : Q = Finish(q, s)
        BY <4>2 DEF AuthorizeResult
      <4>4. Goto(q, "find").isNew = q.isNew /\ \A s : Finish(q, s).pc = "done"
        BY <1>1 DEF Goto, Finish, ReqState
      <4> QED
        BY <1>3, <3>2, <4>1, <4>3, <4>4 DEF Claimant
    <3>7. CASE q.pc # "authorize"
      <4>1. Claimant(q, o)
        BY <1>3, <3>2, <3>4, <3>5, <3>7 DEF Claimant
      <4> QED
        BY <1>3, <3>2, <3>4, <4>1 DEF Contested
    <3> QED
      BY <3>6, <3>7
  <2> QED
    BY <2>1, <2>2, <2>3, OneMoves
<1>4. ~ Contested(o)'
  BY <1>2, <1>3 DEF Contested
<1> QED
  BY <1>2, <1>4

(* OwnersSettle: outside the race of first uploads an owner stays.         *)
THEOREM OwnersAreSettled == Spec => OwnersSettle
<1>1. IInv /\ [Next]_vars =>
        [\A o \in Oids :
           policies[o] # None /\ ~ Contested(o) =>
             policies'[o] = policies[o] /\ ~ Contested(o)']_vars
  BY OwnerStep
<1> QED
  BY <1>1, Invariance, PTL DEF Spec, OwnersSettle

(* An object that belongs to a repository, and that no batch of another    *)
(* one authorized before still competes for, belongs to it for good: no    *)
(* later upload, of whomever, takes it over.                               *)
THEOREM SettledOwnersStay ==
  ASSUME NEW o \in Oids, NEW k \in Repos
  PROVE  Spec => [](policies[o] = k /\ ~ Contested(o) => [](policies[o] = k))
<1>1. /\ IInv /\ [Next]_vars
      /\ policies[o] = k /\ ~ Contested(o)
      => (policies[o] = k /\ ~ Contested(o))'
  BY OwnerStep, NoneAssumption
<1> QED
  BY <1>1, Invariance, PTL DEF Spec

(* Only FindStored and Insert lead to the steps that store what may be an  *)
(* old row.                                                                *)
LEMMA OtherwiseNoFill ==
  ASSUME NEW q \in ReqState, q.job.op \in Ops
  PROVE  /\ NextItem(q).pc \notin {"fill", "cacheSaved"}
         /\ \A a : Answer(q, a).pc \notin {"fill", "cacheSaved"}
         /\ Found(q).pc \notin {"fill", "cacheSaved"}
         /\ NotFound(q).pc \notin {"fill", "cacheSaved"}
         /\ MetadataError(q).pc \notin {"fill", "cacheSaved"}
         /\ \A p : AuthorizeResult(q, p).pc \notin {"fill", "cacheSaved"}
         /\ \A s : Finish(q, s).pc \notin {"fill", "cacheSaved"}
<1>1. \A w \in ReqState : NextItem(w).pc \in {"authorize", "done"}
  BY DEF NextItem, Finish, ReqState
<1>2. ASSUME NEW a
      PROVE  Answer(q, a).pc \in {"claim", "authorize", "done"}
  <2> DEFINE w == [q EXCEPT !.resps = Append(q.resps, a)]
  <2>1. [w EXCEPT !.pc = "claim"].pc = "claim"
    BY DEF ReqState
  <2>2. NextItem(w).pc \in {"authorize", "done"}
    BY DEF NextItem, Finish, ReqState
  <2> QED
    BY <2>1, <2>2 DEF Answer, Goto
<1>3. \A s : Finish(q, s).pc = "done" /\ Goto(q, s).pc = s
  BY DEF Finish, Goto, ReqState
<1>4. Goto(MarkAsUploaded(q), "update").pc = "update"
  BY DEF Goto, MarkAsUploaded, ReqState
<1>5. Found(q).pc \notin {"fill", "cacheSaved"}
  BY <1>2, <1>3, <1>4 DEF Found, ProxyUpload, ProxyDownload, VerifyUpload,
                          Ops, BatchOps, ProxyOps
<1>6. [q EXCEPT !.pc = "insert", !.obj = NewObject(Item(q))].pc = "insert"
  BY DEF ReqState
<1>7. NotFound(q).pc \notin {"fill", "cacheSaved"}
  BY <1>2, <1>3, <1>6 DEF NotFound
<1>8. MetadataError(q).pc \notin {"fill", "cacheSaved"}
  BY <1>2, <1>3 DEF MetadataError
<1>9. ASSUME NEW p PROVE AuthorizeResult(q, p).pc \notin {"fill", "cacheSaved"}
  <2>1. [q EXCEPT !.pc = "find", !.isNew = TRUE].pc = "find"
    BY DEF ReqState
  <2> QED
    BY <1>3, <2>1 DEF AuthorizeResult
<1> QED
  BY <1>1, <1>2, <1>3, <1>5, <1>7, <1>8, <1>9

(* A request that comes to a fill has just read the row; none comes to     *)
(* the end of Save for an object that is registered already.               *)
LEMMA FillsAreFresh ==
  ASSUME IInv, NEW r \in Slots, Step(r), req'[r].pc \in {"fill", "cacheSaved"}
  PROVE  /\ Oid(req'[r]) = Oid(req[r])
         /\ \/ req'[r].obj = objects[Oid(req[r])]
            \/ objects[Oid(req[r])] = None
<1> DEFINE q == req[r]
           Q == req'[r]
<1>1. /\ q \in ReqState /\ req \in [Slots -> ReqState]
      /\ q.pc \notin {"idle", "done"} => q.job.op \in Ops
      /\ cache \in Rows
      /\ q.pc = "insert" => q.job.op \in BatchOps
  BY InFlight, ServedItem DEF RequestInv, IInv, TypeOK, Control, BatchOps
<1>2. ASSUME NEW w, Become(r, w) PROVE Q = w
  BY <1>1, <1>2 DEF Become
<1>3. CASE FindStored(r)
  <2>1. q.job.op \in Ops
    BY <1>1, <1>3 DEF FindStored, At
  <2>2. Q \in {[q EXCEPT !.pc = "fill", !.obj = objects[Oid(q)]], NotFound(q), MetadataError(q)}
    BY <1>2, <1>3 DEF FindStored
  <2>3. Q = [q EXCEPT !.pc = "fill", !.obj = objects[Oid(q)]]
    BY <1>1, <2>1, <2>2, OtherwiseNoFill
  <2>4. Q.job = q.job /\ Q.i = q.i /\ Q.obj = objects[Oid(q)]
    BY <1>1, <2>3 DEF ReqState
  <2> QED
    BY <2>4 DEF Oid, Item
<1>4. CASE Insert(r)
  <2>1. q.job.op \in Ops
    BY <1>1, <1>4 DEF Insert, At
  <2>2. \/ Q = Goto(q, "cacheSaved") /\ objects[Oid(q)] = None
        \/ Q = MetadataError(q)
    BY <1>2, <1>4 DEF Insert
  <2>3. Q = Goto(q, "cacheSaved") /\ objects[Oid(q)] = None
    BY <1>1, <2>1, <2>2, OtherwiseNoFill
  <2>4. Q.job = q.job /\ Q.i = q.i
    BY <1>1, <2>3 DEF Goto, ReqState
  <2> QED
    BY <2>3, <2>4 DEF Oid, Item
<1>5. CASE FindCached(r)
  <2> DEFINE f == [q EXCEPT !.obj = cache[Oid(q)]]
  <2>1. q.job.op \in Ops /\ Oid(q) \in Oids
    BY <1>1, <1>5, InFlight DEF FindCached, At
  <2>2. f \in ReqState /\ f.job = q.job
    BY <1>1, <2>1 DEF ReqState, Rows
  <2>3. Q = Found(f) \/ Q = Goto(q, "findDb")
    BY <1>2, <1>5 DEF FindCached
  <2>4. Goto(q, "findDb").pc = "findDb"
    BY <1>1 DEF Goto, ReqState
  <2> QED
    BY <2>1, <2>2, <2>3, <2>4, OtherwiseNoFill
<1>6. CASE Reply(r)
  BY <1>2, <1>6 DEF Reply, Idle
<1>7. CASE \/ Authorize(r) \/ FillCache(r) \/ CacheSaved(r) \/ Claim(r) \/ Put(r)
           \/ Update(r) \/ CacheUpdated(r) \/ Get(r)
  <2>1. q.pc \notin {"idle", "done"}
    BY <1>7 DEF At, Authorize, FillCache, CacheSaved, Claim, Put, Update,
                CacheUpdated, Get
  <2>2. \/ Q \in {Found(q), NextItem(q)}
        \/ \E p : Q = AuthorizeResult(q, p)
        \/ \E a : Q = Answer(q, a)
        \/ \E s : Q = Finish(q, s)
        \/ Q = Goto(q, "cacheUpdated")
        \/ Q = Goto(MarkAsUploaded(q), "update")
        \/ Q = Opened(q, storage[Oid(q)])
    BY <1>2, <1>7 DEF Authorize, FillCache, CacheSaved, Claim, Put, Update,
                      CacheUpdated, Get
  <2>3. /\ Goto(q, "cacheUpdated").pc = "cacheUpdated"
        /\ Goto(MarkAsUploaded(q), "update").pc = "update"
        /\ Opened(q, storage[Oid(q)]).pc = "stream"
    BY <1>1 DEF Goto, MarkAsUploaded, Opened, ReqState
  <2> QED
    BY <1>1, <2>1, <2>2, <2>3, OtherwiseNoFill
<1>8. CASE Stream(r)
  BY <1>1, <1>2, <1>8, StreamEnds
<1> QED
  BY <1>3, <1>4, <1>5, <1>6, <1>7, <1>8 DEF Step

(* A step leaves an object that nothing denies any more as it is.          *)
LEMMA HealedStep ==
  ASSUME IInv, [Next]_vars, NEW o \in Oids, Healed(o)
  PROVE  Healed(o)'
<1>1. /\ req \in [Slots -> ReqState] /\ objects \in Rows /\ cache \in Rows
      /\ objects[o] # None /\ objects[o].uploaded
  BY DEF IInv, TypeOK, Rows, Healed
<1>2. objects'[o] # None /\ objects'[o].uploaded
  BY <1>1, RowsStep DEF Advances
<1>3. cache'[o] # None => cache'[o].uploaded
  <2>1. ASSUME NEW r \in Slots, FillCache(r) \/ CacheSaved(r) \/ CacheUpdated(r)
        PROVE  cache'[o] # None => cache'[o].uploaded
    <3> DEFINE q == req[r]
    <3>1. /\ q.pc \in {"fill", "cacheSaved", "cacheUpdated"} /\ Control(q)
          /\ Oid(q) \in Oids
      BY <2>1, InFlight DEF FillCache, CacheSaved, CacheUpdated, At, RequestInv
    <3>2. cache' = [cache EXCEPT ![Oid(q)] = q.obj] \/ cache' = cache
      BY <2>1 DEF FillCache, CacheSaved, CacheUpdated, CacheMetadata
    <3>3. Oid(q) = o => q.obj.uploaded
      BY <3>1 DEF Healed, Control
    <3> QED
      BY <1>1, <3>1, <3>2, <3>3 DEF Healed, Rows
  <2>2. ASSUME NEW p \in Oids, Expire(p)
        PROVE  cache'[o] # None => cache'[o].uploaded
    BY <1>1, <2>2 DEF Expire, Healed, Rows
  <2>3. \/ \E r \in Slots : FillCache(r) \/ CacheSaved(r) \/ CacheUpdated(r)
        \/ \E p \in Oids : Expire(p)
        \/ UNCHANGED cache
    BY DEF Next, Step, vars, Receive, Crash, Authorize, FindCached,
           FindStored, Insert, Put, Update, Claim, Get, Stream, Reply
  <2> QED
    BY <2>1, <2>2, <2>3 DEF Healed
<1>4. ASSUME NEW r \in Slots, req'[r].pc \in {"fill", "cacheSaved"}, Oid(req'[r]) = o
      PROVE  req'[r].obj.uploaded
  <2>1. CASE req'[r] = req[r]
    BY <1>4, <2>1 DEF Healed
  <2>2. CASE Receive(r) \/ Crash(r)
    <3>1. \/ req'[r] = Idle
          \/ \E j : \E s : req'[r] \in {Accepted(j), Rejected(j, s)}
      BY <1>1, <2>2 DEF Receive, Crash, Become
    <3>2. ASSUME NEW j, NEW s
          PROVE  Accepted(j).pc \in {"find", "authorize"} /\ Rejected(j, s).pc = "done"
      BY DEF Accepted, Rejected, Idle
    <3>3. Idle.pc = "idle"
      BY DEF Idle
    <3> QED
      BY <1>4, <3>1, <3>2, <3>3
  <2>3. CASE Step(r)
    BY <1>1, <1>4, <2>3, FillsAreFresh
  <2> QED
    BY <2>1, <2>2, <2>3, OneMoves
<1> QED
  BY <1>2, <1>3, <1>4 DEF Healed

(* The end of staleness: once an object is uploaded, its entry does not    *)
(* deny it and no request is about to store an older row, the cache never  *)
(* denies the object again, whatever fails and whoever fills it.  With the *)
(* TTL and the end of every request (StaleEntriesHeal, RequestsEnd) that   *)
(* state is reached.                                                       *)
THEOREM HealedEntriesStay ==
  ASSUME NEW o \in Oids
  PROVE  Spec => [](Healed(o) => [](cache[o] # None => cache[o].uploaded))
<1>1. IInv /\ [Next]_vars /\ Healed(o) => Healed(o)'
  BY HealedStep
<1>2. Healed(o) => (cache[o] # None => cache[o].uploaded)
  BY DEF Healed
<1> QED
  BY <1>1, <1>2, Invariance, PTL DEF Spec
=============================================================================
