------------------------ MODULE ApiIdempotencyProofs ------------------------
(* What an idempotency key promises, for any number of requests with it: the
   properties that the run idempotency checks on five.  Nothing here is one
   transaction, so the argument is about rows: a writer that is on time has its
   row, and a row that somebody means to delete is never again a good answer. *)
EXTENDS ApiIdempotency, TLAPS

USE IdempotencyAssumption

LEMMA IdempotencyStart == IdempotencyInit => IdempotencyInv
BY DEF IdempotencyInit, IdempotencyInv, KeyTypeOK, Steps, RunInv, RecordInv,
       DoomedInv, AnsweredInv, AnswerIsOwn, Running, Has

-----------------------------------------------------------------------------
(* The types *)

(* A row is written whole by its creator and afterwards only field by field. *)
LEMMA RowTypes ==
  ASSUME KeyTypeOK
  PROVE  /\ \A r \in Requests : Completed(r) \in Records \cup {None}
         /\ \A id : Deleted(id) \in Records \cup {None}
         /\ record # None => \A age \in {"old", "expired"} :
              [record EXCEPT !.age = age] \in Records
BY DEF KeyTypeOK, Records, Completed, Deleted, Has

LEMMA KeyTypesHold ==
  ASSUME KeyTypeOK, IdempotencyNext
  PROVE  KeyTypeOK'
<1>1. ASSUME NEW r \in Requests,
             Acquire(r) \/ WaitIsOver(r) \/ MayRun(r) \/ IsAnswered(r) \/ Die(r)
      PROVE  KeyTypeOK'
  <2>1. record \in Records => record.id \in Requests /\ record.response \in Requests \cup {None}
    BY DEF Records
  <2> QED
    BY <1>1, <2>1 DEF KeyTypeOK, Steps, Acquire, WaitIsOver, MayRun, IsAnswered, Die, Release
<1>2. ASSUME NEW r \in Requests, Remove(r) \/ Create(r)
      PROVE  KeyTypeOK'
  BY <1>2, RowTypes DEF KeyTypeOK, Steps, Records, Remove, Create, Release
<1>3. ASSUME NEW r \in Requests, Succeed(r) \/ Fail(r) \/ Return(r)
      PROVE  KeyTypeOK'
  BY <1>3, RowTypes DEF KeyTypeOK, Steps, Succeed, Fail, Return, Release
<1>4. CASE Lapse \/ GrowOld \/ Expire \/ Prune
  <2>1. record \in Records => record.id \in Requests
    BY DEF Records
  <2> QED
    BY <1>4, <2>1, RowTypes DEF KeyTypeOK, Lapse, GrowOld, Expire, Prune
<1> QED
  BY <1>1, <1>2, <1>3, <1>4 DEF IdempotencyNext

-----------------------------------------------------------------------------
(* Who reads, waits or dies *)

(* Nothing but the steps and what was read changes; a step is never taken back. *)
LEMMA ReadersKeep ==
  ASSUME IdempotencyInv, NEW r \in Requests,
         Acquire(r) \/ WaitIsOver(r) \/ MayRun(r) \/ Die(r)
  PROVE  RunInv' /\ RecordInv' /\ DoomedInv' /\ AnsweredInv' /\ AnswerIsOwn'
<1>1. record' = record /\ answer' = answer /\ outlasted' = outlasted
  BY DEF Acquire, WaitIsOver, MayRun, Die
<1>2. \A s \in Requests : (Stored(s) => Stored(s)') /\ (Wrote(s) => Wrote(s)')
  BY DEF Stored, Wrote, Acquire, WaitIsOver, MayRun, Die, IdempotencyInv, KeyTypeOK
<1>3. \A s \in Requests : step'[s] = "running" => step[s] = "running"
  BY DEF Acquire, WaitIsOver, MayRun, Die, IdempotencyInv, KeyTypeOK
<1>4. \A s \in Requests :
        /\ step[s] = "ended" => step'[s] = "ended"
        /\ step[s] = "running" => step'[s] \in {"running", "ended"}
  BY DEF Acquire, WaitIsOver, MayRun, Die, IdempotencyInv, KeyTypeOK
<1>5. record # None => record.id \in Requests
  BY DEF IdempotencyInv, KeyTypeOK, Records
<1>6. RunInv' /\ RecordInv'
  BY <1>1, <1>2, <1>3, <1>4, <1>5 DEF IdempotencyInv, RunInv, Running, Has, RecordInv
<1>7. AnsweredInv' /\ AnswerIsOwn'
  BY <1>1, <1>2, <1>4 DEF IdempotencyInv, KeyTypeOK, AnsweredInv, AnswerIsOwn, SameContent
<1>8. DoomedInv'
  <2> SUFFICES ASSUME NEW s \in Requests, doomed'[s] # None
               PROVE  /\ step'[doomed'[s]] \in {"running", "failed", "succeeded", "ended"}
                      /\ step'[doomed'[s]] = "running" => doomed'[s] \in outlasted
                      /\ record # None /\ record.id = doomed'[s] =>
                           \/ record.age = "expired"
                           \/ doomed'[s] \in outlasted
                           \/ record.status = "pending" /\ step'[doomed'[s]] = "ended"
    BY <1>1 DEF DoomedInv, Has, Wrote, Stored
  <2>1. CASE doomed'[s] = doomed[s]
    BY <1>2, <1>3, <1>4, <2>1 DEF IdempotencyInv, KeyTypeOK, DoomedInv, Wrote, Stored, Has
  <2>2. CASE doomed'[s] # doomed[s]
    <3>1. MayRun(r) /\ doomed'[s] = record.id /\ record # None
      BY <2>2 DEF Acquire, WaitIsOver, MayRun, Die, IdempotencyInv, KeyTypeOK
    <3>2. ExpiredOrStale /\ record.id \in Requests /\ Wrote(record.id)
      BY <3>1, <1>5 DEF MayRun, IdempotencyInv, RecordInv
    <3>3. record.age # "fresh"
      BY <3>2 DEF ExpiredOrStale
    <3>4. step[record.id] = "running" => record.id \in outlasted
      BY <3>1, <3>2, <3>3 DEF IdempotencyInv, RunInv, Running
    <3>5. record.status = "pending" => step[record.id] \in {"running", "ended"}
      BY <3>1 DEF IdempotencyInv, RecordInv
    <3> QED
      BY <1>2, <1>3, <1>4, <3>1, <3>2, <3>4, <3>5 DEF ExpiredOrStale, Wrote, Stored
  <2> QED
    BY <2>1, <2>2
<1> QED
  BY <1>6, <1>7, <1>8

(* A replay is the answer of the record's writer to its own content. *)
LEMMA AnswersKeep ==
  ASSUME IdempotencyInv, NEW r \in Requests, IsAnswered(r)
  PROVE  RunInv' /\ RecordInv' /\ DoomedInv' /\ AnsweredInv' /\ AnswerIsOwn'
<1>1. record' = record /\ doomed' = doomed /\ outlasted' = outlasted /\ record # None
  BY DEF IsAnswered
<1>2. step' = [step EXCEPT ![r] = "ended"] /\ step[r] = "reading"
  BY DEF IsAnswered
<1>3. record.id \in Requests /\ Wrote(record.id) /\ record.id # r
  BY <1>1, <1>2 DEF IdempotencyInv, KeyTypeOK, Records, RecordInv, Wrote, Stored
<1>4. answer[r] = None /\ \A s \in Requests : answer[s] # r
  BY <1>2 DEF IdempotencyInv, AnsweredInv, Stored
<1>5. \A s \in Requests \ {r} : answer'[s] = answer[s] /\ step'[s] = step[s]
  BY <1>2 DEF IsAnswered, IdempotencyInv, KeyTypeOK
<1>6. answer'[r] # None =>
        /\ answer'[r] = record.id
        /\ SameContent(r, record.id)
        /\ answer[record.id] \in {None, record.id}
        /\ Stored(record.id)
  BY <1>1 DEF IsAnswered, IdempotencyInv, KeyTypeOK, RecordInv
<1>7. RunInv' /\ RecordInv'
  BY <1>1, <1>2, <1>3, <1>5 DEF IdempotencyInv, KeyTypeOK, RunInv, Running, Has, RecordInv, Wrote, Stored
<1>8. DoomedInv'
  BY <1>1, <1>2 DEF IdempotencyInv, KeyTypeOK, DoomedInv, Wrote, Stored, Has
<1>9. AnsweredInv'
  BY <1>2, <1>3, <1>4, <1>5, <1>6 DEF IdempotencyInv, KeyTypeOK, AnsweredInv, Stored
<1>10. AnswerIsOwn'
  <2> SUFFICES ASSUME NEW s \in Requests, answer'[s] # None
               PROVE  SameContent(s, answer'[s]) /\ answer'[answer'[s]] \in {None, answer'[s]}
    BY DEF AnswerIsOwn, SameContent
  <2>1. CASE s = r
    BY <1>3, <1>5, <1>6, <2>1
  <2>2. CASE s # r
    BY <1>4, <1>5, <2>2 DEF IdempotencyInv, KeyTypeOK, AnswerIsOwn
  <2> QED
    BY <2>1, <2>2
<1> QED
  BY <1>7, <1>8, <1>9, <1>10

-----------------------------------------------------------------------------
(* Who writes the record *)

(* What a request deletes has no writer that is on time. *)
LEMMA RemovalsKeep ==
  ASSUME IdempotencyInv, NEW r \in Requests, Remove(r)
  PROVE  RunInv' /\ RecordInv' /\ DoomedInv' /\ AnsweredInv' /\ AnswerIsOwn'
<1>1. (record' = None /\ Has(doomed[r])) \/ record' = record
  BY DEF Remove, Deleted
<1>2. step' = step /\ answer' = answer /\ outlasted' = outlasted
  BY DEF Remove
<1>3. \A s \in Requests : doomed'[s] # None => doomed'[s] = doomed[s]
  BY DEF Remove, IdempotencyInv, KeyTypeOK
<1>4. RunInv'
  BY <1>1, <1>2 DEF Remove, IdempotencyInv, RunInv, DoomedInv, Running, Has
<1>5. RecordInv' /\ AnsweredInv' /\ AnswerIsOwn'
  BY <1>1, <1>2 DEF IdempotencyInv, RecordInv, AnsweredInv, AnswerIsOwn, SameContent, Wrote, Stored
<1>6. DoomedInv'
  BY <1>1, <1>2, <1>3 DEF IdempotencyInv, DoomedInv, Wrote, Stored, Has
<1> QED
  BY <1>4, <1>5, <1>6

LEMMA CreationsKeep ==
  ASSUME IdempotencyInv, NEW r \in Requests, Create(r)
  PROVE  RunInv' /\ RecordInv' /\ DoomedInv' /\ AnsweredInv' /\ AnswerIsOwn'
<1> USE DEF IdempotencyInv, KeyTypeOK
<1>1. step[r] = "creating" /\ doomed' = doomed /\ answer' = answer /\ outlasted' = outlasted
  BY DEF Create
<1>2. \A s \in Requests \ {r} : step'[s] = step[s]
  BY DEF Create
<1>3. \A s \in Requests : doomed[s] # r
  BY <1>1 DEF DoomedInv, Wrote, Stored
<1>4. CASE record = None
  <2>1. record' = [id |-> r, status |-> "pending", response |-> None, age |-> "fresh"]
        /\ step'[r] = "running"
    BY <1>4 DEF Create
  <2>2. \A s \in Running : s \in outlasted
    BY <1>4 DEF RunInv, Has
  <2>3. record' # None
    BY <2>1 DEF Records
  <2>4. RunInv' /\ RecordInv'
    BY <1>1, <1>2, <2>1, <2>2, <2>3 DEF RunInv, Running, Has, RecordInv, Wrote, Stored
  <2>5. DoomedInv'
    BY <1>1, <1>2, <1>3, <2>1 DEF DoomedInv, Wrote, Stored, Has
  <2>6. AnsweredInv' /\ AnswerIsOwn'
    BY <1>1, <1>2, <2>1 DEF AnsweredInv, AnswerIsOwn, SameContent, Stored
  <2> QED
    BY <2>4, <2>5, <2>6
<1>5. CASE record # None
  <2>1. record' = record /\ step'[r] = "ended"
    BY <1>5 DEF Create
  <2>2. record.id \in Requests /\ record.id # r
    BY <1>1, <1>5 DEF Records, RecordInv, Wrote, Stored
  <2>3. RunInv' /\ RecordInv'
    BY <1>1, <1>2, <2>1, <2>2 DEF RunInv, Running, Has, RecordInv, Wrote, Stored
  <2>4. DoomedInv'
    BY <1>1, <1>2, <1>3, <2>1 DEF DoomedInv, Wrote, Stored, Has
  <2>5. AnsweredInv' /\ AnswerIsOwn'
    BY <1>1, <1>2, <2>1 DEF AnsweredInv, AnswerIsOwn, SameContent, Stored
  <2> QED
    BY <2>3, <2>4, <2>5
<1> QED
  BY <1>4, <1>5

(* A late writer finds its own row or none: what it stores or deletes is its
   own pending record. *)
LEMMA RunsEndKeep ==
  ASSUME IdempotencyInv, NEW r \in Requests, Succeed(r) \/ Fail(r)
  PROVE  RunInv' /\ RecordInv' /\ DoomedInv' /\ AnsweredInv' /\ AnswerIsOwn'
<1> USE DEF IdempotencyInv, KeyTypeOK
<1>1. /\ step[r] = "running"
      /\ \A s \in Requests \ {r} : step'[s] = step[s]
      /\ step'[r] \in {"succeeded", "failed"}
  BY DEF Succeed, Fail
<1>2. doomed' = doomed /\ outlasted' = outlasted /\ answer' = answer
  BY DEF Succeed, Fail
<1>3. \A s \in Requests : answer[s] # r /\ (answer[s] # None => s # r)
  BY <1>1 DEF AnsweredInv, Stored
<1>4. AnsweredInv' /\ AnswerIsOwn'
  BY <1>1, <1>2, <1>3 DEF AnsweredInv, AnswerIsOwn, SameContent, Stored
<1>5. CASE ~ Has(r)
  <2>1. record' = record
    BY <1>5 DEF Succeed, Fail, Completed, Deleted
  <2>2. record # None => record.id \in Requests /\ record.id # r
    BY <1>5 DEF Has, Records
  <2>3. RunInv' /\ RecordInv'
    BY <1>1, <1>2, <2>1, <2>2 DEF RunInv, Running, Has, RecordInv, Wrote, Stored
  <2>4. DoomedInv'
    BY <1>1, <1>2, <2>1 DEF DoomedInv, Wrote, Stored, Has
  <2> QED
    BY <1>4, <2>3, <2>4
<1>6. CASE Has(r)
  <2>1. record # None /\ record.id = r /\ record \in Records
    BY <1>6 DEF Has
  <2>2. \A s \in Running : s # r => s \in outlasted
    BY <2>1 DEF RunInv, Has
  <2>3. CASE Fail(r)
    <3>1. record' = None
      BY <1>6, <2>3 DEF Fail, Deleted
    <3> QED
      BY <1>1, <1>2, <1>4, <2>2, <3>1 DEF RunInv, Running, Has, RecordInv, DoomedInv, Wrote, Stored
  <2>4. CASE Succeed(r)
    <3>1. /\ record'.id = r /\ record'.status = "completed" /\ record'.response = r
          /\ record'.age = record.age /\ step'[r] = "succeeded" /\ answer'[r] = None
      BY <1>2, <1>3, <1>6, <2>1, <2>4 DEF Succeed, Completed, Records
    <3>2. RunInv' /\ RecordInv'
      BY <1>1, <1>2, <2>2, <3>1 DEF RunInv, Running, Has, RecordInv, Wrote, Stored
    <3>3. DoomedInv'
      BY <1>1, <1>2, <2>1, <3>1 DEF DoomedInv, Wrote, Stored, Has
    <3> QED
      BY <1>4, <3>2, <3>3
  <2> QED
    BY <2>3, <2>4
<1> QED
  BY <1>5, <1>6

(* Who has stored its answer and lives gets that one. *)
LEMMA ReturnsKeep ==
  ASSUME IdempotencyInv, NEW r \in Requests, Return(r)
  PROVE  RunInv' /\ RecordInv' /\ DoomedInv' /\ AnsweredInv' /\ AnswerIsOwn'
<1> USE DEF IdempotencyInv, KeyTypeOK
<1>1. /\ step[r] \in {"succeeded", "failed"} /\ step'[r] = "ended"
      /\ \A s \in Requests \ {r} : step'[s] = step[s] /\ answer'[s] = answer[s]
  BY DEF Return
<1>2. record' = record /\ doomed' = doomed /\ outlasted' = outlasted
  BY DEF Return
<1>3. answer[r] = None /\ answer'[r] = IF step[r] = "succeeded" THEN r ELSE None
  BY <1>1 DEF Return, AnsweredInv
<1>4. record # None => record.id \in Requests
  BY DEF Records
<1>5. RunInv' /\ RecordInv'
  BY <1>1, <1>2, <1>3, <1>4 DEF RunInv, Running, Has, RecordInv, Wrote, Stored
<1>6. DoomedInv'
  BY <1>1, <1>2 DEF DoomedInv, Wrote, Stored, Has
<1>7. AnsweredInv'
  BY <1>1, <1>3 DEF AnsweredInv, Stored
<1>8. AnswerIsOwn'
  BY <1>1, <1>3 DEF AnswerIsOwn, SameContent
<1> QED
  BY <1>5, <1>6, <1>7, <1>8

(* Who is still running when its record grows old has outlasted the timeout. *)
LEMMA TimeKeeps ==
  ASSUME IdempotencyInv, Lapse \/ GrowOld \/ Expire \/ Prune
  PROVE  RunInv' /\ RecordInv' /\ DoomedInv' /\ AnsweredInv' /\ AnswerIsOwn'
<1> USE DEF IdempotencyInv, KeyTypeOK
<1>1. step' = step /\ doomed' = doomed /\ answer' = answer
  BY DEF Lapse, GrowOld, Expire, Prune
<1>2. AnsweredInv' /\ AnswerIsOwn'
  BY <1>1 DEF AnsweredInv, AnswerIsOwn, SameContent, Stored
<1>3. CASE Lapse
  BY <1>1, <1>2, <1>3 DEF Lapse, RunInv, Running, Has, RecordInv, DoomedInv, Wrote, Stored
<1>4. CASE GrowOld
  <2>1. record # None /\ record \in Records /\ record.age = "fresh"
    BY <1>4 DEF GrowOld
  <2>2. /\ record'.id = record.id /\ record'.status = record.status
        /\ record'.response = record.response /\ record'.age = "old"
        /\ record' # None
    BY <1>4, <2>1, RowTypes DEF GrowOld, Records
  <2>3. /\ outlasted \subseteq outlasted'
        /\ step[record.id] = "running" => record.id \in outlasted'
    BY <1>4 DEF GrowOld
  <2>4. RunInv' /\ RecordInv'
    BY <1>1, <2>1, <2>2, <2>3 DEF RunInv, Running, Has, RecordInv, Wrote, Stored
  <2>5. DoomedInv'
    BY <1>1, <2>1, <2>2, <2>3 DEF DoomedInv, Wrote, Stored, Has
  <2> QED
    BY <1>2, <2>4, <2>5
<1>5. CASE Expire
  <2>1. record # None /\ record \in Records /\ record.age = "old" /\ outlasted' = outlasted
    BY <1>5 DEF Expire
  <2>2. /\ record'.id = record.id /\ record'.status = record.status
        /\ record'.response = record.response /\ record'.age = "expired"
        /\ record' # None
    BY <1>5, <2>1, RowTypes DEF Expire, Records
  <2> QED
    BY <1>1, <1>2, <2>1, <2>2 DEF RunInv, Running, Has, RecordInv, DoomedInv, Wrote, Stored
<1>6. CASE Prune
  BY <1>1, <1>2, <1>6 DEF Prune, RunInv, Running, Has, RecordInv, DoomedInv, Wrote, Stored
<1> QED
  BY <1>3, <1>4, <1>5, <1>6

-----------------------------------------------------------------------------
(* The theorems *)

LEMMA IdempotencyStep ==
  IdempotencyInv /\ [IdempotencyNext]_idempotencyVars => IdempotencyInv'
<1> SUFFICES ASSUME IdempotencyInv, [IdempotencyNext]_idempotencyVars
             PROVE  IdempotencyInv'
  OBVIOUS
<1>1. CASE IdempotencyNext
  <2>1. KeyTypeOK'
    BY <1>1, KeyTypesHold DEF IdempotencyInv
  <2>2. RunInv' /\ RecordInv' /\ DoomedInv' /\ AnsweredInv' /\ AnswerIsOwn'
    BY <1>1, ReadersKeep, AnswersKeep, RemovalsKeep, CreationsKeep, RunsEndKeep,
       ReturnsKeep, TimeKeeps
    DEF IdempotencyNext
  <2> QED
    BY <2>1, <2>2 DEF IdempotencyInv
<1>2. CASE UNCHANGED idempotencyVars
  BY <1>2 DEF idempotencyVars, IdempotencyInv, KeyTypeOK, RunInv, Running, Has, RecordInv,
              DoomedInv, Wrote, Stored, AnsweredInv, AnswerIsOwn, SameContent
<1> QED
  BY <1>1, <1>2

(* Rows, late writers and doomed rows agree, however the requests interleave,
   stall and die. *)
THEOREM IdempotencyInvariant == IdempotencySpec => []IdempotencyInv
BY IdempotencyStart, IdempotencyStep, PTL DEF IdempotencySpec

(* Two requests with one key run at once only if one of them has run for longer
   than the pending timeout, whenever their leases were lost. *)
THEOREM RunsAreSerialized == IdempotencySpec => []OneRunAtATime
<1>1. IdempotencyInv => OneRunAtATime
  BY DEF IdempotencyInv, RunInv, OneRunAtATime, Has
<1> QED
  BY <1>1, IdempotencyInvariant, PTL

(* An answer, replayed or not, is of a run with the same content. *)
THEOREM AnswersAreOwn == IdempotencySpec => []AnswerIsOwn
<1>1. IdempotencyInv => AnswerIsOwn
  BY DEF IdempotencyInv
<1> QED
  BY <1>1, IdempotencyInvariant, PTL

LEMMA StepKeepsTheAnswer ==
  IdempotencyInv /\ [IdempotencyNext]_idempotencyVars => KeepsItsAnswer
<1> SUFFICES ASSUME IdempotencyInv, [IdempotencyNext]_idempotencyVars,
                    record # None, record.status = "completed", record.age # "expired",
                    record.id \notin outlasted
             PROVE  record' # None /\ [record' EXCEPT !.age = record.age] = record
  BY DEF KeepsItsAnswer
<1> USE DEF IdempotencyInv, KeyTypeOK
<1>1. record \in Records /\ record.id \in Requests /\ Stored(record.id)
  <2>1. record \in Records /\ record.id \in Requests
    BY DEF Records
  <2> QED
    BY <2>1 DEF RecordInv
<1>2. [record EXCEPT !.age = record.age] = record
  BY <1>1 DEF Records
<1>3. CASE record' = record
  BY <1>2, <1>3
<1>4. ASSUME NEW r \in Requests, Remove(r) PROVE record' = record
  BY <1>4 DEF Remove, Deleted, DoomedInv, Has
<1>5. ASSUME NEW r \in Requests, Succeed(r) \/ Fail(r) PROVE record' = record
  BY <1>1, <1>5 DEF Succeed, Fail, Completed, Deleted, Has, Stored
<1>6. CASE GrowOld \/ Expire
  <2>1. PICK age \in {"old", "expired"} : record' = [record EXCEPT !.age = age]
    BY <1>6 DEF GrowOld, Expire
  <2>2. record' # None /\ [record' EXCEPT !.age = record.age] = record
    BY <1>1, <2>1, RowTypes DEF Records
  <2> QED
    BY <2>2
<1>7. ASSUME NEW r \in Requests,
             Acquire(r) \/ WaitIsOver(r) \/ MayRun(r) \/ IsAnswered(r) \/ Create(r)
               \/ Return(r) \/ Die(r)
      PROVE  record' = record
  BY <1>7 DEF Acquire, WaitIsOver, MayRun, IsAnswered, Create, Return, Die
<1>8. CASE Lapse \/ Prune \/ UNCHANGED idempotencyVars
  BY <1>3, <1>8 DEF Lapse, Prune, idempotencyVars
<1> QED
  BY <1>3, <1>4, <1>5, <1>6, <1>7, <1>8 DEF IdempotencyNext

(* A stored answer stays until it expires: no late failure, removal or takeover
   undoes it. *)
THEOREM CompletedAnswersAreKept == IdempotencySpec => CompletedIsKept
BY StepKeepsTheAnswer, IdempotencyInvariant, PTL DEF CompletedIsKept, IdempotencySpec
=============================================================================
