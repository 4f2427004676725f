--------------------------- MODULE ApiIdempotency ---------------------------
(***************************************************************************)
(* The requests that one caller sends with one Idempotency-Key to one      *)
(* route, and the record that lets the application run once for them.      *)
(*                                                                         *)
(*   src/app/Http/Middleware/EnsureIdempotentApiRequest.php                *)
(*   src/app/Models/ApiIdempotencyKey.php                                  *)
(*   src/app/Console/Commands/PruneApiIdempotencyKeys.php                  *)
(*                                                                         *)
(* The cache lock is a lease: a request that takes long loses it and does  *)
(* not notice.  Nothing here is one transaction: each query of the record  *)
(* is a step, and a request may stall or die between any two.  The table   *)
(* has a unique index on caller and key, so there is at most one record;   *)
(* its id is the request that created it.                                  *)
(***************************************************************************)
EXTENDS Naturals

CONSTANTS
  Requests,   \* each sent once; a retry is another request
  Different,  \* those whose path, query, body or files differ from the others'
  None

(* status and response_* of a row; age is "old" when the row has not been
   updated for the pending timeout, and "expired" after 24 hours. *)
Records ==
  [id : Requests, status : {"pending", "completed"},
   response : Requests \cup {None}, age : {"fresh", "old", "expired"}]

ASSUME IdempotencyAssumption == Different \subseteq Requests /\ None \notin Requests \cup Records

VARIABLES
  lock,       \* the request that holds the cache lock
  record,     \* the row of the key
  step,       \* how far each request is
  doomed,     \* the record it has found expired or stale
  answer,     \* the request whose run answered it
  outlasted   \* requests that ran for longer than the pending timeout

idempotencyVars == <<lock, record, step, doomed, answer, outlasted>>

(* A step is "new"; "reading", with the lock; "creating", when it may run and
   the record is not yet written; "running" the application; "succeeded" or
   "failed", with the record written and the lock not yet released; or "ended". *)
Steps == {"new", "reading", "creating", "running", "succeeded", "failed", "ended"}

IdempotencyInit ==
  /\ lock = None
  /\ record = None
  /\ step = [r \in Requests |-> "new"]
  /\ doomed = [r \in Requests |-> None]
  /\ answer = [r \in Requests |-> None]
  /\ outlasted = {}

-----------------------------------------------------------------------------
(* The record and the lock *)

(* requestFingerprint() *)
SameContent(r, s) == r \in Different <=> s \in Different

\* Mutant of ExpiredOrStale: a pending record is abandoned as soon as its lock is free.
ExpiredOrUnlocked == record.age = "expired" \/ record.status = "pending"

ExpiredOrStale ==
  \/ record.age = "expired"
  \/ record.status = "pending" /\ record.age = "old"

Release(r) == lock' = IF lock = r THEN None ELSE lock

Has(id) == record # None /\ record.id = id

\* Mutant of Completed: the answer is stored under the key, in whatever record is there.
CompletedByKey(r) ==
  IF record # None THEN [record EXCEPT !.status = "completed", !.response = r] ELSE record

(* save(): updates the row with this id, and none if that is gone. *)
Completed(r) ==
  IF Has(r) THEN [record EXCEPT !.status = "completed", !.response = r] ELSE record

\* Mutant of Deleted: the record is deleted by its key.
DeletedByKey(id) == None

Deleted(id) == IF Has(id) THEN None ELSE record

-----------------------------------------------------------------------------
(* handle() and process() *)

Acquire(r) ==
  /\ step[r] = "new"
  /\ lock = None
  /\ lock' = r
  /\ step' = [step EXCEPT ![r] = "reading"]
  /\ UNCHANGED <<record, doomed, answer, outlasted>>

(* Answered in_progress after lock_wait_seconds. *)
WaitIsOver(r) ==
  /\ step[r] = "new"
  /\ lock # None
  /\ step' = [step EXCEPT ![r] = "ended"]
  /\ UNCHANGED <<lock, record, doomed, answer, outlasted>>

(* No record, or none that counts. *)
MayRun(r) ==
  /\ step[r] = "reading"
  /\ record # None => ExpiredOrStale
  /\ doomed' = [doomed EXCEPT ![r] = IF record = None THEN None ELSE record.id]
  /\ step' = [step EXCEPT ![r] = "creating"]
  /\ UNCHANGED <<lock, record, answer, outlasted>>

(* Replayed, or refused: idempotency_key_reused, idempotency_in_progress. *)
IsAnswered(r) ==
  /\ step[r] = "reading"
  /\ record # None /\ ~ExpiredOrStale
  /\ answer' = [answer EXCEPT ![r] =
       IF SameContent(r, record.id) /\ record.status = "completed" THEN record.response ELSE None]
  /\ step' = [step EXCEPT ![r] = "ended"]
  /\ Release(r)
  /\ UNCHANGED <<record, doomed, outlasted>>

Remove(r) ==
  /\ step[r] = "creating"
  /\ doomed[r] # None
  /\ record' = Deleted(doomed[r])
  /\ doomed' = [doomed EXCEPT ![r] = None]
  /\ UNCHANGED <<lock, step, answer, outlasted>>

Create(r) ==
  /\ step[r] = "creating"
  /\ doomed[r] = None
  /\ IF record = None
     THEN /\ record' = [id |-> r, status |-> "pending", response |-> None, age |-> "fresh"]
          /\ step' = [step EXCEPT ![r] = "running"]
          /\ UNCHANGED lock
     ELSE /\ step' = [step EXCEPT ![r] = "ended"]
          /\ Release(r)
          /\ UNCHANGED record
  /\ UNCHANGED <<doomed, answer, outlasted>>

(* A response below 500 is stored. *)
Succeed(r) ==
  /\ step[r] = "running"
  /\ record' = Completed(r)
  /\ step' = [step EXCEPT ![r] = "succeeded"]
  /\ UNCHANGED <<lock, doomed, answer, outlasted>>

(* An exception, or a response of 500 and above. *)
Fail(r) ==
  /\ step[r] = "running"
  /\ record' = Deleted(r)
  /\ step' = [step EXCEPT ![r] = "failed"]
  /\ UNCHANGED <<lock, doomed, answer, outlasted>>

(* block() releases the lock, and what the run returned or threw goes out. *)
Return(r) ==
  /\ step[r] \in {"succeeded", "failed"}
  /\ answer' = IF step[r] = "succeeded" THEN [answer EXCEPT ![r] = r] ELSE answer
  /\ step' = [step EXCEPT ![r] = "ended"]
  /\ Release(r)
  /\ UNCHANGED <<record, doomed, outlasted>>

-----------------------------------------------------------------------------
(* Time, crashes and the schedule *)

(* The lease of the lock ends. *)
Lapse ==
  /\ lock # None
  /\ lock' = None
  /\ UNCHANGED <<record, step, doomed, answer, outlasted>>

Die(r) ==
  /\ step[r] \notin {"new", "ended"}
  /\ step' = [step EXCEPT ![r] = "ended"]
  /\ UNCHANGED <<lock, record, doomed, answer, outlasted>>

(* The pending timeout is longer than the lease of the lock. *)
GrowOld ==
  /\ record # None /\ record.age = "fresh"
  /\ lock # record.id
  /\ record' = [record EXCEPT !.age = "old"]
  /\ outlasted' = IF step[record.id] = "running" THEN outlasted \cup {record.id} ELSE outlasted
  /\ UNCHANGED <<lock, step, doomed, answer>>

Expire ==
  /\ record # None /\ record.age = "old"
  /\ record' = [record EXCEPT !.age = "expired"]
  /\ UNCHANGED <<lock, step, doomed, answer, outlasted>>

(* api:idempotency:prune, scheduled daily *)
Prune ==
  /\ record # None /\ record.age = "expired"
  /\ record' = None
  /\ UNCHANGED <<lock, step, doomed, answer, outlasted>>

IdempotencyNext ==
  \/ \E r \in Requests :
       \/ Acquire(r) \/ WaitIsOver(r) \/ MayRun(r) \/ IsAnswered(r) \/ Remove(r)
       \/ Create(r) \/ Succeed(r) \/ Fail(r) \/ Return(r) \/ Die(r)
  \/ Lapse \/ GrowOld \/ Expire \/ Prune

IdempotencySpec == IdempotencyInit /\ [][IdempotencyNext]_idempotencyVars

-----------------------------------------------------------------------------
(* Properties *)

Running == {r \in Requests : step[r] = "running"}

(* docs/api/idempotency.md: matching requests are serialized.  The application
   runs for two of them at once only while one has been running for longer
   than the pending timeout, though the lock is lost long before that. *)
OneRunAtATime ==
  \A r, s \in Running \ outlasted : r = s

(* A replayed answer is of the run of a request with the same content, and of
   none that was itself answered otherwise - it may have died before it was
   answered: also when that run's record was taken over by a request with
   another content before it ended. *)
AnswerIsOwn ==
  \A r \in Requests : answer[r] # None =>
    /\ SameContent(r, answer[r])
    /\ answer[answer[r]] \in {None, answer[r]}

(* docs/api/idempotency.md: once a request has completed, application code does
   not run again for its key while the record lives; no late failure, removal
   or takeover by another request undoes it.  Only a record completed after
   the pending timeout may still be removed by a request that found it stale. *)
KeepsItsAnswer ==
  record # None /\ record.status = "completed" /\ record.age # "expired"
    /\ record.id \notin outlasted
  => record' # None /\ [record' EXCEPT !.age = record.age] = record

CompletedIsKept == [][KeepsItsAnswer]_idempotencyVars

-----------------------------------------------------------------------------
(* The invariant from which the three follow *)

KeyTypeOK ==
  /\ lock \in Requests \cup {None}
  /\ record \in Records \cup {None}
  /\ step \in [Requests -> Steps]
  /\ doomed \in [Requests -> Requests \cup {None}]
  /\ answer \in [Requests -> Requests \cup {None}]
  /\ outlasted \subseteq Requests

Stored(r) == step[r] \in {"succeeded", "ended"}

Wrote(r) == step[r] \in {"running", "failed"} \/ Stored(r)

(* Who runs within the pending timeout has its record, pending and fresh. *)
RunInv ==
  \A r \in Running \ outlasted :
    Has(r) /\ record.status = "pending" /\ record.age = "fresh"

(* A record has its writer, and completed is what that writer made it; one that
   is still pending has a writer that is running or has died. *)
RecordInv ==
  record # None =>
    /\ Wrote(record.id)
    /\ record.status = "pending" => step[record.id] \in {"running", "ended"}
    /\ record.status = "completed" =>
         /\ record.response = record.id
         /\ Stored(record.id)
         /\ answer[record.id] \in {None, record.id}

(* A record that was found stale stays one that may go: its writer is late or
   has died, or its day is over. *)
DoomedInv ==
  \A r \in Requests : doomed[r] # None =>
    /\ Wrote(doomed[r])
    /\ step[doomed[r]] = "running" => doomed[r] \in outlasted
    /\ Has(doomed[r]) =>
         \/ record.age = "expired"
         \/ doomed[r] \in outlasted
         \/ record.status = "pending" /\ step[doomed[r]] = "ended"

AnsweredInv ==
  \A r \in Requests : answer[r] # None => step[r] = "ended" /\ Stored(answer[r])

(* What the late, the dead and the doomed requests for one key have in common
   with its record. *)
IdempotencyInv ==
  KeyTypeOK /\ RunInv /\ RecordInv /\ DoomedInv /\ AnsweredInv /\ AnswerIsOwn
=============================================================================
