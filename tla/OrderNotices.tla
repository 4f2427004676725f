----------------------------- MODULE OrderNotices -----------------------------
(***************************************************************************)
(* One notification of one order event to one recipient: its row, the      *)
(* queued jobs that send it, and the schedule that recovers it.            *)
(*                                                                         *)
(*   src/app/Services/Orders/OrderNotifications.php                        *)
(*   src/app/Jobs/SendOrderNotification.php                                *)
(*   src/app/Console/Commands/RecoverOrderNotifications.php                *)
(*   src/app/Support/Database/RetryingTransaction.php                      *)
(*                                                                         *)
(* Rows do not affect each other.  The job is pushed after the commit that *)
(* promised it, and lost if the process dies in between.  The queue        *)
(* (external: the framework's database queue) hands a job to one worker at *)
(* a time, counts the attempt, and offers it again when the attempt throws *)
(* or its worker dies: retry_after is longer than the job's timeout.  Mail *)
(* is sent inside the transaction that holds the row's lock.               *)
(***************************************************************************)
EXTENDS Naturals

CONSTANTS
  Jobs,         \* jobs in the queue at one time
  None,
  Tries,        \* SendOrderNotification::$tries
  MishapBound   \* on deaths, reruns, and retries by an operator

ASSUME NoticesAssumption ==
  /\ None \notin Jobs
  /\ Tries \in Nat \ {0}
  /\ MishapBound \in Nat

VARIABLES
  recorded,     \* the order_notification_deliveries row exists
  marks,        \* which of sent_at, failed_at, suppressed_at are set
  queuedAt,     \* "null", "recent" (the last five minutes) or "old"
  lock,         \* the job whose transaction holds the row
  job,          \* what has become of each job
  tries,        \* its attempts so far
  mails,        \* accepted by the mail server
  unrecorded,   \* ... in transactions that never committed
  mishaps

rowVars     == <<recorded, marks, queuedAt>>
mailVars    == <<mails, unrecorded>>
noticesVars == <<rowVars, lock, job, tries, mailVars, mishaps>>

(* "promised": dispatched, not pushed; "started": popped, waiting for the row;
   "sending": holds it; "mailed": the mail is accepted; "finished": committed,
   the job not yet deleted; "failing": exhausted, failed() not yet done. *)
JobStates == {"none", "promised", "queued", "started", "sending", "mailed", "finished", "failing"}

NoticesTypeOK ==
  /\ recorded \in BOOLEAN
  /\ marks \subseteq {"sent", "failed", "suppressed"}
  /\ queuedAt \in {"null", "recent", "old"}
  /\ lock \in Jobs \cup {None}
  /\ job \in [Jobs -> JobStates]
  /\ tries \in [Jobs -> 0..Tries]
  /\ mails \in Nat
  /\ unrecorded \in Nat
  /\ mishaps \in Nat

NoticesInit ==
  /\ recorded = FALSE
  /\ marks = {}
  /\ queuedAt = "null"
  /\ lock = None
  /\ job = [j \in Jobs |-> "none"]
  /\ tries = [j \in Jobs |-> 0]
  /\ mails = 0
  /\ unrecorded = 0
  /\ mishaps = 0

Pending == recorded /\ marks = {}

Mishap == mishaps < MishapBound /\ mishaps' = mishaps + 1

Becomes(j, state) == job' = [job EXCEPT ![j] = state]

-----------------------------------------------------------------------------
(* The row and its recovery *)

Promise(j) ==
  /\ job[j] = "none"
  /\ Becomes(j, "promised")
  /\ tries' = [tries EXCEPT ![j] = 0]
  /\ queuedAt' = "recent"

(* record(): the row and the promise of a job commit with the event. *)
Record(j) ==
  /\ ~recorded
  /\ recorded' = TRUE
  /\ Promise(j)
  /\ UNCHANGED <<marks, lock, mailVars, mishaps>>

Push(j) ==
  /\ job[j] = "promised"
  /\ Becomes(j, "queued")
  /\ UNCHANGED <<rowVars, lock, tries, mailVars, mishaps>>

PusherDies(j) ==
  /\ job[j] = "promised"
  /\ Mishap
  /\ Becomes(j, "none")
  /\ UNCHANGED <<rowVars, lock, tries, mailVars>>

FiveMinutesPass ==
  /\ queuedAt = "recent"
  /\ queuedAt' = "old"
  /\ UNCHANGED <<recorded, marks, lock, job, tries, mailVars, mishaps>>

\* Mutant of Recoverable: rows that were ever queued are not picked.
RecoverableUnqueued == Pending /\ queuedAt = "null"

Recoverable == Pending /\ queuedAt # "recent"

(* recover(): another job for a row that waits too long, whatever has become
   of the earlier one. *)
Recover(j) ==
  /\ Recoverable
  /\ lock = None
  /\ Promise(j)
  /\ UNCHANGED <<recorded, marks, lock, mailVars, mishaps>>

(* recover --retry-failed, by an operator. *)
RetryFailed ==
  /\ "failed" \in marks /\ marks \cap {"sent", "suppressed"} = {}
  /\ lock = None
  /\ Mishap
  /\ marks' = marks \ {"failed"}
  /\ queuedAt' = "null"
  /\ UNCHANGED <<recorded, lock, job, tries, mailVars>>

-----------------------------------------------------------------------------
(* A worker *)

(* The queue fails a job that has used its attempts instead of running it. *)
Pop(j) ==
  /\ job[j] = "queued"
  /\ IF tries[j] < Tries
     THEN Becomes(j, "started") /\ tries' = [tries EXCEPT ![j] = @ + 1]
     ELSE Becomes(j, "failing") /\ UNCHANGED tries
  /\ UNCHANGED <<rowVars, lock, mailVars, mishaps>>

\* Mutant of Unsent: what the row said is read before its lock.
UnsentBefore == TRUE

Unsent == marks = {}

(* deliver(): under the row's lock, unless it has been sent, failed or
   suppressed. *)
Begin(j) ==
  /\ job[j] = "started"
  /\ lock = None
  /\ Unsent
  /\ lock' = j
  /\ Becomes(j, "sending")
  /\ UNCHANGED <<rowVars, tries, mailVars, mishaps>>

NothingToDo(j) ==
  /\ job[j] = "started"
  /\ lock = None
  /\ ~Unsent
  /\ Becomes(j, "finished")
  /\ UNCHANGED <<rowVars, lock, tries, mailVars, mishaps>>

(* The recipient may no longer see the order. *)
Suppress(j) ==
  /\ job[j] = "sending"
  /\ marks' = marks \cup {"suppressed"}
  /\ lock' = None
  /\ Becomes(j, "finished")
  /\ UNCHANGED <<recorded, queuedAt, tries, mailVars, mishaps>>

MailAccepted(j) ==
  /\ job[j] = "sending"
  /\ mails' = mails + 1
  /\ Becomes(j, "mailed")
  /\ UNCHANGED <<rowVars, lock, tries, unrecorded, mishaps>>

(* The attempt throws; it was the last one, or the job is released. *)
MailRefused(j) ==
  /\ job[j] = "sending"
  /\ lock' = None
  /\ Becomes(j, IF tries[j] < Tries THEN "queued" ELSE "failing")
  /\ UNCHANGED <<rowVars, tries, mailVars, mishaps>>

Commit(j) ==
  /\ job[j] = "mailed"
  /\ marks' = marks \cup {"sent"}
  /\ lock' = None
  /\ Becomes(j, "finished")
  /\ UNCHANGED <<recorded, queuedAt, tries, mailVars, mishaps>>

(* The commit meets a deadlock and the whole callback runs again. *)
Rerun(j) ==
  /\ job[j] = "mailed"
  /\ Mishap
  /\ lock' = None
  /\ unrecorded' = unrecorded + 1
  /\ Becomes(j, "started")
  /\ UNCHANGED <<rowVars, tries, mails>>

Delete(j) ==
  /\ job[j] = "finished"
  /\ Becomes(j, "none")
  /\ UNCHANGED <<rowVars, lock, tries, mailVars, mishaps>>

\* Mutant of Fails: failed() does not look at the row.
FailsAlways == marks' = marks \cup {"failed"}

Fails == marks' = IF marks \cap {"sent", "suppressed"} = {} THEN marks \cup {"failed"}
                                                           ELSE marks

(* failed(): one update, which waits for whoever holds the row. *)
Fail(j) ==
  /\ job[j] = "failing"
  /\ lock = None
  /\ Fails
  /\ Becomes(j, "none")
  /\ UNCHANGED <<recorded, queuedAt, lock, tries, mailVars, mishaps>>

(* Killed or out of time: its transaction is rolled back, and the queue offers
   the job again. *)
WorkerDies(j) ==
  /\ job[j] \in {"started", "sending", "mailed", "finished", "failing"}
  /\ Mishap
  /\ lock' = IF lock = j THEN None ELSE lock
  /\ unrecorded' = IF job[j] = "mailed" THEN unrecorded + 1 ELSE unrecorded
  /\ Becomes(j, "queued")
  /\ UNCHANGED <<rowVars, tries, mails>>

-----------------------------------------------------------------------------

Attempt(j) ==
  \/ Suppress(j)
  \/ MailAccepted(j)
  \/ MailRefused(j)

Work(j) ==
  \/ Pop(j)
  \/ Begin(j)
  \/ NothingToDo(j)
  \/ Attempt(j)
  \/ Commit(j)
  \/ Rerun(j)
  \/ Delete(j)
  \/ Fail(j)
  \/ WorkerDies(j)

NoticesNext ==
  \/ FiveMinutesPass
  \/ RetryFailed
  \/ \E j \in Jobs : Record(j) \/ Push(j) \/ PusherDies(j) \/ Recover(j) \/ Work(j)

NoticesSpec == NoticesInit /\ [][NoticesNext]_noticesVars

(* Queue workers and the five-minute schedule run, time passes, and a waiting
   transaction gets the row at last.  Nothing is assumed of the mail server
   but that it answers or times out, and nothing of who survives beyond
   MishapBound deaths. *)
NoticesFairness ==
  /\ WF_noticesVars(FiveMinutesPass)
  /\ SF_noticesVars(\E j \in Jobs : Recover(j))
  /\ \A j \in Jobs :
       /\ WF_noticesVars(Push(j))
       /\ WF_noticesVars(Pop(j))
       /\ SF_noticesVars(Begin(j) \/ NothingToDo(j))
       /\ WF_noticesVars(Attempt(j))
       /\ WF_noticesVars(Commit(j))
       /\ WF_noticesVars(Delete(j))
       /\ SF_noticesVars(Fail(j))

FairNoticesSpec == NoticesSpec /\ NoticesFairness

-----------------------------------------------------------------------------
(* Properties *)

(* docs/plans/2026-10-18-order-review.md:99: a successful delivery prevents
   duplicates; only a mail whose transaction did not commit is sent again.
   Any number of jobs for the row, in any order, send one mail besides those. *)
OneMailPerReceipt ==
  mails = unrecorded + (IF "sent" \in marks \/ \E j \in Jobs : job[j] = "mailed"
                        THEN 1 ELSE 0)

EndedIsKept ==
  /\ marks # {} => mails' = mails
  /\ marks # {} => \/ marks' = marks
                   \/ marks = {"failed"} /\ marks' = {}
  /\ \A m, n \in marks' : m = n

(* A notification ends in one way, sent, failed or suppressed, and nothing is
   mailed afterwards by jobs still in the queue; an operator may reopen a
   failed one, and no other. *)
EndIsFinal == [][EndedIsKept]_noticesVars

(* Every notification recorded ends, whichever process dies on the way: a
   promised job that was never pushed is made up for. *)
NotificationEnds == recorded ~> marks # {}
-----------------------------------------------------------------------------
(* The inductive invariant *)

(* The row is held by the one job between its check and its commit, and has
   not ended while it is. *)
LockInv ==
  /\ \A j \in Jobs : job[j] \in {"sending", "mailed"} <=> lock = j
  /\ lock # None => marks = {}
  /\ \A m, n \in marks : m = n

NoticesInv == NoticesTypeOK /\ LockInv /\ OneMailPerReceipt
=============================================================================
