-------------------------- MODULE OrderNoticesProofs --------------------------
(***************************************************************************)
(* Theorems about OrderNotices, for any number of jobs and tries.          *)
(***************************************************************************)
EXTENDS OrderNotices, TLAPS

USE NoticesAssumption

InFlight == \E j \in Jobs : job[j] = "mailed"

LEMMA InitialNotice == NoticesInit => NoticesInv
<1> SUFFICES ASSUME NoticesInit PROVE NoticesInv
  OBVIOUS
<1>1. NoticesTypeOK
  <2>1. job \in [Jobs -> JobStates] /\ tries \in [Jobs -> 0..Tries]
    BY DEF NoticesInit, JobStates
  <2> QED
    BY <2>1 DEF NoticesInit, NoticesTypeOK
<1>2. LockInv
  BY DEF NoticesInit, LockInv
<1>3. OneMailPerReceipt
  BY DEF NoticesInit, OneMailPerReceipt
<1> QED
  BY <1>1, <1>2, <1>3 DEF NoticesInv

LEMMA BecomesTyped ==
  ASSUME NoticesTypeOK, NEW j \in Jobs, NEW state \in JobStates, Becomes(j, state)
  PROVE  job' \in [Jobs -> JobStates]
BY DEF NoticesTypeOK, Becomes

(* Every step of a job gives it one of its states. *)
LEMMA JobsTyped ==
  ASSUME NoticesTypeOK, [NoticesNext]_noticesVars
  PROVE  job' \in [Jobs -> JobStates]
<1>1. ASSUME NEW j \in Jobs,
             Record(j) \/ Push(j) \/ PusherDies(j) \/ Recover(j) \/ Work(j)
      PROVE  \E state \in JobStates : Becomes(j, state)
  BY <1>1 DEF Record, Push, PusherDies, Recover, Promise, Work, Pop, Begin, NothingToDo,
       Attempt, Suppress, MailAccepted, MailRefused, Commit, Rerun, Delete, Fail, WorkerDies,
       JobStates
<1>2. CASE FiveMinutesPass \/ RetryFailed \/ UNCHANGED noticesVars
  BY <1>2 DEF FiveMinutesPass, RetryFailed, noticesVars, NoticesTypeOK
<1> QED
  BY <1>1, <1>2, BecomesTyped DEF NoticesNext

LEMMA NoticeTyped == NoticesTypeOK /\ [NoticesNext]_noticesVars => NoticesTypeOK'
<1> SUFFICES ASSUME NoticesTypeOK, [NoticesNext]_noticesVars PROVE NoticesTypeOK'
  OBVIOUS
<1> job' \in [Jobs -> JobStates]
  BY JobsTyped
<1> USE DEF NoticesTypeOK, rowVars, mailVars, Mishap
<1>1. CASE FiveMinutesPass \/ UNCHANGED noticesVars
  BY <1>1 DEF FiveMinutesPass, noticesVars
<1>2. CASE RetryFailed
  BY <1>2 DEF RetryFailed
<1>3. ASSUME NEW j \in Jobs, Promise(j) PROVE tries' \in [Jobs -> 0..Tries] /\ queuedAt' = "recent"
  BY <1>3 DEF Promise
<1>4. ASSUME NEW j \in Jobs, Record(j) PROVE NoticesTypeOK'
  BY <1>3, <1>4 DEF Record
<1>11. ASSUME NEW j \in Jobs, Recover(j) PROVE NoticesTypeOK'
  BY <1>3, <1>11 DEF Recover
<1>5. ASSUME NEW j \in Jobs, Push(j) PROVE NoticesTypeOK'
  BY <1>5 DEF Push
<1>12. ASSUME NEW j \in Jobs, PusherDies(j) PROVE NoticesTypeOK'
  BY <1>12 DEF PusherDies
<1>6. ASSUME NEW j \in Jobs, Pop(j) PROVE NoticesTypeOK'
  <2>1. tries' \in [Jobs -> 0..Tries]
    BY <1>6 DEF Pop
  <2> QED
    BY <1>6, <2>1 DEF Pop
<1>7. ASSUME NEW j \in Jobs, Begin(j) \/ NothingToDo(j) \/ Delete(j) PROVE NoticesTypeOK'
  BY <1>7 DEF Begin, NothingToDo, Delete
<1>8. ASSUME NEW j \in Jobs, Fail(j) PROVE NoticesTypeOK'
  <2>1. marks' \subseteq {"sent", "failed", "suppressed"}
    BY <1>8 DEF Fail, Fails
  <2> QED
    BY <1>8, <2>1 DEF Fail
<1>9. ASSUME NEW j \in Jobs, Attempt(j) \/ Commit(j) PROVE NoticesTypeOK'
  <2>1. marks' \subseteq {"sent", "failed", "suppressed"}
    BY <1>9 DEF Attempt, Suppress, MailAccepted, MailRefused, Commit
  <2> QED
    BY <1>9, <2>1 DEF Attempt, Suppress, MailAccepted, MailRefused, Commit
<1>10. ASSUME NEW j \in Jobs, Rerun(j) \/ WorkerDies(j) PROVE NoticesTypeOK'
  <2>1. unrecorded' \in Nat
    BY <1>10 DEF Rerun, WorkerDies
  <2>2. lock' \in Jobs \cup {None}
    BY <1>10 DEF Rerun, WorkerDies
  <2>3. mishaps' \in Nat
    BY <1>10 DEF Rerun, WorkerDies
  <2>4. UNCHANGED <<recorded, marks, queuedAt, tries, mails>>
    BY <1>10 DEF Rerun, WorkerDies
  <2> QED
    BY <2>1, <2>2, <2>3, <2>4
<1> QED
  BY <1>1, <1>2, <1>4, <1>5, <1>6, <1>7, <1>8, <1>9, <1>10, <1>11, <1>12
     DEF NoticesNext, Work

(* Steps that leave the lock and the marks alone, and no mail in flight more or
   less: pushing, popping, deleting. *)
LEMMA QuietStep ==
  ASSUME NoticesInv, NEW j \in Jobs, NEW state \in JobStates \ {"sending", "mailed"},
         job[j] \notin {"sending", "mailed"},
         Becomes(j, state), UNCHANGED <<lock, marks, mailVars>>
  PROVE  LockInv' /\ OneMailPerReceipt'
<1>1. \A k \in Jobs : job'[k] \in {"sending", "mailed"} <=> job[k] \in {"sending", "mailed"}
  BY DEF Becomes, NoticesInv, NoticesTypeOK
<1>2. \A k \in Jobs : job'[k] = "mailed" <=> job[k] = "mailed"
  BY DEF Becomes, NoticesInv, NoticesTypeOK
<1>3. LockInv'
  BY <1>1 DEF LockInv, NoticesInv
<1>4. InFlight' <=> InFlight
  BY <1>2 DEF InFlight
<1>5. OneMailPerReceipt'
  BY <1>4 DEF OneMailPerReceipt, NoticesInv, mailVars, InFlight
<1> QED
  BY <1>3, <1>5

(* While a job holds the row no other has mail in flight, and nothing has
   ended. *)
LEMMA HolderIsAlone ==
  ASSUME NoticesInv, NEW j \in Jobs, job[j] \in {"sending", "mailed"}
  PROVE  /\ lock = j
         /\ marks = {}
         /\ \A k \in Jobs \ {j} : job[k] \notin {"sending", "mailed"}
BY DEF NoticesInv, LockInv

(* A step of the job that holds the row. *)
LEMMA HolderStep ==
  ASSUME NoticesInv, NEW j \in Jobs,
         Attempt(j) \/ Commit(j) \/ Rerun(j) \/ (WorkerDies(j) /\ lock = j)
  PROVE  LockInv' /\ OneMailPerReceipt'
<1>1. job[j] \in {"sending", "mailed"}
  BY DEF Attempt, Suppress, MailAccepted, MailRefused, Commit, Rerun, NoticesInv, LockInv
<1>2. lock = j /\ marks = {} /\ \A k \in Jobs \ {j} : job[k] \notin {"sending", "mailed"}
  BY <1>1, HolderIsAlone
<1>3. \A k \in Jobs \ {j} : job'[k] = job[k]
  BY DEF Attempt, Suppress, MailAccepted, MailRefused, Commit, Rerun, WorkerDies, Becomes,
         NoticesInv, NoticesTypeOK
<1>4. j # None
  OBVIOUS
<1>5. /\ mails \in Nat /\ unrecorded \in Nat
      /\ mails = unrecorded + (IF job[j] = "mailed" THEN 1 ELSE 0)
  BY <1>2 DEF NoticesInv, NoticesTypeOK, OneMailPerReceipt
<1> USE DEF Becomes
<1>6. CASE MailAccepted(j)
  <2>1. job'[j] = "mailed" /\ job[j] = "sending" /\ lock' = j /\ marks' = {}
    BY <1>2, <1>6 DEF MailAccepted, rowVars, NoticesInv, NoticesTypeOK
  <2>2. mails' = unrecorded' + 1
    BY <1>5, <1>6, <2>1 DEF MailAccepted
  <2> QED
    BY <1>2, <1>3, <2>1, <2>2 DEF LockInv, OneMailPerReceipt
<1>7. CASE Suppress(j) \/ MailRefused(j)
  <2>1. job[j] = "sending" /\ lock' = None
    BY <1>7 DEF Suppress, MailRefused
  <2>2. marks' \subseteq {"suppressed"}
    BY <1>2, <1>7 DEF Suppress, MailRefused, rowVars
  <2>3. job'[j] \notin {"sending", "mailed"}
    BY <1>7 DEF Suppress, MailRefused, NoticesInv, NoticesTypeOK
  <2>4. mails' = mails /\ unrecorded' = unrecorded
    BY <1>7 DEF Suppress, MailRefused, mailVars
  <2>5. LockInv'
    BY <1>2, <1>3, <1>4, <2>1, <2>2, <2>3 DEF LockInv
  <2>6. OneMailPerReceipt'
    <3>1. "sent" \notin marks'
      BY <2>2
    <3>2. ASSUME NEW k \in Jobs PROVE job'[k] # "mailed"
      <4>1. CASE k = j
        BY <2>3, <4>1
      <4>2. CASE k # j
        BY <1>2, <1>3, <4>2
      <4> QED
        BY <4>1, <4>2
    <3>3. mails' = unrecorded' + 0
      BY <1>5, <2>1, <2>4
    <3> QED
      BY <3>1, <3>2, <3>3 DEF OneMailPerReceipt
  <2> QED
    BY <2>5, <2>6
<1>8. CASE Commit(j)
  <2>1. job[j] = "mailed" /\ job'[j] = "finished" /\ lock' = None /\ marks' = {"sent"}
    BY <1>2, <1>8 DEF Commit, NoticesInv, NoticesTypeOK
  <2>2. mails' = unrecorded' + 1
    BY <1>5, <1>8, <2>1 DEF Commit, mailVars
  <2> QED
    BY <1>2, <1>3, <1>4, <2>1, <2>2 DEF LockInv, OneMailPerReceipt
<1>9. CASE Rerun(j) \/ WorkerDies(j)
  <2>1. /\ job'[j] \notin {"sending", "mailed"} /\ lock' = None /\ marks' = {}
    BY <1>2, <1>9 DEF Rerun, WorkerDies, rowVars, NoticesInv, NoticesTypeOK
  <2>2. mails' = unrecorded'
    BY <1>5, <1>9 DEF Rerun, WorkerDies
  <2>3. mails' \in Nat
    BY <1>9, <1>5 DEF Rerun, WorkerDies
  <2> QED
    BY <1>2, <1>3, <1>4, <2>1, <2>2, <2>3 DEF LockInv, OneMailPerReceipt
<1> QED
  BY <1>6, <1>7, <1>8, <1>9 DEF Attempt

LEMMA NoticeStep == NoticesInv /\ [NoticesNext]_noticesVars => NoticesInv'
<1> SUFFICES ASSUME NoticesInv, [NoticesNext]_noticesVars
             PROVE  LockInv' /\ OneMailPerReceipt'
  BY NoticeTyped DEF NoticesInv
<1>1. CASE FiveMinutesPass \/ UNCHANGED noticesVars
  <2>1. UNCHANGED <<marks, lock, job, mailVars>>
    BY <1>1 DEF FiveMinutesPass, noticesVars, rowVars
  <2> QED
    BY <2>1 DEF NoticesInv, LockInv, OneMailPerReceipt, mailVars
<1>2. CASE RetryFailed
  <2>1. marks' = {} /\ "sent" \notin marks /\ lock' = lock
    BY <1>2 DEF RetryFailed, NoticesInv, NoticesTypeOK
  <2> QED
    BY <1>2, <2>1 DEF RetryFailed, NoticesInv, LockInv, OneMailPerReceipt, mailVars
<1>3. ASSUME NEW j \in Jobs,
             Record(j) \/ Push(j) \/ PusherDies(j) \/ Recover(j) \/ Pop(j)
               \/ NothingToDo(j) \/ Delete(j)
      PROVE  LockInv' /\ OneMailPerReceipt'
  <2>1. PICK state \in JobStates \ {"sending", "mailed"} : Becomes(j, state)
    BY <1>3 DEF Record, Push, PusherDies, Recover, Promise, Pop, NothingToDo, Delete, JobStates
  <2>2. job[j] \notin {"sending", "mailed"} /\ UNCHANGED <<lock, marks, mailVars>>
    BY <1>3 DEF Record, Push, PusherDies, Recover, Promise, Pop, NothingToDo, Delete, rowVars
  <2> QED
    BY <2>1, <2>2, QuietStep
<1>4. ASSUME NEW j \in Jobs, Begin(j) PROVE LockInv' /\ OneMailPerReceipt'
  <2>1. /\ lock = None /\ lock' = j /\ marks = {} /\ marks' = {}
        /\ job' = [job EXCEPT ![j] = "sending"] /\ UNCHANGED mailVars
    BY <1>4 DEF Begin, Unsent, rowVars, Becomes
  <2>2. \A k \in Jobs : job[k] \notin {"sending", "mailed"}
    BY <2>1 DEF NoticesInv, LockInv
  <2>3. job'[j] = "sending" /\ \A k \in Jobs \ {j} : job'[k] \notin {"sending", "mailed"}
    BY <2>1, <2>2 DEF NoticesInv, NoticesTypeOK
  <2>4. LockInv'
    BY <2>1, <2>3 DEF LockInv
  <2>5. OneMailPerReceipt'
    BY <2>1, <2>2, <2>3 DEF NoticesInv, OneMailPerReceipt, mailVars
  <2> QED
    BY <2>4, <2>5
<1>5. ASSUME NEW j \in Jobs, Fail(j) PROVE LockInv' /\ OneMailPerReceipt'
  <2>1. lock' = None /\ job' = [job EXCEPT ![j] = "none"] /\ UNCHANGED mailVars
    BY <1>5 DEF Fail, Becomes
  <2>2. \A k \in Jobs : job[k] \notin {"sending", "mailed"}
    BY <1>5 DEF Fail, NoticesInv, LockInv
  <2>3. \A k \in Jobs : job'[k] \notin {"sending", "mailed"}
    BY <2>1, <2>2 DEF NoticesInv, NoticesTypeOK
  <2>4. \A m, n \in marks' : m = n
    BY <1>5 DEF Fail, Fails, NoticesInv, NoticesTypeOK, LockInv
  <2>5. "sent" \in marks' <=> "sent" \in marks
    BY <1>5 DEF Fail, Fails
  <2> QED
    BY <2>1, <2>2, <2>3, <2>4, <2>5 DEF NoticesInv, LockInv, OneMailPerReceipt, mailVars
<1>6. ASSUME NEW j \in Jobs,
             Attempt(j) \/ Commit(j) \/ Rerun(j) \/ (WorkerDies(j) /\ lock = j)
      PROVE  LockInv' /\ OneMailPerReceipt'
  BY <1>6, HolderStep
<1>7. ASSUME NEW j \in Jobs, WorkerDies(j), lock # j PROVE LockInv' /\ OneMailPerReceipt'
  <2>1. job[j] \notin {"sending", "mailed"}
    BY <1>7 DEF NoticesInv, LockInv
  <2>2. Becomes(j, "queued") /\ UNCHANGED <<lock, marks, mailVars>>
    BY <1>7, <2>1 DEF WorkerDies, rowVars, mailVars
  <2> QED
    BY <2>1, <2>2, QuietStep DEF JobStates
<1> QED
  BY <1>1, <1>2, <1>3, <1>4, <1>5, <1>6, <1>7 DEF NoticesNext, Work

LEMMA NoticesInvariant == NoticesSpec => []NoticesInv
BY InitialNotice, NoticeStep, PTL DEF NoticesSpec

(* Only a mail whose receipt was lost is followed by another. *)
THEOREM MailsAreReceipted == NoticesSpec => []OneMailPerReceipt
<1>1. NoticesInv => OneMailPerReceipt
  BY DEF NoticesInv
<1> QED
  BY <1>1, NoticesInvariant, PTL

LEMMA EndStep == NoticesInv /\ NoticesInv' /\ [NoticesNext]_noticesVars => EndedIsKept
<1> SUFFICES ASSUME NoticesInv, NoticesInv', [NoticesNext]_noticesVars PROVE EndedIsKept
  OBVIOUS
<1>1. \A m, n \in marks' : m = n
  BY DEF NoticesInv, LockInv
<1>2. ASSUME marks # {}
      PROVE  /\ mails' = mails
             /\ marks' = marks \/ (marks = {"failed"} /\ marks' = {})
  <2>1. \A j \in Jobs : job[j] \notin {"sending", "mailed"}
    BY <1>2, HolderIsAlone
  <2>2. ~\E j \in Jobs : Attempt(j) \/ Commit(j) \/ Rerun(j)
    BY <2>1 DEF Attempt, Suppress, MailAccepted, MailRefused, Commit, Rerun
  <2>3. CASE RetryFailed
    <3>1. marks = {"failed"}
      BY <2>3 DEF RetryFailed, NoticesInv, NoticesTypeOK
    <3> QED
      BY <2>3, <3>1 DEF RetryFailed, mailVars
  <2>4. ASSUME NEW j \in Jobs, Fail(j) PROVE marks' = marks /\ mails' = mails
    <3>1. marks \cap {"sent", "suppressed"} # {} \/ marks = {"failed"}
      BY <1>2 DEF NoticesInv, NoticesTypeOK
    <3> QED
      BY <2>4, <3>1 DEF Fail, Fails, mailVars
  <2>5. ASSUME NEW j \in Jobs,
               Record(j) \/ Push(j) \/ PusherDies(j) \/ Recover(j) \/ Pop(j) \/ Begin(j)
                 \/ NothingToDo(j) \/ Delete(j) \/ WorkerDies(j)
        PROVE  marks' = marks /\ mails' = mails
    BY <2>5 DEF Record, Push, PusherDies, Recover, Promise, Pop, Begin, NothingToDo, Delete,
                WorkerDies, rowVars, mailVars
  <2>6. CASE FiveMinutesPass \/ UNCHANGED noticesVars
    BY <2>6 DEF FiveMinutesPass, noticesVars, rowVars, mailVars
  <2> QED
    BY <2>2, <2>3, <2>4, <2>5, <2>6 DEF NoticesNext, Work
<1> QED
  BY <1>1, <1>2 DEF EndedIsKept

(* A notification ends once, whatever jobs are left of it. *)
THEOREM EndsAreFinal == NoticesSpec => EndIsFinal
BY NoticesInvariant, EndStep, PTL DEF NoticesSpec, EndIsFinal
=============================================================================
