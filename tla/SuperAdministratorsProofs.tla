---------------------- MODULE SuperAdministratorsProofs ----------------------
(* What keeps the last active super administrator, for any number of users and
   requests: no command removes it whose reading of the roles stands until the
   command ends.  Hence deletions alone never do, as the comment of
   RecordVisibility::change promises. *)
EXTENDS SuperAdministrators, TLAPS

ViewIsCurrent(q) == q.step \in {"begun", "locked"} => q.supers = supers

AdministrationInv ==
  /\ AnActiveSuperAdministratorRemains
  /\ request = [r \in Requests |-> request[r]]
  /\ \A r \in Requests : ViewIsCurrent(request[r])

LEMMA AdministrationStarts == AdminInit => AdministrationInv
BY DEF AdminInit, AdministrationInv, AnActiveSuperAdministratorRemains, ViewIsCurrent

(* Whoever takes a super administrator away is another one, found active under
   the lock: the actor remains. *)
LEMMA ActorRemains ==
  ASSUME NEW q, q.supers = supers, AnActiveSuperAdministratorRemains, Change(q) \/ Assign(q)
  PROVE  AnActiveSuperAdministratorRemains'
<1>1. CASE Change(q)
  <2>1. supers' = supers /\ q.actor \notin deleted
    BY <1>1 DEF Change
  <2>2. CASE deleted' \subseteq deleted
    BY <2>1, <2>2 DEF AnActiveSuperAdministratorRemains
  <2>3. CASE q.target \notin supers /\ deleted' = deleted \cup {q.target}
    BY <2>1, <2>3 DEF AnActiveSuperAdministratorRemains
  <2>4. CASE q.target \in supers /\ q.command = "delete" /\ deleted' = deleted \cup {q.target}
    <3>1. q.actor \in supers /\ q.target # q.actor
      BY <1>1, <2>4 DEF Change
    <3>2. q.actor \in supers' \ deleted'
      BY <2>1, <2>4, <3>1
    <3> QED
      BY <3>2 DEF AnActiveSuperAdministratorRemains
  <2> QED
    BY <1>1, <2>2, <2>3, <2>4 DEF Change
<1>2. CASE Assign(q)
  <2>1. q.actor \in supers \ deleted /\ q.target # q.actor /\ deleted' = deleted
    BY <1>2 DEF Assign
  <2>2. q.actor \in supers'
    BY <1>2, <2>1 DEF Assign
  <2> QED
    BY <2>1, <2>2 DEF AnActiveSuperAdministratorRemains
<1> QED
  BY <1>1, <1>2

LEMMA AdministrationStep ==
  AdministrationInv /\ [AdminNext /\ RolesStayWhileRead]_adminVars => AdministrationInv'
<1> SUFFICES ASSUME AdministrationInv, [AdminNext /\ RolesStayWhileRead]_adminVars
             PROVE  AdministrationInv'
  OBVIOUS
<1> USE DEF AdministrationInv
<1>1. ASSUME NEW r \in Requests, NEW command \in Commands,
             NEW actor \in Users, NEW target \in Users, Begin(r, command, actor, target)
      PROVE  AdministrationInv'
  BY <1>1 DEF Begin, AnActiveSuperAdministratorRemains, ViewIsCurrent
<1>2. ASSUME NEW r \in Requests, Lock(r)
      PROVE  AdministrationInv'
  BY <1>2 DEF Lock, AnActiveSuperAdministratorRemains, ViewIsCurrent
<1>3. ASSUME NEW r \in Requests, Commit(r), RolesStayWhileRead
      PROVE  AdministrationInv'
  <2>1. AnActiveSuperAdministratorRemains'
    BY <1>3, ActorRemains DEF Commit, ViewIsCurrent
  <2>2. request' = [request EXCEPT ![r] = [step |-> "done"]]
    BY <1>3 DEF Commit, Ends
  <2>3. request' = [s \in Requests |-> request'[s]]
    BY <2>2
  <2>4. ASSUME NEW s \in Requests, request'[s].step \in {"begun", "locked"}
        PROVE  request'[s].supers = supers'
    <3>1. supers' = supers
      BY <1>3, <2>4 DEF RolesStayWhileRead
    <3> QED
      BY <2>2, <2>4, <3>1 DEF ViewIsCurrent
  <2> QED
    BY <2>1, <2>3, <2>4 DEF ViewIsCurrent
<1>4. ASSUME NEW r \in Requests, GiveUp(r)
      PROVE  AdministrationInv'
  BY <1>4 DEF GiveUp, Ends, AnActiveSuperAdministratorRemains, ViewIsCurrent
<1>5. CASE UNCHANGED adminVars
  BY <1>5 DEF adminVars, AnActiveSuperAdministratorRemains, ViewIsCurrent
<1> QED
  BY <1>1, <1>2, <1>3, <1>4, <1>5 DEF AdminNext

(* Any commands, however they interleave, leave an active super administrator
   if no role changes between a command's first query and its end. *)
THEOREM CurrentRolesLeaveOne == UndisturbedSpec => []AnActiveSuperAdministratorRemains
<1>1. AdministrationInv => AnActiveSuperAdministratorRemains
  BY DEF AdministrationInv
<1> QED
  BY <1>1, AdministrationStarts, AdministrationStep, PTL DEF UndisturbedSpec

-----------------------------------------------------------------------------
(* Deletions and restorations *)

OnlyDeletions ==
  /\ request = [r \in Requests |-> request[r]]
  /\ \A r \in Requests :
       request[r].step \in {"begun", "locked"} => request[r].command \in {"delete", "restore"}

LEMMA DeletionsLeaveRoles ==
  OnlyDeletions /\ [DeletionsNext]_adminVars =>
    /\ OnlyDeletions'
    /\ [AdminNext /\ RolesStayWhileRead]_adminVars
<1> SUFFICES ASSUME OnlyDeletions, [DeletionsNext]_adminVars
             PROVE  OnlyDeletions' /\ [AdminNext /\ RolesStayWhileRead]_adminVars
  OBVIOUS
<1>1. ASSUME NEW r \in Requests, NEW command \in {"delete", "restore"},
             NEW actor \in Users, NEW target \in Users, Begin(r, command, actor, target)
      PROVE  OnlyDeletions' /\ AdminNext /\ supers' = supers
  <2>1. AdminNext
    BY <1>1 DEF AdminNext, Commands
  <2>2. OnlyDeletions' /\ supers' = supers
    BY <1>1 DEF Begin, OnlyDeletions
  <2> QED
    BY <2>1, <2>2
<1>2. ASSUME NEW r \in Requests, Lock(r)
      PROVE  OnlyDeletions' /\ AdminNext /\ supers' = supers
  <2>1. AdminNext
    BY <1>2 DEF AdminNext
  <2>2. OnlyDeletions' /\ supers' = supers
    BY <1>2 DEF Lock, OnlyDeletions
  <2> QED
    BY <2>1, <2>2
<1>3. ASSUME NEW r \in Requests, Commit(r) \/ GiveUp(r)
      PROVE  OnlyDeletions' /\ AdminNext /\ supers' = supers
  <2>1. supers' = supers
    BY <1>3 DEF Commit, GiveUp, Change, OnlyDeletions
  <2>2. request' = [request EXCEPT ![r] = [step |-> "done"]]
    BY <1>3 DEF Commit, GiveUp, Ends
  <2> QED
    BY <1>3, <2>1, <2>2 DEF OnlyDeletions, AdminNext
<1>4. CASE UNCHANGED adminVars
  BY <1>4 DEF adminVars, OnlyDeletions
<1> QED
  BY <1>1, <1>2, <1>3, <1>4 DEF DeletionsNext, RolesStayWhileRead

(* Concurrent deletions and restorations, however they interleave and whatever
   they have read, leave an active super administrator. *)
THEOREM DeletionsLeaveOne == DeletionsSpec => []AnActiveSuperAdministratorRemains
<1>1. AdminInit => OnlyDeletions
  BY DEF AdminInit, OnlyDeletions
<1>2. DeletionsSpec => UndisturbedSpec
  BY <1>1, DeletionsLeaveRoles, PTL DEF DeletionsSpec, UndisturbedSpec
<1> QED
  BY <1>2, CurrentRolesLeaveOne
=============================================================================
