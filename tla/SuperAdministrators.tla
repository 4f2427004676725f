------------------------- MODULE SuperAdministrators -------------------------
(***************************************************************************)
(* Deleting, restoring and changing the roles of users, as far as it       *)
(* decides who is an active super administrator.                           *)
(*                                                                         *)
(*   src/app/Support/Records/RecordVisibility.php                          *)
(*   src/app/Actions/Users/UpdateManagedUser.php                           *)
(*   src/app/Policies/UserPolicy.php                                       *)
(*                                                                         *)
(* A request is one transaction in three steps: its first, plain query;    *)
(* the lock on the users it names, which may have to wait; and the rest.   *)
(* The database (external) is MySQL at its default isolation, repeatable   *)
(* read: plain queries, and the subqueries of a locking one, see the       *)
(* moment of the first query; the rows a query locks are current.  Users   *)
(* are locked in the order of their ids, so a request gets all or waits.   *)
(***************************************************************************)
EXTENDS Naturals, FiniteSets

CONSTANTS
  Users,
  Managers,     \* those whose other roles let them manage users and records
  Requests      \* each sent once

VARIABLES
  supers,       \* users with the role super_admin
  deleted,      \* users whose deletion marker is set
  version,      \* of the marker of each user, 0 before there is one
  request       \* what each request does, has read, and how far it is

adminVars == <<supers, deleted, version, request>>

(* "grant" and "revoke" assign a list of roles with or without super_admin; the
   rest of the list may or may not differ from what the target has. *)
Commands == {"delete", "restore", "grant", "revoke"}

AdminInit ==
  /\ supers \in SUBSET Users
  /\ deleted \in SUBSET Users
  /\ supers \ deleted # {}
  /\ version = [u \in Users |-> IF u \in deleted THEN 1 ELSE 0]
  /\ request = [r \in Requests |-> [step |-> "new"]]

(* pluck('id'): the first query fixes what the plain ones will see.  A page names
   the version it showed, other callers none; only change() compares it. *)
Begin(r, command, actor, target) ==
  /\ request[r].step = "new"
  /\ \E expected \in 0..version[target], names \in BOOLEAN :
       request' = [request EXCEPT ![r] =
         [step |-> "begun", command |-> command, actor |-> actor, target |-> target,
          expected |-> expected, names |-> names, supers |-> supers, deleted |-> deleted]]
  /\ UNCHANGED <<supers, deleted, version>>

Named(q) == q.supers \cup {q.actor, q.target}

Lock(r) ==
  /\ request[r].step = "begun"
  /\ \A s \in Requests :
       request[s].step = "locked" => Named(request[s]) \cap Named(request[r]) = {}
  /\ request' = [request EXCEPT ![r].step = "locked"]
  /\ UNCHANGED <<supers, deleted, version>>

-----------------------------------------------------------------------------
(* What request q does while it holds the locks. *)

(* activeSuperAdministratorCount(): a query that locks users and markers, but
   takes the role from a subquery it does not lock. *)
ActiveSupers(q) == q.supers \ deleted

(* RecordVisibility::allowed: verified staff who may manage records. *)
Allowed(q) == q.actor \in (q.supers \cup Managers) \ q.deleted

(* Marked already, no marker is written. *)
Change(q) ==
  /\ q.actor \notin deleted
  /\ Allowed(q)
  /\ q.target \in q.supers => q.actor \in q.supers
  /\ q.command = "delete" =>
       /\ q.target # q.actor
       /\ q.target \in q.supers => Cardinality(ActiveSupers(q)) > 1
  /\ q.names => q.expected = version[q.target]
  /\ IF q.command = "delete"
     THEN q.target \notin deleted /\ deleted' = deleted \cup {q.target}
     ELSE q.target \in deleted /\ deleted' = deleted \ {q.target}
  /\ version' = [version EXCEPT ![q.target] = @ + 1]
  /\ UNCHANGED supers

(* handle(), when the roles change: the policy's assignRoles, which implies its
   update here, and protectLastSuperAdministrator(). *)
Assign(q) ==
  /\ {q.actor, q.target} \cap deleted = {}
  /\ q.actor \in q.supers
  /\ q.target # q.actor
  /\ q.target \in q.supers /\ q.command = "revoke" => Cardinality(ActiveSupers(q)) > 1
  /\ supers' = IF q.command = "grant" THEN supers \cup {q.target} ELSE supers \ {q.target}
  /\ UNCHANGED <<deleted, version>>

Ends(r) == request' = [request EXCEPT ![r] = [step |-> "done"]]

Commit(r) ==
  /\ request[r].step = "locked"
  /\ IF request[r].command \in {"delete", "restore"} THEN Change(request[r]) ELSE Assign(request[r])
  /\ Ends(r)

(* Refused, found nothing to change, or rolled back. *)
GiveUp(r) ==
  /\ request[r].step = "begun" \/ request[r].step = "locked"
  /\ Ends(r)
  /\ UNCHANGED <<supers, deleted, version>>

AdminNext ==
  \E r \in Requests :
    \/ \E command \in Commands, actor, target \in Users : Begin(r, command, actor, target)
    \/ Lock(r)
    \/ Commit(r)
    \/ GiveUp(r)

AdminSpec == AdminInit /\ [][AdminNext]_adminVars

(* Staff who delete and restore users, and leave their roles alone. *)
DeletionsNext ==
  \E r \in Requests :
    \/ \E command \in {"delete", "restore"}, actor, target \in Users :
         Begin(r, command, actor, target)
    \/ Lock(r)
    \/ Commit(r)
    \/ GiveUp(r)

DeletionsSpec == AdminInit /\ [][DeletionsNext]_adminVars

(* Staff who may do everything, but no role changes under a request that has
   read the roles and has not ended. *)
RolesStayWhileRead ==
  supers' # supers => \A r \in Requests : request'[r].step \notin {"begun", "locked"}

UndisturbedSpec == AdminInit /\ [][AdminNext /\ RolesStayWhileRead]_adminVars

-----------------------------------------------------------------------------
(* Properties *)

(* RecordVisibility.php:128: concurrent deletions cannot remove the last active
   super administrator.  They cannot (DeletionsSpec), nor can any command whose
   reading of the roles stands until it ends (UndisturbedSpec); a deletion and a
   demotion can (AdminSpec), since the deletion may count a demoted user it has
   already read as a super administrator. *)
AnActiveSuperAdministratorRemains == supers \ deleted # {}
=============================================================================
