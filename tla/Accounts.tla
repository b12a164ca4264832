------------------------------ MODULE Accounts ------------------------------
(***************************************************************************)
(* The users of an installation with roles (backend/rbac_auth.py), the     *)
(* routes that manage them (backend/main.py) and the command that creates  *)
(* the first one (backend/bootstrap_rbac.py).                              *)
(*                                                                         *)
(* A request is authenticated and answered without giving up the event     *)
(* loop, so it is one step; the command is a process of its own, and       *)
(* counts the users in one transaction and inserts in another.             *)
(***************************************************************************)
EXTENDS Naturals

CONSTANTS
  Emails,
  Commands,   \* bound: runs of the command
  MaxUsers    \* bound: users ever created

Roles == {"OWNER", "ADMIN", "OPERATOR", "VIEWER"}

ASSUME AccountsAssumption == MaxUsers \in Nat

VARIABLES
  users,     \* the rows of the users table
  created,   \* the number of users ever created; a row's id
  command,   \* [Commands -> "unused", "counted" or "done"]
  owned      \* history: there has been an OWNER

accountVars == <<users, created, command, owned>>

Users == [id : 1..MaxUsers, email : Emails, role : Roles]

AccountsInit ==
  /\ users = {} /\ created = 0
  /\ command = [c \in Commands |-> "unused"] /\ owned = FALSE

-----------------------------------------------------------------------------
(* create_user; an email that is taken makes the insert fail. *)
CreateUser(email, role) ==
  IF \E u \in users : u.email = email
  THEN UNCHANGED <<users, created, owned>>
  ELSE /\ created < MaxUsers /\ created' = created + 1
       /\ users' = users \cup {[id |-> created', email |-> email, role |-> role]}
       /\ owned' = (owned \/ role = "OWNER")

(* _bootstrap up to its check, which ends it when there is any user. *)
CountUsers(c) ==
  /\ command[c] = "unused"
  /\ command' = [command EXCEPT ![c] = IF users = {} THEN "counted" ELSE "done"]
  /\ UNCHANGED <<users, created, owned>>

Bootstrap(c, email, role) ==
  /\ command[c] = "counted" /\ command' = [command EXCEPT ![c] = "done"]
  /\ CreateUser(email, role)

(* post_rbac_user, with the token of u. *)
PostUser(u, email, role) ==
  /\ u \in users /\ u.role = "OWNER"
  /\ CreateUser(email, role) /\ UNCHANGED command

(* Mutant: an OWNER may delete any user, themselves included. *)
MayDelete_Any(u, target) == u.role = "OWNER"

MayDelete(u, target) == u.role = "OWNER" /\ u.id # target.id

(* delete_rbac_user *)
DeleteUser(u, target) ==
  /\ u \in users /\ target \in users /\ MayDelete(u, target)
  /\ users' = users \ {target}
  /\ UNCHANGED <<created, command, owned>>

AccountsNext ==
  \/ \E c \in Commands : CountUsers(c)
  \/ \E email \in Emails, role \in Roles :
       \/ \E c \in Commands : Bootstrap(c, email, role)
       \/ \E u \in users : PostUser(u, email, role)
  \/ \E u, target \in users : DeleteUser(u, target)

AccountsSpec == AccountsInit /\ [][AccountsNext]_accountVars

-----------------------------------------------------------------------------
AccountsTypeOK ==
  /\ users \subseteq Users /\ created \in 0..MaxUsers
  /\ command \in [Commands -> {"unused", "counted", "done"}] /\ owned \in BOOLEAN

(* A user is its id, and an email is one user's: a token, and a deletion,  *)
(* mean one row.                                                           *)
RowsAreOneUser ==
  \A u, v \in users : u.id <= created /\ (u.id = v.id \/ u.email = v.email => u = v)

(* Nobody but an OWNER manages users, and the command refuses once there   *)
(* is one: were the last OWNER deleted, nobody could create users again.   *)
(* However users are created and delete each other, one OWNER stays.       *)
AnOwnerStays == owned => \E u \in users : u.role = "OWNER"

AccountsInv == AccountsTypeOK /\ RowsAreOneUser /\ AnOwnerStays
=============================================================================
