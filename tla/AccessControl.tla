------------------------------ MODULE AccessControl ------------------------------
(* Access control lists, their roles and the switch that turns them on:     *)
(* sn/security/AclManager.ts.                                               *)
(*                                                                          *)
(* Every write goes through the form writer of the module MetadataWriters.  *)
(* What that promises is one step here: the write was made, or refused, or  *)
(* it failed and may have been made.                                        *)
EXTENDS MetadataWriters

CONSTANTS
    Roles,       \* roles
    automatic,   \* the role the platform gives a list without one
    newAcl       \* call -> the list it creates, if it creates one

ASSUME AutomaticIsARole == automatic \in Roles

NewAcl(me) == newAcl[me]

(* Rows of sys_security_acl, its flag "active", and sys_security_acl_role.  *)
Acl(x) == <<"acl", x>>
Active(x) == <<"active", x>>
AclRole(x, role) == <<"acl role", x, role>>

NoAcl(x) == <<"no acl", x>>

RolesOf(x) == {AclRole(x, role) : role \in Roles}
AclRows(x) == {Acl(x), Active(x)} \cup RolesOf(x)

Refused == Answered("form refused", NotApplied)

(****************************************************************************)
(* What the methods share                                                   *)
(****************************************************************************)
get(x) == <<Read(<<Some({Acl(x)}, "acl_not_found")>>)>>

requireElevation == <<Read(<<Perhaps("elevation_required")>>)>>

(* The role, the type, the operation and the name are looked up.            *)
lookup == <<Read(<<Perhaps("not_resolved")>>)>>

requireSameScope == Perhaps("scope_mismatch")

(* What a list is found to be after an error: part of the error.            *)
state(x) == <<Attempt(<<Read(<<>>)>>)>>

setActive(x, active) ==
    <<Write({IF active THEN Way({Acl(x)}, {}, {Active(x)}, {}) ELSE Way({Acl(x)}, {}, {}, {Active(x)}), Refused})>>

insertRole(x, role) == <<Write({Way({Acl(x)}, {}, {AclRole(x, role)}, {}), Refused})>>

(* The platform puts its own role back on a list that is left without one.  *)
deleteRole(x, role) ==
    LET others == RolesOf(x) \ {AclRole(x, role)}
    IN <<Write({Way({AclRole(x, role), row}, {}, {}, {AclRole(x, role)}) : row \in others}
               \cup {Way({AclRole(x, role)}, others, {AclRole(x, automatic)}, {AclRole(x, role)}), Refused})>>

(* The same steps for one role after the other.                             *)
ForEachRole(roles, Steps(_)) == FlattenSeq([i \in 1..Cardinality(roles) |-> Steps(SetToSeq(roles)[i])])

(****************************************************************************)
(* The methods                                                              *)
(****************************************************************************)
(* A list that is to have roles is inserted inactive: it would be open to   *)
(* everybody until it has them. The platform may add its own role. Mutant:  *)
(* it is inserted as it is to be.                                           *)
insertAcl(x, active) ==
    <<Write({Way({}, {}, {Acl(x)} \cup more \cup (IF active THEN {Active(x)} ELSE {}), {}) : more \in {{}, {AclRole(x, automatic)}}}
            \cup {Refused})>>

insertAtOnce(x, roles, active) == insertAcl(x, active)

insertStaged(x, roles, active) == insertAcl(x, active /\ roles = {})

(* The roles asked for are added, those the platform added are removed, and *)
(* only when exactly the roles asked for are there is the list switched on. *)
finishCreate(x, roles, active) ==
    <<Note(RolesOf(x), <<>>)>>
    \o ForEachRole(roles, LAMBDA role : <<IfNoted({AclRole(x, role)}, <<>>, insertRole(x, role))>>)
    \o (IF roles = {} THEN <<>>
        ELSE ForEachRole(Roles \ roles, LAMBDA role : <<IfNoted({AclRole(x, role)}, deleteRole(x, role), <<>>)>>)
             \o <<Read(<<Has({AclRole(x, role) : role \in roles}, "roles_not_applied"),
                         Lacks({AclRole(x, role) : role \in Roles \ roles}, "roles_not_applied")>>)>>
             \o (IF active THEN setActive(x, TRUE) ELSE <<>>))
    \o get(x)

createAcl(me, roles, active) ==
    LET x == NewAcl(me)
    IN lookup \o requireElevation \o insertStaged(x, roles, active)
       \o <<Try(finishCreate(x, roles, active), state(x) \o <<Throw("partial")>>),
            Claim({Acl(x)} \cup {AclRole(x, role) : role \in roles})>>

updateAcl(x, active) ==
    get(x) \o lookup \o requireElevation \o setActive(x, active) \o get(x) \o <<Claim({Acl(x)})>>

(* Where the list is not known to be still active, it is switched on again, *)
(* if it is there; whether that worked is in the error.                     *)
restored(x, ifActive) ==
    <<Try(<<If(Has({Active(x)}, No), <<Throw("still active")>>, <<Throw("not active")>>)>>,
          <<IfCaught("still active", ifActive, <<Attempt(setActive(x, TRUE))>> \o state(x) \o <<Throw("partial")>>)>>)>>

(* A list of a record is switched off before it is deleted, and on again    *)
(* when the delete fails.                                                   *)
deleteAcl(x) ==
    LET Delete == <<Write({Way({Acl(x)}, {}, {}, AclRows(x)), Refused})>>
    IN <<Note({Active(x)}, <<Some({Acl(x)}, "acl_not_found")>>)>> \o requireElevation
       \o <<IfNoted({Active(x)},
                <<Try(setActive(x, FALSE), restored(x, <<Throw("form refused")>>)),
                  Try(Delete, restored(x, state(x) \o <<Throw("partial")>>))>>,
                Delete),
            Claim({NoAcl(x)})>>

addRole(x, role) ==
    <<Read(<<Some({Acl(x)}, "acl_not_found"), Lacks({AclRole(x, role)}, "role_already_present"), requireSameScope>>)>>
    \o requireElevation \o insertRole(x, role) \o get(x) \o <<Claim({AclRole(x, role)})>>

removeRole(x, role) ==
    <<Read(<<Some({Acl(x)}, "acl_not_found"), Has({AclRole(x, role)}, "role_not_present"), requireSameScope>>)>>
    \o requireElevation \o deleteRole(x, role) \o get(x)

(* Codes with which these methods refuse before they write anything.        *)
AccessRefusals == {"elevation_required", "not_resolved", "role_already_present", "role_not_present"}
================================================================================
