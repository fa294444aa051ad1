---------------------------- MODULE Permissions ----------------------------
(***************************************************************************)
(* src/modules/sessions/permissions.ts: what a role lets a user do in a    *)
(* session.  A role is None for a user with no participant row.            *)
(***************************************************************************)
CONSTANT None

Roles == {"OWNER", "VIEW_EDIT_EXECUTE_SAVE", "VIEW_EDIT_EXECUTE", "VIEW_EDIT", "VIEW"}

IsOwner(owner, user) == owner = user

CanEdit(role, owner, user) ==
  IsOwner(owner, user) \/ role \notin {None, "VIEW"}

CanExecute(role, owner, user) ==
  \/ IsOwner(owner, user)
  \/ role \in {"VIEW_EDIT_EXECUTE", "VIEW_EDIT_EXECUTE_SAVE", "OWNER"}

CanSave(role, owner, user) ==
  IsOwner(owner, user) \/ role \in {"VIEW_EDIT_EXECUTE_SAVE", "OWNER"}

CanChangeRoles(owner, user) == IsOwner(owner, user)
=============================================================================
