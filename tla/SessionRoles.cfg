SPECIFICATION Spec
CONSTANTS
  Users = {owner, ann}
  Owner = owner
  Reqs = {r1, r2}
  None = None
  RoleInputs = {"VIEW", "VIEW_EDIT_EXECUTE", "VIEW_EDIT_EXECUTE_SAVE", "OWNER"}
  Env = {"fail", "rest", "delete"}
SYMMETRY ReqSymmetry
INVARIANTS TypeOK OneOwner SnapshotsAllowed RolesShown
PROPERTY RoleKept
