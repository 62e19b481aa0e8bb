------------------------------ MODULE UserTools ------------------------------
(***************************************************************************)
(* The tools for users, roles and privileges (actions/user_mgmt.rs) and    *)
(* the reports on them (actions/security.rs).  Every name is quoted, none  *)
(* is qualified.  Passwords, limits, expiry and the kind of privilege are  *)
(* left out, and so are grants on schemas and databases.                   *)
(***************************************************************************)
EXTENDS Catalogue

CONSTANT RoleNames      \* the names of roles that a call may give

Attributes == {"login", "superuser", "createdb"}

RolesOf(c) == DOMAIN c.roles

WithRole(u, attributes) ==
    [cat EXCEPT !.roles = [v \in RolesOf(cat) \cup {u} |->
                              IF v = u THEN attributes ELSE @[v]]]

\* create_user(): LOGIN unless can_login says otherwise.
CreateUser ==
    \E u \in RoleNames \ RolesOf(cat), login \in BOOLEAN :
        cat' = WithRole(u, IF login THEN {"login"} ELSE {})

\* create_role(): the same statement, NOLOGIN unless with_login.
CreateRole ==
    \E u \in RoleNames \ RolesOf(cat), login \in BOOLEAN :
        cat' = WithRole(u, IF login THEN {"login"} ELSE {})

\* A new name is a statement of its own kind: with any other attribute in front
\* of RENAME the server refuses the text.  What was granted follows.
RenameRole(u) ==
    \E v \in RoleNames \ RolesOf(cat) :
        cat' = [cat EXCEPT
            !.roles = [w \in (RolesOf(cat) \ {u}) \cup {v} |->
                          IF w = v THEN @[u] ELSE @[w]],
            !.grants = {IF g.role = u THEN [g EXCEPT !.role = v] ELSE g : g \in @}]

SetAttribute(u, attribute) ==
    \E on \in BOOLEAN :
        /\ cat' = [cat EXCEPT !.roles[u] =
                      IF on THEN @ \cup {attribute} ELSE @ \ {attribute}]
        /\ cat' # cat

\* alter_user()
AlterUser ==
    \E u \in RolesOf(cat) \cap RoleNames : SetAttribute(u, "login") \/ RenameRole(u)

\* alter_role()
AlterRole ==
    \E u \in RolesOf(cat) \cap RoleNames :
        (\E attribute \in Attributes : SetAttribute(u, attribute)) \/ RenameRole(u)

FaultyDropRole ==
    \E u \in RolesOf(cat) \cap RoleNames :
        cat' = [cat EXCEPT !.roles = Restrict(@, RolesOf(cat) \ {u})]

\* drop_user() and drop_role(): refused while the role has a privilege.
DropRole ==
    \E u \in RolesOf(cat) \cap RoleNames :
        /\ \A g \in cat.grants : g.role # u
        /\ cat' = [cat EXCEPT !.roles = Restrict(@, RolesOf(cat) \ {u})]

\* What a call of grant_privileges() or revoke_privileges() is about: 'schema'
\* counts only for all_tables_in_schema; a table or a sequence is looked up in
\* public, under exactly the name that was given.
Grantable == Tables \cup Views
ObjectsOf(type, schema, name) ==
    CASE type = "table" -> Find(cat, "public", name, Grantable \cup {"sequence"})
      [] type = "sequence" -> Find(cat, "public", name, {"sequence"})
      [] type = "all_tables_in_schema" ->
            {o \in OfKind(cat, Grantable) : cat.rel[o].schema = schema}

ObjectTypes == {"table", "sequence", "all_tables_in_schema"}

\* The schema that a call is about by the tools' description: object_name for
\* all_tables_in_schema, the parameter 'schema' for the rest.
Meant(type, schema, name) == IF type = "all_tables_in_schema" THEN name ELSE schema

\* grant_privileges()
GrantPrivileges(type, schema, name) ==
    \E u \in RolesOf(cat) :
        cat' = [cat EXCEPT !.grants = @ \cup
                   {[role |-> u, on |-> o] : o \in ObjectsOf(type, schema, name)}]

\* revoke_privileges()
RevokePrivileges(type, schema, name) ==
    \E u \in RolesOf(cat) :
        cat' = [cat EXCEPT !.grants = @ \
                   {[role |-> u, on |-> o] : o \in ObjectsOf(type, schema, name)}]

\* A call of one of the two that the description takes to be about schema s.
PrivilegeTool(s) ==
    \E type \in ObjectTypes, schema \in cat.schemas, name \in Names \cup cat.schemas :
        /\ s = Meant(type, schema, name)
        /\ GrantPrivileges(type, schema, name) \/ RevokePrivileges(type, schema, name)
        /\ cat' # cat

UserTool ==
    /\ CreateUser \/ CreateRole \/ AlterUser \/ AlterRole \/ DropRole
    /\ cat' # cat
=============================================================================
