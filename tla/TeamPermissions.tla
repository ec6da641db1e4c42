--------------------------- MODULE TeamPermissions ---------------------------
(***************************************************************************)
(* Teams and their members (backend/internal/api/teams.go), and who may    *)
(* edit what a team owns (permissions.go).  Admins are a group of the      *)
(* token; every other right is a row of table team_memberships, which      *)
(* admins write at any time.  No handler deletes a team or changes the     *)
(* team of a template.  Every user here has logged in before: a membership *)
(* refers to a row of table users.                                         *)
(***************************************************************************)
CONSTANTS Team,         \* ids of table teams
          Editor,       \* users who edit templates, or try to
          Admin,        \* those in the group kuberport-admin
          None          \* SQL NULL

ASSUME AdminsAreEditors == Admin \subseteq Editor
ASSUME NoTeamIsNull == None \notin Team

VARIABLES teams,        \* the teams that have a row
          role          \* <<team, user>> -> team_memberships.role, or "none"

teamVars == <<teams, role>>

Role == {"editor", "viewer"}

(* An admin gains nothing by a membership, so theirs are left out. *)
Member == Editor \ Admin

TeamTypeOK ==
  /\ teams \subseteq Team
  /\ role \in [Team \X Member -> Role \cup {"none"}]

TeamInit ==
  /\ teams = {}
  /\ role = [m \in Team \X Member |-> "none"]

(* The routes of these three are for admins. *)
CreateTeam(g) ==
  /\ g \notin teams
  /\ teams' = teams \cup {g}
  /\ UNCHANGED role

(* INSERT ... ON CONFLICT DO UPDATE: a member gets another role. *)
AddTeamMember(g, e, as) ==
  /\ g \in teams
  /\ role' = [role EXCEPT ![<<g, e>>] = as]
  /\ UNCHANGED teams

RemoveTeamMember(g, e) ==
  /\ role' = [role EXCEPT ![<<g, e>>] = "none"]
  /\ UNCHANGED teams

(* What is checked before an edit: a global template (NULL) is for admins, *)
(* a team's for its editors too.                                           *)
EnsureTeamEditor(e, g) ==
  e \in Admin \cup {m \in Member : g \in Team /\ role[<<g, m>>] = "editor"}
=============================================================================
