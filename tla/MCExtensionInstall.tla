------------------------ MODULE MCExtensionInstall ------------------------
(* One team, with profiles for two groups and a wildcard, and profiles that *)
(* the bundler must refuse, for TLC.                                        *)
EXTENDS ExtensionInstall

CONSTANTS t1, t2, noTeam

MCIdentities == {AdHoc, noTeam, t1}

Profile(id, grants, teams, groups) ==
  [id |-> id, grants |-> grants, teams |-> teams, groups |-> groups]

MCAppProfiles ==
  {Profile("App", {"Install"}, {t1}, {0, 1, 2}),
   Profile("App", {"Install"}, {t1, t2}, {1}),
   Profile("App", {}, {t1}, {1})}
MCExtProfiles ==
  {Profile("Extension", {"Sandbox"}, {t1}, {0, 1, 2}),
   Profile("Extension", {"Sandbox"}, {t2}, {1}),
   Profile("Extension", {"Sandbox"}, {}, {1}),
   Profile("App", {"Install", "Sandbox"}, {t1}, {1})}
=============================================================================
