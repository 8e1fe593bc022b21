------------------------------ MODULE Bundling ------------------------------
(***************************************************************************)
(* camera-man bundle (main/bundle.rs, main/signing.rs, main/typed_plist.rs,*)
(* provisioning.rs, provisioning_profile.rs): an app bundle is assembled   *)
(* in target/ around an extension bundle, step by step, from a signing     *)
(* identity, two provisioning profiles and perhaps a requested App Group,  *)
(* and any step may fail and leave behind what is there.                   *)
(*                                                                         *)
(* A bundle is what the later checks look at: the App Group of its         *)
(* Info.plist, the embedded profile, the team its executable is signed     *)
(* with, and a signature, which seals the rest as it was when it was made. *)
(* An App Group is a number; the order of the numbers is that of the names.*)
(* A profile is what it decodes to.  The Mach service of an extension is   *)
(* named by its group, with no group by the bundle id.                     *)
(***************************************************************************)
EXTENDS Naturals, FiniteSets, FiniteSetsExt

CONSTANTS
  Teams,        \* Apple team ids
  Identities,   \* whom code may be signed by: a team, AdHoc, or neither
  Groups,       \* names of App Groups, as numbers
  Wildcards,    \* those among them that hold a '*'
  AppProfiles,  \* profiles somebody may pass for the app ...
  ExtProfiles,  \* ... and for the extension
  None

ASSUME GroupsAssumption == Groups \subseteq Nat /\ Wildcards \subseteq Groups
ASSUME ProfilesAssumption ==
  \A p \in AppProfiles \cup ExtProfiles : p.groups \subseteq Groups /\ p.teams \subseteq Teams
ASSUME NoneAssumption == None \notin Groups \cup Teams

VARIABLES
  build,        \* the bundle command that runs: its step, inputs and choices
  target        \* target/CameraMan.app

buildVars == <<build, target>>

(* AD_HOC_IDENTITY: code is signed, but by nobody in particular. *)
AdHoc == "-"

(* codesign_team_identifier of what the identity has signed. *)
TeamOf(identity) == IF identity \in Teams THEN identity ELSE None

(* validate_team_identifier_match: two missing teams do not match. *)
TeamsMatch(left, right) == left # None /\ left = right

-----------------------------------------------------------------------------
(* validate_decoded_profile *)

(* profile_team_identifier: one value, whichever keys it is found under. *)
ProfileTeam(p) == IF p.teams = {} THEN None ELSE CHOOSE t \in p.teams : TRUE

Valid(p, id, entitlement) ==
  /\ p # None
  /\ entitlement \in p.grants
  /\ p.id = id
  /\ Cardinality(p.teams) <= 1

ValidForApp(p) == Valid(p, "App", "Install")
ValidForExtension(p) == Valid(p, "Extension", "Sandbox")

CommonGroups(app, ext) == (app.groups \cap ext.groups) \ Wildcards

(* select_shared_application_group: None stands for the error. *)
SharedGroup(app, ext, requested) ==
  LET common == CommonGroups(app, ext) IN
  IF requested # None
    THEN IF requested \in common THEN requested ELSE None
    ELSE IF common = {} THEN None ELSE Min(common)

-----------------------------------------------------------------------------
(* Signatures *)

Unsigned == [team |-> None, entitlements |-> {}, groups |-> {}, seal |-> None]

Sign(bundle, identity, entitlements, group) ==
  [bundle EXCEPT !.signature =
     [team |-> TeamOf(identity), entitlements |-> entitlements,
      groups |-> IF group = None THEN {} ELSE {group},
      seal |-> [bundle EXCEPT !.signature = None]]]

(* verify_codesign: strict, and for an app deep, since its seal holds the  *)
(* extension.                                                              *)
Verified(bundle) == bundle.signature.seal = [bundle EXCEPT !.signature = None]

NoExtension == [kind |-> "none"]
EmptyBundle(half, team) ==
  [kind |-> half, plist |-> FALSE, service |-> None, group |-> None, profile |-> None,
   exeTeam |-> team, ext |-> NoExtension, signature |-> Unsigned]

-----------------------------------------------------------------------------
(* bundle_app *)

BuildSteps == {"idle", "remove", "copy", "extPlist", "extEmbed", "extSign", "extVerify",
          "plist", "signExe", "embed", "sign", "verify", "done"}

Configs ==
  [identity : Identities, app : AppProfiles \cup {None}, ext : ExtProfiles \cup {None},
   requested : (Groups \ Wildcards) \cup {None}]

(* validate_bundle_signing_configuration *)
ConfigAccepted(c) ==
  /\ c.identity = AdHoc => c.app = None /\ c.ext = None
  /\ (c.app = None) = (c.ext = None)
  /\ c.requested # None => c.app # None

(* load_installable_profiles *)
ProfilesAccepted(c) ==
  c.app = None \/
    /\ ValidForApp(c.app) /\ ValidForExtension(c.ext)
    /\ TeamsMatch(ProfileTeam(c.app), ProfileTeam(c.ext))
    /\ SharedGroup(c.app, c.ext, c.requested) # None

Chosen(c) ==
  [identity |-> c.identity, app |-> c.app, ext |-> c.ext,
   group |-> IF c.app = None THEN None ELSE SharedGroup(c.app, c.ext, c.requested)]

BundleInit ==
  /\ build = [step |-> "idle", config |-> None]
  /\ target = None

AtStep(s) == build.step = s
To(s) == build' = [build EXCEPT !.step = s]

(* The inputs are looked at, and the extension's binary is made, before    *)
(* anything of the previous bundle is touched.                             *)
BeginBundle ==
  /\ build.step \in {"idle", "done"}
  /\ \E c \in Configs :
       /\ ConfigAccepted(c) /\ ProfilesAccepted(c)
       /\ build' = [step |-> "remove", config |-> Chosen(c)]
  /\ UNCHANGED target

RemoveBundle ==
  /\ AtStep("remove") /\ To("copy")
  /\ target' = None

(* A copied executable keeps the signature it was built with: none's. *)
CopyExecutable ==
  /\ AtStep("copy") /\ To("extPlist")
  /\ target' = EmptyBundle("app", None)

(* Mutant: the Mach service is always named by the bundle id. *)
ServiceByBundleId(group) == None

(* extension_mach_service_name: <group>.cmio, or the bundle id. *)
MachService(group) == group

(* assemble_extension_bundle; extension_info_plist takes the group from    *)
(* the name of the service, which ends in .cmio if there is one.           *)
WriteExtensionPlist ==
  /\ AtStep("extPlist") /\ To("extEmbed")
  /\ target' = [target EXCEPT !.ext =
       [EmptyBundle("extension", None) EXCEPT !.plist = TRUE,
          !.service = MachService(build.config.group), !.group = MachService(build.config.group)]]

EmbedExtensionProfile ==
  /\ AtStep("extEmbed") /\ To("extSign")
  /\ target' = [target EXCEPT !.ext.profile = build.config.ext]

SignExtension ==
  /\ AtStep("extSign") /\ To("extVerify")
  /\ target' = [target EXCEPT !.ext =
       Sign([@ EXCEPT !.exeTeam = TeamOf(build.config.identity)],
            build.config.identity, {"Sandbox"}, build.config.group)]

VerifyExtension ==
  /\ AtStep("extVerify") /\ To("plist")
  /\ Verified(target.ext)
  /\ build.config.ext # None =>
       TeamsMatch(target.ext.signature.team, ProfileTeam(build.config.ext))
  /\ UNCHANGED target

WriteAppPlist ==
  /\ AtStep("plist") /\ To("signExe")
  /\ target' = [target EXCEPT !.plist = TRUE, !.group = build.config.group]

SignExecutable ==
  /\ AtStep("signExe") /\ To("embed")
  /\ target' = [target EXCEPT !.exeTeam = TeamOf(build.config.identity)]

(* With profiles: the team of what was just signed must be theirs. *)
EmbedAppProfile ==
  /\ AtStep("embed") /\ To("sign")
  /\ build.config.app # None =>
       /\ TeamsMatch(target.exeTeam, ProfileTeam(build.config.app))
       /\ TeamsMatch(target.exeTeam, ProfileTeam(build.config.ext))
  /\ target' = [target EXCEPT !.profile = build.config.app]

(* Without a profile the restricted entitlement is left out. *)
SignApp ==
  /\ AtStep("sign") /\ To("verify")
  /\ target' = Sign(target, build.config.identity,
                    IF build.config.app = None THEN {} ELSE {"Install"}, build.config.group)

VerifyApp ==
  /\ AtStep("verify") /\ To("done")
  /\ Verified(target)
  /\ UNCHANGED target

(* A write, a copy or codesign fails, a check does not hold, or the        *)
(* command is interrupted.                                                 *)
FailBundle ==
  /\ build.step \notin {"idle", "done"}
  /\ build' = [step |-> "idle", config |-> None]
  /\ UNCHANGED target

(* A debug build signs ad hoc; that codesign fails is then a warning.      *)
SignExtensionFailed ==
  /\ AtStep("extSign") /\ To("extVerify")
  /\ build.config.identity = AdHoc
  /\ UNCHANGED target

SignAppFailed ==
  /\ AtStep("sign") /\ To("verify")
  /\ build.config.identity = AdHoc
  /\ UNCHANGED target

BundleNext ==
  \/ BeginBundle \/ RemoveBundle \/ CopyExecutable
  \/ WriteExtensionPlist \/ EmbedExtensionProfile \/ SignExtension \/ VerifyExtension
  \/ WriteAppPlist \/ SignExecutable \/ EmbedAppProfile \/ SignApp \/ VerifyApp
  \/ FailBundle \/ SignExtensionFailed \/ SignAppFailed

-----------------------------------------------------------------------------
(* What a step leaves for the steps after it. *)

(* A bundle has these parts and no other. *)
IsBundle(b, half) ==
  b = [kind |-> half, plist |-> b.plist, service |-> b.service, group |-> b.group,
       profile |-> b.profile, exeTeam |-> b.exeTeam, ext |-> b.ext, signature |-> b.signature]

OneGroup(signature) == \A g, h \in signature.groups : g = h

(* However far its assembly went, an app bundle that names a group has its *)
(* Info.plist and holds an extension that is whole, and each half is       *)
(* signed with one group at most.                                          *)
IsAppBundle(b) ==
  /\ IsBundle(b, "app") /\ OneGroup(b.signature)
  /\ b.ext # NoExtension => IsBundle(b.ext, "extension") /\ OneGroup(b.ext.signature)
  /\ b.group # None => b.plist /\ b.ext # NoExtension /\ Verified(b.ext)

(* The steps in their order. *)
Place ==
  [idle |-> 0, remove |-> 1, copy |-> 2, extPlist |-> 3, extEmbed |-> 4, extSign |-> 5,
   extVerify |-> 6, plist |-> 7, signExe |-> 8, embed |-> 9, sign |-> 10, verify |-> 11,
   done |-> 12]
Passed(s) == Place[s] < Place[build.step]

(* What was accepted and chosen. *)
ConfigHolds ==
  build.step # "idle" /\ build.config.app # None =>
    /\ build.config.identity # AdHoc
    /\ ValidForApp(build.config.app) /\ ValidForExtension(build.config.ext)
    /\ build.config.group \in CommonGroups(build.config.app, build.config.ext)
    /\ build.config.group \in Groups

(* The extension as far as it has come. *)
ExtensionHolds ==
  /\ Passed("extPlist") =>
       /\ IsBundle(target.ext, "extension") /\ target.ext.plist
       /\ target.ext.service = build.config.group /\ target.ext.group = build.config.group
  /\ Passed("extEmbed") => target.ext.profile = build.config.ext
  /\ Passed("extSign") /\ build.config.app # None =>
       /\ target.ext.signature.team = TeamOf(build.config.identity)
       /\ target.ext.signature.groups = {build.config.group}
  /\ Passed("extVerify") => Verified(target.ext)

(* The app around it. *)
AppHolds ==
  /\ Passed("remove") /\ ~Passed("copy") => target = None
  /\ Passed("copy") => IsAppBundle(target)
  /\ Passed("copy") /\ ~Passed("plist") => target.group = None
  /\ Passed("plist") => target.group = build.config.group
  /\ Passed("signExe") => target.exeTeam = TeamOf(build.config.identity)
  /\ Passed("embed") => target.profile = build.config.app
  /\ Passed("embed") /\ build.config.app # None =>
       /\ TeamsMatch(TeamOf(build.config.identity), ProfileTeam(build.config.app))
       /\ TeamsMatch(TeamOf(build.config.identity), ProfileTeam(build.config.ext))
  /\ Passed("sign") /\ build.config.app # None =>
       /\ target.signature.team = TeamOf(build.config.identity)
       /\ target.signature.entitlements = {"Install"}
       /\ target.signature.groups = {build.config.group}
  /\ Passed("verify") => Verified(target)

BundleOrder ==
  /\ build = [step |-> build.step, config |-> build.config] /\ build.step \in BuildSteps
  /\ target = None \/ IsAppBundle(target)
  /\ ConfigHolds /\ ExtensionHolds /\ AppHolds
=============================================================================
