-------------------------- MODULE ExtensionInstall --------------------------
(***************************************************************************)
(* From a bundle in target/ to an active system extension: the bundle is   *)
(* copied to /Applications, the app launched from there decides once       *)
(* whether it may ask for activation (app/extension_readiness.rs), the     *)
(* installer (system_extension.rs) submits requests and hears from macOS   *)
(* through its delegate, and the app and the extension each find the       *)
(* frames by their own Info.plist (app_group.rs).                          *)
(*                                                                         *)
(* Copying, grafting, macOS and the user are the environment.  A bundle is *)
(* not replaced under a running app ("an already-running bundle cannot be  *)
(* safely re-signed"), and macOS serves the latest request.                *)
(***************************************************************************)
EXTENDS Bundling

VARIABLES
  installed,    \* /Applications/CameraMan.app
  app,          \* the running app: where from, whether capable, its status
  request,      \* what macOS was asked to activate and has not settled
  active,       \* the extension macOS runs
  afterReboot   \* the extension that will be active after a reboot

installVars == <<installed, app, request, active, afterReboot>>
all == <<buildVars, installVars>>

Statuses == {"Idle", "Requesting", "NeedsApproval", "Activated",
             "WillCompleteAfterReboot", "Failed"}
NotRunning == [from |-> "nowhere", capable |-> FALSE, status |-> "Idle"]
Running == app.from # "nowhere"
Bundle == IF app.from = "Applications" THEN installed ELSE target

InstallInit ==
  /\ BundleInit
  /\ installed = None /\ app = NotRunning
  /\ request = None /\ active = None /\ afterReboot = None

-----------------------------------------------------------------------------
(* extension_capability: the gates in their order. *)

(* extension_activation_metadata: an Info.plist that names a Mach service, *)
(* and, for the gate after it, a group.                                    *)
HasActivationMetadata(ext) == ext.plist /\ ext.service # None /\ ext.group # None

(* Mutant: the app itself need not name or be signed with the group. *)
GroupIsGranted(b) ==
  /\ HasActivationMetadata(b.ext)
  /\ SharedGroup(b.profile, b.ext.profile, b.ext.group) # None
  /\ b.ext.group \in b.ext.signature.groups
  /\ b.ext.service = b.ext.group

(* The group of the extension's Info.plist is granted by both profiles, is *)
(* the app's, and both are signed with it.  The service has that group as  *)
(* its prefix: a service stands for the group it was named after, and any  *)
(* suffix after it and a dot would do, but the bundler adds only one.      *)
GroupsAgree(b) ==
  /\ HasActivationMetadata(b.ext)
  /\ SharedGroup(b.profile, b.ext.profile, b.ext.group) # None
  /\ b.group = b.ext.group
  /\ b.ext.group \in b.signature.groups /\ b.ext.group \in b.ext.signature.groups
  /\ b.ext.service = b.ext.group

TeamsAgree(b) ==
  /\ TeamsMatch(b.signature.team, ProfileTeam(b.profile))
  /\ TeamsMatch(b.signature.team, b.ext.signature.team)
  /\ TeamsMatch(b.ext.signature.team, ProfileTeam(b.ext.profile))

Capable(b, from) ==
  /\ from = "Applications"
  /\ b.ext # NoExtension
  /\ Verified(b)
  /\ "Install" \in b.signature.entitlements
  /\ ValidForApp(b.profile) /\ ValidForExtension(b.ext.profile)
  /\ GroupsAgree(b)
  /\ TeamsAgree(b)

(* shared_frame_file_path: the file in the group's container, or without a *)
(* group the POSIX object.                                                 *)
Endpoint(b) == IF b.group = None THEN "Posix" ELSE b.group

-----------------------------------------------------------------------------
(* The user *)

CopyToApplications ==
  /\ ~Running /\ build.step \in {"idle", "done"}
  /\ target # None
  /\ installed' = target
  /\ UNCHANGED <<buildVars, app, request, active, afterReboot>>

(* An extension of another build is put into the bundle by hand, which is  *)
(* then signed again as it was.                                            *)
Graft ==
  /\ AtStep("done") /\ ~Running
  /\ build' = [step |-> "idle", config |-> None]
  /\ installed # None /\ installed.ext # NoExtension /\ Verified(installed.ext)
  /\ target' = [target EXCEPT !.ext = installed.ext,
                  !.signature.seal = [target EXCEPT !.ext = installed.ext, !.signature = None]]
  /\ UNCHANGED installVars

Launch(from) ==
  /\ ~Running /\ build.step \in {"idle", "done"}
  /\ LET b == IF from = "Applications" THEN installed ELSE target IN
       /\ b # None
       /\ app' = [from |-> from, capable |-> Capable(b, from), status |-> "Idle"]
  /\ UNCHANGED <<buildVars, installed, request, active, afterReboot>>

Quit ==
  /\ Running /\ app' = NotRunning
  /\ UNCHANGED <<buildVars, installed, request, active, afterReboot>>

(* activation_request_allowed *)
RequestAllowed == app.status \in {"Idle", "Failed"}

(* The button is enabled when both hold; ExtensionInstaller::activate.     *)
Activate ==
  /\ Running /\ app.capable /\ RequestAllowed
  /\ app' = [app EXCEPT !.status = "Requesting"]
  /\ request' = Bundle.ext
  /\ UNCHANGED <<buildVars, installed, active, afterReboot>>

-----------------------------------------------------------------------------
(* macOS, which answers the delegate of the app that asked if it still     *)
(* runs.                                                                   *)

Pending == request # None
Hears == app.status \in {"Requesting", "NeedsApproval"}
Tell(status) == app' = IF Hears THEN [app EXCEPT !.status = status] ELSE app

(* requestNeedsUserApproval *)
NeedApproval ==
  /\ Pending
  /\ app' = [app EXCEPT !.status = "NeedsApproval"] /\ app.status = "Requesting"
  /\ UNCHANGED <<buildVars, installed, request, active, afterReboot>>

(* didFinishWithResult; before, actionForReplacingExtension answered       *)
(* Replace if another copy of the extension was active.                    *)
Finish ==
  /\ Pending
  /\ \/ /\ Tell("Activated")
        /\ active' = request
        /\ UNCHANGED afterReboot
     \/ /\ Tell("WillCompleteAfterReboot")
        /\ afterReboot' = request
        /\ UNCHANGED active
  /\ request' = None
  /\ UNCHANGED <<buildVars, installed>>

(* Mutant: what cannot be described is not reported. *)
FailureOfPanicQuiet == app

(* The fallback of didFailWithError, when the description panics. *)
FailureOfPanic == IF Hears THEN [app EXCEPT !.status = "Failed"] ELSE app

(* didFailWithError *)
Fail ==
  /\ Pending
  /\ Tell("Failed") \/ app' = FailureOfPanic
  /\ request' = None
  /\ UNCHANGED <<buildVars, installed, active, afterReboot>>

Reboot ==
  /\ ~Running
  /\ active' = IF afterReboot = None THEN active ELSE afterReboot
  /\ afterReboot' = None
  /\ UNCHANGED <<buildVars, installed, app, request>>

User ==
  \/ CopyToApplications \/ Graft \/ Quit \/ Activate \/ Reboot
  \/ \E from \in {"Applications", "target"} : Launch(from)

System == NeedApproval \/ Finish \/ Fail

InstallNext ==
  \/ BundleNext /\ ~Running /\ UNCHANGED installVars
  \/ User \/ System

InstallSpec == InstallInit /\ [][InstallNext]_all

(* macOS settles a request, at the latest when the user answers it. *)
FairInstallSpec == InstallSpec /\ WF_all(Finish \/ Fail)

-----------------------------------------------------------------------------
InstallTypeOK ==
  /\ build.step \in BuildSteps
  /\ app.from \in {"nowhere", "Applications", "target"}
  /\ app.capable \in BOOLEAN /\ app.status \in Statuses
  /\ \A b \in {target, installed} : b = None \/ b.kind = "app"
  /\ \A e \in {request, active, afterReboot} : e = None \/ e.kind = "extension"

(* The bundler and the readiness check are two readings of the same rules: *)
(* what bundle_app completes with profiles is a bundle that may ask for    *)
(* activation once it is in /Applications.                                 *)
BuiltIsReady ==
  build.step = "done" /\ build.config.app # None => Capable(target, "Applications")

(* A request comes only from a bundle that is whole, whatever step of a    *)
(* build was the last, and whose two profiles grant the one group that     *)
(* both halves are signed with.                                            *)
CapableIsWhole ==
  app.capable =>
    /\ Verified(installed) /\ installed.plist
    /\ Verified(installed.ext) /\ installed.ext.plist
    /\ installed.signature.groups = installed.ext.signature.groups
    /\ installed.signature.groups \subseteq CommonGroups(installed.profile, installed.ext.profile)

InstallInv == InstallTypeOK /\ BuiltIsReady /\ CapableIsWhole

(* When the app says that the extension is active, the extension that runs *)
(* reads the endpoint the app writes to, however the two were built,       *)
(* grafted, replaced and activated before.                                 *)
SharesEndpoint ==
  app.status = "Activated" => Endpoint(Bundle) = Endpoint(active)

(* What the running app was told agrees with what it found and with what   *)
(* macOS did: only an app that is capable asks, the request that macOS has  *)
(* not settled is its own, and once it has heard of the end there is none.  *)
AppAgrees ==
  /\ app = [from |-> app.from, capable |-> app.capable, status |-> app.status]
  /\ app.status # "Idle" => app.capable
  /\ app.capable => app.from = "Applications" /\ installed # None /\ Capable(installed, app.from)
  /\ Hears /\ Pending => request = installed.ext
  /\ app.status \in {"Activated", "WillCompleteAfterReboot", "Failed"} => ~Pending
  /\ app.status = "Activated" => active = installed.ext

(* The inductive invariant. *)
InstallOrder ==
  /\ InstallTypeOK /\ BundleOrder
  /\ installed = None \/ IsAppBundle(installed)
  /\ AppAgrees

(* A request comes to an end for the user too: the app does not show a     *)
(* spinner for ever ("leaving the status at Requesting would spin the UI   *)
(* forever"), even if macOS gives a reason that cannot be read.            *)
RequestEnds ==
  app.status = "Requesting" ~> app.status # "Requesting"
=============================================================================
