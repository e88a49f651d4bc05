------------------------------ MODULE Scaffolder ------------------------------
(***************************************************************************)
(* One run of the create-mobile-surfaces command line tool, from the mode  *)
(* it detects to the message and the code it exits with.                   *)
(*                                                                         *)
(* An existing Expo app and a monorepo are edited in place, under a backup *)
(* session (backup.mjs); a new project is built in a staging directory and *)
(* renamed into place (scaffold.mjs). Each phase is the sequence "todo" of *)
(* the steps the source takes, in that order. A step that touches the disk *)
(* or starts a tool may fail, half-way if it writes; the process may be    *)
(* killed between two steps, or exit because its pipe closed while it      *)
(* waits; and the user keeps working on the paths nothing has recorded.    *)
(*                                                                         *)
(* The disk is the paths a run may change. A file is "old", "edited" by    *)
(* the user meanwhile, "torn" by a write that failed, or "new". A tree is  *)
(* "empty", "users" (the user has files in it), "copied", "stripped",      *)
(* "torn" or "new". node_modules and empty parent directories are left out *)
(* (backup.mjs:24-30), and so is the content of the edits.                 *)
(***************************************************************************)
EXTENDS ScaffolderStart

Files == {"package.json", "lockfile", "app.json", "workspace"}
Trees == {"widget", "apps/mobile", "staging", "target"}
Paths == Files \union Trees
Contents == {"absent", "empty", "old", "edited", "users", "copied", "stripped", "torn", "new"}

\* A disk the tool may be started on. "workspace" is the file that declares
\* one: pnpm-workspace.yaml, or the workspaces of package.json.
Host(d) ==
    /\ \A f \in Files : d[f] \in {"absent", "old"}
    /\ \A t \in Trees : d[t] \in {"absent", "empty", "users"}
    /\ d["staging"] = "absent"

CONSTANTS Hosts,      \* the disks a run may start on
          MaxEdits    \* bound on the user's edits during a run

ASSUME HostsAssumption == Hosts \subseteq {d \in [Paths -> Contents] : Host(d)}
ASSUME MaxEditsAssumption == MaxEdits \in Nat

Modes == {"existing-expo", "existing-monorepo-no-expo", "greenfield", "refuse"}

\* What detection reads of the command line and of package.json.
Evidence == [pkg : {"none", "invalid", "ok"}, expo : BOOLEAN, named : BOOLEAN, bare : BOOLEAN]

\* What the manifest, the flags and the prompts decide.
Choices == [installable : BOOLEAN, installNow : BOOLEAN, prefix : BOOLEAN, declared : BOOLEAN, tarball : BOOLEAN]

\* A step: what it does, to which path, and the content it leaves there.
Step == [do : {"recordFile", "recordIfPresent", "recordDir", "stage", "decide", "unstage", "write",
               "copy", "strip", "rename", "add", "tool", "need", "promote", "commit"},
         at : Paths, to : Contents]

Entry == [kind : {"file", "dir"}, path : Paths, existed : BOOLEAN]

\* The error being thrown and what the catch arms attach to it.
Error == [thrown : BOOLEAN, toolMissing : BOOLEAN, rolledBack : BOOLEAN, rollbackError : BOOLEAN, restored : Nat]

Phases == {"start", "prepare", "apply", "after", "build", "rollback", "exited", "killed"}
Reports == {"none", "usage", "help", "noTemplate", "refused", "toolchain", "cancelled", "dirNotEmpty", "applied", "stoppedBefore",
            "stoppedRestored", "toolMissing", "rolledBack", "rollbackErrored", "postCommit", "nothingLanded"}

VARIABLES
    mode,         \* what detectMode answered
    manual,       \* plan.appConfigManual: no app.json that parsed at detection
    choice,       \* manifest, flags and prompts
    disk,         \* content of every path
    before,       \* the user's latest version of every path (history)
    phase,        \* where the run is
    todo,         \* the steps left in this phase
    session,      \* #state of the BackupSession, "none" before it is opened
    manifest,     \* #manifest
    backup,       \* the copies in the backup directory, by original path
    litter,       \* directories of the run's own: "backup", "temp"
    err,          \* see Error
    interrupted,  \* SIGINT seen
    report,       \* what the user was told
    exitCode,     \* RUNNING until the process exits
    edits         \* how often the user has edited the disk (bounded)

setupVars == <<mode, manual, choice>>
diskVars == <<disk, before>>
sessionVars == <<session, manifest, backup, litter>>
endVars == <<report, exitCode>>
vars == <<setupVars, diskVars, sessionVars, endVars, phase, todo, err, interrupted, edits>>

SUCCESS == 0
USER_ERROR == 1
ENV_ERROR == 2
TEMPLATE_ERROR == 3
INTERRUPTED == 130
RUNNING == -1

NoError == [thrown |-> FALSE, toolMissing |-> FALSE, rolledBack |-> FALSE, rollbackError |-> FALSE, restored |-> 0]

Missing(p) == disk[p] = "absent"
Vacant(p) == disk[p] \in {"absent", "empty"}
Recorded(p) == \E i \in DOMAIN manifest : manifest[i].path = p

-----------------------------------------------------------------------------
(* What a run decides before it changes anything. *)

\* The decision tree, in its order of precedence.
DetectMode(e) ==
    LET monorepo == e.pkg = "ok" /\ ~Missing("workspace") /\ ~e.expo /\ Missing("apps/mobile") IN
    CASE monorepo -> "existing-monorepo-no-expo"
      [] ~monorepo /\ (e.named \/ e.bare) -> "greenfield"
      [] e.pkg = "ok" /\ e.expo /\ ~e.named /\ ~e.bare -> "existing-expo"
      [] OTHER -> "refuse"

S(do, at, to) == <<[do |-> do, at |-> at, to |-> to]>>
When(b, steps) == IF b THEN steps ELSE <<>>

\* Around the use of the bundled source tree.
prepareSourceTree(at) == S("stage", at, "new")
cleanup(at) == S("unstage", at, "new")

recordPackageFiles == S("recordFile", "package.json", "old") \o S("recordIfPresent", "lockfile", "old")
runAddPackages == S("add", "package.json", "new")

\* Mutant: the package manager runs before its files are recorded.
AddsBeforeRecording(c) == When(c.installable, runAddPackages \o recordPackageFiles)

ApplyPackageInstall(c) == When(c.installable, recordPackageFiles \o runAddPackages)

patchAppJson == S("write", "app.json", "new")
ApplyAppConfigPatch == When(~manual, S("recordFile", "app.json", "old") \o patchAppJson)

widgetCopyDecision == S("decide", "widget", "new")
copyWidgetTarget == S("recordDir", "widget", "new") \o S("copy", "widget", "copied")
\* The last step of a widget that keeps its bundled names.
applyStripWidgetDir(c) == S("strip", "widget", IF c.prefix THEN "stripped" ELSE "new")
applyWidgetRename(c) == When(c.prefix, S("rename", "widget", "new"))

\* The decision drops what follows up to the cleanup when the user has a widget.
ApplyWidgetCopyStripRename(c) ==
    prepareSourceTree("widget") \o widgetCopyDecision \o copyWidgetTarget
    \o applyStripWidgetDir(c) \o applyWidgetRename(c) \o cleanup("widget")

commit(at) == S("commit", at, "new")

ApplyToExisting(c) ==
    ApplyPackageInstall(c) \o ApplyAppConfigPatch \o ApplyWidgetCopyStripRename(c) \o commit("widget")

stageAndCopyAppsMobile ==
    prepareSourceTree("apps/mobile") \o S("copy", "apps/mobile", "copied") \o cleanup("apps/mobile")
stripSurfacesAndMarkers == S("strip", "apps/mobile", "stripped")
rewriteIdentityInTree == S("rename", "apps/mobile", "new")
patchAppsMobileAppJson == S("write", "apps/mobile", "new")
rewriteAppsMobileWorkspaceDeps == S("write", "apps/mobile", "new")
mergeWorkspaceGlobs(c) == When(~c.declared, S("write", "workspace", "new"))

\* The workspace file is recorded although merging may find apps/* declared.
ApplyMonorepo(c) ==
    S("recordDir", "apps/mobile", "new") \o S("recordFile", "workspace", "old")
    \o stageAndCopyAppsMobile \o stripSurfacesAndMarkers \o rewriteIdentityInTree
    \o patchAppsMobileAppJson \o rewriteAppsMobileWorkspaceDeps \o mergeWorkspaceGlobs(c) \o commit("apps/mobile")

ensureAvailable == S("need", "target", "new")
runInstall == S("tool", "target", "new")
prebuildIos == S("tool", "target", "new")

\* pnpm, install, CocoaPods, prebuild.
Toolchain(c) == When(c.installNow, ensureAvailable \o runInstall \o ensureAvailable \o prebuildIos)

\* After the commit. Prebuild is skipped when the app config is the user's.
AfterApply == IF mode = "existing-expo" THEN When(choice.installNow /\ ~manual, prebuildIos)
              ELSE Toolchain(choice)

copyTemplate == S("copy", "staging", "copied")
applyStripGreenfield == S("strip", "staging", "stripped")
renameIdentity(at) == S("rename", at, "new")
promoteStaging == S("promote", "target", "new")

\* Mutant: renames, installs and prebuilds in the target.
RunTasksInPlace(c) ==
    copyTemplate \o applyStripGreenfield \o promoteStaging \o renameIdentity("target") \o Toolchain(c)

\* The whole greenfield pipeline runs inside the staging directory.
RunTasks(c) ==
    copyTemplate \o applyStripGreenfield \o renameIdentity("staging") \o Toolchain(c) \o promoteStaging

-----------------------------------------------------------------------------
(* Start: detection, preflight, prompts. *)

Init ==
    /\ disk \in Hosts /\ before = disk
    /\ mode = "refuse" /\ manual = TRUE /\ phase = "start" /\ todo = <<>>
    /\ choice = [installable |-> FALSE, installNow |-> FALSE, prefix |-> FALSE, declared |-> FALSE, tarball |-> FALSE]
    /\ session = "none" /\ manifest = <<>> /\ backup = [p \in Paths |-> "absent"] /\ litter = {}
    /\ err = NoError /\ interrupted = FALSE /\ report = "none" /\ exitCode = RUNNING /\ edits = 0

ExitWith(what, code) == phase' = "exited" /\ report' = what /\ exitCode' = code

Detect ==
    /\ phase = "start"
    /\ \E e \in Evidence, parses \in BOOLEAN :
        /\ (e.pkg = "none") = Missing("package.json")
        /\ e.bare => \A p \in Paths : Missing(p)
        /\ mode' = DetectMode(e)
        /\ manual' = (Missing("app.json") \/ ~parses)
    /\ IF mode' = "refuse" THEN ExitWith("refused", USER_ERROR) ELSE phase' = "prepare" /\ UNCHANGED endVars
    /\ UNCHANGED <<choice, diskVars, sessionVars, todo, err, interrupted, edits>>

\* The surroundings in which a run ends early.
InvalidCommandLines == {o \in CommandLines : ~validateOverrides(o)}
IncompleteCommandLines == {o \in CommandLines : validateOverrides(o) /\ resolveYesConfig(o) = {}}
BrokenInstallations == {i \in Installations : computeCliMode(i) = "throws"}
UnfitMachines ==
    {m \in Machines : \E wanted \in Manifests, yes, no \in BOOLEAN :
                        Failures(runPreflight(m, wanted, Or(Flag(yes, no), TRUE))) # {}}

\* --help.
Help ==
    /\ phase = "start"
    /\ ExitWith("help", SUCCESS)
    /\ UNCHANGED <<setupVars, diskVars, sessionVars, todo, err, interrupted, edits>>

\* A flag that parseCliFlags does not know, or whose value is not valid.
CommandLineFails ==
    /\ phase = "start"
    /\ InvalidCommandLines # {}
    /\ ExitWith("usage", USER_ERROR)
    /\ UNCHANGED <<setupVars, diskVars, sessionVars, todo, err, interrupted, edits>>

\* loadTemplateManifest throws.
TemplateFails ==
    /\ phase = "start"
    /\ BrokenInstallations # {}
    /\ ExitWith("noTemplate", TEMPLATE_ERROR)
    /\ UNCHANGED <<setupVars, diskVars, sessionVars, todo, err, interrupted, edits>>

\* --yes for a new project, without what it needs.
YesFails ==
    /\ phase = "prepare" /\ mode = "greenfield"
    /\ IncompleteCommandLines # {}
    /\ ExitWith("usage", USER_ERROR)
    /\ UNCHANGED <<setupVars, diskVars, sessionVars, todo, err, interrupted, edits>>

\* runPreflightOrExit: a check of the toolchain has failed.
PreflightFails ==
    /\ phase = "prepare"
    /\ UnfitMachines # {}
    /\ ExitWith("toolchain", ENV_ERROR)
    /\ UNCHANGED <<setupVars, diskVars, sessionVars, todo, err, interrupted, edits>>

\* Ctrl+C at a prompt (guard).
Cancel ==
    /\ phase = "prepare"
    /\ ExitWith("cancelled", SUCCESS)
    /\ UNCHANGED <<setupVars, diskVars, sessionVars, todo, err, interrupted, edits>>

\* What each set of prompts may leave; a field the mode does not read is FALSE.
GreenfieldChoices == {c \in Choices : ~c.installable /\ ~c.prefix /\ ~c.declared /\ ~c.tarball}
ExpoChoices == {c \in Choices : ~c.declared}
MonorepoChoices == {c \in Choices : ~c.installable /\ ~c.prefix}

\* The target must be vacant now; nobody looks at it again until the staging
\* directory is renamed.
BeginBuild ==
    /\ phase = "prepare" /\ mode = "greenfield"
    /\ choice' \in GreenfieldChoices
    /\ IF Vacant("target")
       THEN /\ disk' = [disk EXCEPT !["staging"] = "empty"]
            /\ phase' = "build" /\ todo' = RunTasks(choice') /\ UNCHANGED endVars
       ELSE ExitWith("dirNotEmpty", USER_ERROR) /\ UNCHANGED <<disk, todo>>
    /\ UNCHANGED <<mode, manual, before, sessionVars, err, interrupted, edits>>

\* The session's directory is made before the try: when that fails the error
\* carries no trace of a rollback.
BeginApply ==
    /\ phase = "prepare" /\ mode \in {"existing-expo", "existing-monorepo-no-expo"}
    /\ choice' \in IF mode = "existing-expo" THEN ExpoChoices ELSE MonorepoChoices
    /\ \/ /\ session' = "open" /\ litter' = {"backup"} /\ phase' = "apply"
          /\ todo' = IF mode = "existing-expo" THEN ApplyToExisting(choice') ELSE ApplyMonorepo(choice')
          /\ UNCHANGED err
       \/ /\ phase' = "after" /\ err' = [err EXCEPT !.thrown = TRUE] /\ UNCHANGED <<session, litter, todo>>
    /\ UNCHANGED <<mode, manual, diskVars, manifest, backup, endVars, interrupted, edits>>

-----------------------------------------------------------------------------
(* Steps. *)

Running == phase \in {"apply", "after", "build"} /\ ~err.thrown
Doing(what) == Running /\ todo # <<>> /\ Head(todo).do \in what
At == Head(todo).at
Advance == todo' = Tail(todo) /\ UNCHANGED <<phase, err>>

\* Mutant: does not count the file the step was about.
RestoredCountLess == Cardinality({i \in DOMAIN manifest : manifest[i].kind = "file"}) - 1

RestoredCount == Cardinality({i \in DOMAIN manifest : manifest[i].kind = "file"})
RolledBack(refused) ==
    [err EXCEPT !.thrown = TRUE, !.rolledBack = TRUE, !.rollbackError = refused, !.restored = RestoredCount]

\* What the catch arms do first: an apply counts the files it has recorded,
\* marks the error, and rolls back.
Throw(missing) ==
    /\ todo' = <<>>
    /\ IF phase = "apply" THEN err' = RolledBack(FALSE) /\ phase' = "rollback"
       ELSE err' = [err EXCEPT !.thrown = TRUE, !.toolMissing = missing] /\ UNCHANGED phase

\* The finally around the use of the source tree: source.cleanup(), which may
\* itself throw.
Unwind == litter' \in {litter, IF \E i \in DOMAIN todo : todo[i].do = "unstage" THEN litter \ {"temp"} ELSE litter}

Untouched == UNCHANGED <<setupVars, before, endVars, interrupted, edits>>

\* recordFile: the copy is made before the entry is pushed, both before the
\* path is written.
RecordFile ==
    /\ Doing({"recordFile", "recordIfPresent"})
    /\ \/ /\ Recorded(At) \/ (Head(todo).do = "recordIfPresent" /\ Missing(At))
          /\ Advance /\ UNCHANGED <<manifest, backup>>
       \/ /\ ~Recorded(At) /\ (Head(todo).do = "recordIfPresent" => ~Missing(At))
          /\ backup' = [backup EXCEPT ![At] = disk[At]]
          /\ manifest' = Append(manifest, [kind |-> "file", path |-> At, existed |-> ~Missing(At)])
          /\ Advance
       \/ Throw(FALSE) /\ UNCHANGED <<manifest, backup>>
    /\ UNCHANGED <<disk, session, litter>> /\ Untouched

\* recordDir refuses a directory with files in it.
RecordDir ==
    /\ Doing({"recordDir"})
    /\ IF Vacant(At) \/ Recorded(At)
       THEN /\ manifest' = IF Recorded(At) THEN manifest
                           ELSE Append(manifest, [kind |-> "dir", path |-> At, existed |-> ~Missing(At)])
            /\ Advance
       ELSE Throw(FALSE) /\ UNCHANGED manifest
    /\ IF err' = err THEN UNCHANGED litter ELSE Unwind
    /\ UNCHANGED <<disk, session, backup>> /\ Untouched

\* prepareSourceTree: a tarball is unpacked in a temporary directory, which
\* stays behind when tar fails.
Stage ==
    /\ Doing({"stage"})
    /\ litter' = litter \union (IF choice.tarball THEN {"temp"} ELSE {})
    /\ Advance \/ Throw(FALSE)
    /\ UNCHANGED <<disk, session, manifest, backup>> /\ Untouched

\* widgetCopyDecision: a target directory with files in it is left alone.
Decide ==
    /\ Doing({"decide"})
    /\ todo' = IF Vacant(At) THEN Tail(todo) ELSE SubSeq(todo, Len(todo) - 1, Len(todo))
    /\ UNCHANGED <<phase, err, disk, sessionVars>> /\ Untouched

\* source.cleanup()
Unstage ==
    /\ Doing({"unstage"})
    /\ \/ litter' = litter \ {"temp"} /\ Advance
       \/ UNCHANGED litter /\ Throw(FALSE)
    /\ UNCHANGED <<disk, session, manifest, backup>> /\ Untouched

\* Strip deletes under the bundled names and the rename changes them; patches
\* look for the new ones. A tree that missed the step before stays as it is.
Edited(step) ==
    IF step.at \in Trees /\ step.do # "copy"
       /\ disk[step.at] # (CASE step.do = "strip" -> "copied" [] step.do = "rename" -> "stripped" [] OTHER -> "new")
    THEN disk[step.at] ELSE step.to

\* A step that writes a file or a tree: all, part or nothing of it.
Write ==
    /\ Doing({"write", "copy", "strip", "rename"})
    /\ \/ disk' = [disk EXCEPT ![At] = Edited(Head(todo))] /\ Advance /\ UNCHANGED litter
       \/ /\ disk' \in {disk, [disk EXCEPT ![At] = "torn"]}
          /\ Throw(FALSE) /\ Unwind
    /\ UNCHANGED <<session, manifest, backup>> /\ Untouched

\* The package manager writes package.json and its lockfile, and may give up
\* in between.
AddPackages ==
    /\ Doing({"add"})
    /\ \/ disk' = [disk EXCEPT !["package.json"] = "new", !["lockfile"] = "new"] /\ Advance
       \/ /\ \E p \in {disk["package.json"], "torn", "new"}, l \in {disk["lockfile"], "torn", "new"} :
                disk' = [disk EXCEPT !["package.json"] = p, !["lockfile"] = l]
          /\ Throw(FALSE)
    /\ UNCHANGED sessionVars /\ Untouched

\* ensurePnpmAvailable, ensureCocoapodsAvailable, runInstall, prebuildIos.
RunTool ==
    /\ Doing({"need", "tool"})
    /\ Advance \/ Throw(Head(todo).do = "need")
    /\ UNCHANGED <<disk, sessionVars>> /\ Untouched

\* renameSync replaces nothing but a vacant directory.
Promote ==
    /\ Doing({"promote"})
    /\ \/ /\ Vacant("target")
          /\ disk' = [disk EXCEPT !["target"] = disk["staging"], !["staging"] = "absent"]
          /\ Advance
       \/ UNCHANGED disk /\ Throw(FALSE)
    /\ UNCHANGED sessionVars /\ Untouched

\* commit(): the state changes before the directory is removed, and the
\* rollback that a failed removal leads to is refused.
Commit ==
    /\ Doing({"commit"})
    /\ session' = "committed" /\ phase' = "after"
    /\ \/ litter' = litter \ {"backup"} /\ todo' = AfterApply /\ UNCHANGED err
       \/ todo' = <<>> /\ err' = RolledBack(TRUE) /\ UNCHANGED litter
    /\ UNCHANGED <<disk, manifest, backup>> /\ Untouched

-----------------------------------------------------------------------------
(* Rolling back, reporting, and what happens to the process. *)

\* Mutant: a directory that was there and empty is removed.
RestoreByRemoving ==
    /\ phase = "rollback" /\ manifest # <<>>
    /\ LET e == manifest[Len(manifest)]
           restored == IF e.kind = "file" THEN backup[e.path] ELSE "absent" IN
       \/ disk' = [disk EXCEPT ![e.path] = restored] /\ UNCHANGED err
       \/ /\ disk' \in {disk, [disk EXCEPT ![e.path] = "torn"]}
          /\ err' = [err EXCEPT !.rollbackError = TRUE]
    /\ manifest' = SubSeq(manifest, 1, Len(manifest) - 1)
    /\ UNCHANGED <<phase, todo, session, backup, litter>> /\ Untouched

\* One entry, the last first. Errors are collected and the walk goes on.
RestoreEntry ==
    /\ phase = "rollback" /\ manifest # <<>>
    /\ LET e == manifest[Len(manifest)]
           restored == IF e.kind = "file" THEN backup[e.path] ELSE IF e.existed THEN "empty" ELSE "absent" IN
       \/ disk' = [disk EXCEPT ![e.path] = restored] /\ UNCHANGED err
       \/ /\ disk' \in {disk, [disk EXCEPT ![e.path] = "torn"]}
          /\ err' = [err EXCEPT !.rollbackError = TRUE]
    /\ manifest' = SubSeq(manifest, 1, Len(manifest) - 1)
    /\ UNCHANGED <<phase, todo, session, backup, litter>> /\ Untouched

\* renderApplyError.
ApplyReport ==
    CASE interrupted -> IF err.restored > 0 THEN "stoppedRestored" ELSE "stoppedBefore"
      [] ~interrupted /\ err.toolMissing -> "toolMissing"
      [] ~interrupted /\ ~err.toolMissing /\ err.rolledBack ->
            IF err.rollbackError THEN "rollbackErrored" ELSE "rolledBack"
      [] OTHER -> "postCommit"

FailureCode == IF interrupted THEN INTERRUPTED ELSE ENV_ERROR

\* The end of rollback(): the backup goes, whatever could not be restored.
FinishRollback ==
    /\ phase = "rollback" /\ manifest = <<>>
    /\ session' = "rolledBack" /\ phase' = "after"
    /\ \/ litter' = litter \ {"backup"} /\ UNCHANGED err
       \/ err' = [err EXCEPT !.rollbackError = TRUE] /\ UNCHANGED litter
    /\ UNCHANGED <<disk, todo, manifest, backup>> /\ Untouched

ReportApply ==
    /\ phase = "after" /\ (err.thrown \/ todo = <<>>)
    /\ IF err.thrown THEN ExitWith(ApplyReport, FailureCode) ELSE ExitWith("applied", SUCCESS)
    /\ UNCHANGED <<setupVars, diskVars, sessionVars, todo, err, interrupted, edits>>

\* rollbackStaging is best effort.
ReportBuild ==
    /\ phase = "build" /\ (err.thrown \/ todo = <<>>)
    /\ IF err.thrown
       THEN /\ disk' \in {disk, [disk EXCEPT !["staging"] = "absent"]}
            /\ ExitWith("nothingLanded", FailureCode)
       ELSE ExitWith("applied", SUCCESS) /\ UNCHANGED disk
    /\ UNCHANGED <<setupVars, before, sessionVars, todo, err, interrupted, edits>>

\* The event loop turns: a child process, or a read, is awaited.
Awaiting == phase = "prepare" \/ Doing({"stage", "add", "rename", "need", "tool"})
            \/ (Doing({"copy"}) /\ At = "staging")

\* Ctrl+C only sets a flag; the tool in the foreground may fail of it.
Interrupt ==
    /\ Awaiting /\ ~interrupted
    /\ interrupted' = TRUE
    /\ UNCHANGED <<setupVars, diskVars, sessionVars, endVars, phase, todo, err, edits>>

\* EPIPE on stdout while no failure has been recorded.
PipeCloses ==
    /\ Awaiting
    /\ ExitWith("none", SUCCESS)
    /\ UNCHANGED <<setupVars, diskVars, sessionVars, todo, err, interrupted, edits>>

Alive == phase \notin {"exited", "killed"}

Kill ==
    /\ Alive /\ phase' = "killed"
    /\ UNCHANGED <<setupVars, diskVars, sessionVars, endVars, todo, err, interrupted, edits>>

\* The user saves a file, or puts files in a directory, that the run has not
\* recorded and is not writing.
UserEdits(p) ==
    /\ Alive /\ phase # "rollback" /\ edits < MaxEdits /\ ~Recorded(p)
    /\ disk[p] = before[p]
    /\ disk' = [disk EXCEPT ![p] = IF p \in Files THEN "edited" ELSE "users"]
    /\ before' = [before EXCEPT ![p] = disk'[p]]
    /\ edits' = edits + 1
    /\ UNCHANGED <<setupVars, sessionVars, endVars, phase, todo, err, interrupted>>

Editable == Paths \ {"staging", "lockfile"}

Steps == RecordFile \/ RecordDir \/ Stage \/ Decide \/ Unstage \/ Write \/ AddPackages \/ RunTool \/ Promote \/ Commit
Ends == RestoreEntry \/ FinishRollback \/ ReportApply \/ ReportBuild
Begins == Help \/ CommandLineFails \/ TemplateFails \/ Detect \/ YesFails \/ PreflightFails \/ Cancel \/ BeginBuild \/ BeginApply
Happens == Interrupt \/ PipeCloses \/ Kill \/ \E p \in Editable : UserEdits(p)

Next == Begins \/ Steps \/ Ends \/ Happens

Spec == Init /\ [][Next]_vars

-----------------------------------------------------------------------------
(* Properties. *)

\* Every variable has its type.
TypeOK ==
    /\ mode \in Modes /\ manual \in BOOLEAN /\ choice \in Choices
    /\ disk \in [Paths -> Contents] /\ before \in [Paths -> Contents]
    /\ phase \in Phases /\ todo \in Seq(Step)
    /\ session \in {"none", "open", "committed", "rolledBack"} /\ manifest \in Seq(Entry)
    /\ backup \in [Paths -> Contents] /\ litter \subseteq {"backup", "temp"}
    /\ err \in Error /\ interrupted \in BOOLEAN
    /\ report \in Reports /\ exitCode \in {RUNNING, SUCCESS, USER_ERROR, ENV_ERROR, TEMPLATE_ERROR, INTERRUPTED}
    /\ edits \in 0..MaxEdits

\* What the user had is on disk or in the backup at every moment the process
\* may be killed at, until the apply is committed or a restore has failed; and
\* a directory the user has files in is never written into, also when they
\* appear while the run is under way (record-before-mutate, backup.mjs;
\* widgetCopyDecision, recordDir, promoteStaging).
OriginalsKept ==
    \A p \in Paths :
        \/ disk[p] = before[p] \/ before[p] \in {"absent", "empty"}
        \/ p \in Files /\ backup[p] = before[p] /\ "backup" \in litter
        \/ p \in Files /\ (session = "committed" \/ err.rollbackError)

\* What renameIdentity runs in the new project.
Starter == INSTANCE RenameStarter

\* What a run starts from is sound: the names it derives, the template it takes,
\* the workspace file it will edit, and what it says of the toolchain.
StartsAreSound ==
    phase = "start" => NamesAreValid /\ TemplateIsCurrent /\ GlobsAreFound /\ ManagerIsTheirs /\ ToolchainIsJudged

\* The script that renames the starter leaves the names that were asked for, and
\* is completed by the same command from wherever it stopped (rename-starter.mjs).
RenamesAreExact == phase = "start" => Starter!RenamesAreExact

\* The codes mean what --help says of them (flags.mjs:205-215), a run that stops
\* before it begins has written nothing (copy.mjs:76), and one that leaves its
\* target half-way never says 0, unless nobody is there to read.
CodesAreKept ==
    /\ exitCode = USER_ERROR <=> report \in {"usage", "refused", "dirNotEmpty"}
    /\ exitCode = TEMPLATE_ERROR <=> report = "noTemplate"
    /\ exitCode = INTERRUPTED => interrupted /\ err.thrown
    /\ exitCode = SUCCESS => report \in {"applied", "cancelled", "help", "none"} /\ ~err.thrown
    /\ report \in {"usage", "help", "noTemplate", "refused", "toolchain", "cancelled", "dirNotEmpty"} =>
           disk = before /\ litter = {}

\* Every path is back as the user had it, but for a lockfile that the package
\* manager has made: nothing records a file that is not there.
Restored == \A p \in Paths : disk[p] = before[p] \/ (p = "lockfile" /\ before[p] = "absent")

\* What was planned is there.
Landed ==
    /\ mode = "existing-expo" =>
          /\ choice.installable => disk["package.json"] = "new" /\ disk["lockfile"] = "new"
          /\ ~manual => disk["app.json"] = "new"
          /\ disk["widget"] \in {"new", "users"}
    /\ mode = "existing-monorepo-no-expo" =>
          disk["apps/mobile"] = "new" /\ (choice.declared \/ disk["workspace"] = "new")
    /\ mode = "greenfield" => disk["target"] = "new"

\* The user is told what happened to the disk (copy.mjs:163-204, renderApplyError,
\* rollback, commit). A failure is never passed over in silence; a backup stays
\* only where its removal failed, and the user hears of it, unless interrupted.
\* Three messages say more than is so, and the disjuncts beside them are all that
\* can be so instead:
\*   "Stopped before any files were changed" of an interrupt after the commit, of
\*     a failed commit, or of a failed restore; "Recorded files were restored" of
\*     the last two. renderApplyError looks at the interrupt first.
\*   "The apply step succeeded" of a session directory that could not be made.
ReportsAreTrue ==
    /\ CodesAreKept
    /\ phase = "exited" /\ err.thrown => report # "none"
    /\ report # "none" =>
          /\ "backup" \in litter => err.rollbackError
          /\ err.rollbackError => report = "rollbackErrored" \/ interrupted
          /\ session = "committed" => Landed
    /\ report = "applied" => litter = {} /\ Missing("staging") /\ Landed
    /\ report = "rolledBack" => session = "rolledBack" /\ Restored
    /\ report = "rollbackErrored" => err.rollbackError /\ session \in {"rolledBack", "committed"}
    /\ report = "stoppedRestored" => (session = "rolledBack" /\ Restored) \/ err.rollbackError
    /\ report = "stoppedBefore" => disk = before \/ session = "committed" \/ err.rollbackError
    /\ report = "toolMissing" => session = "committed"
    /\ report = "postCommit" => session = "committed" \/ (session = "none" /\ disk = before)

\* Documented: "Stopped before any files were changed." (copy.mjs:203), here of a
\* run in which no restore and no commit has failed.
StoppedMeansUnchanged == report = "stoppedBefore" /\ ~err.rollbackError => disk = before

\* The directory the user named holds what it held or a whole project, and
\* what it held when the build is reported to have failed (promoteStaging).
AtomicPromotion ==
    /\ disk["target"] \in {before["target"], "new"}
    /\ report = "nothingLanded" => disk["target"] = before["target"]
=============================================================================
