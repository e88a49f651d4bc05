---------------------------- MODULE ScaffolderStart ----------------------------
(***************************************************************************)
(* What create-mobile-surfaces makes of its surroundings before it writes: *)
(* the command line and the names it derives (flags.mjs, prompts.mjs,      *)
(* validators/src/index.mjs), the template it was shipped with             *)
(* (template-manifest.mjs), the workspace it is started in (workspace.mjs) *)
(* and the toolchain of the machine (preflight.mjs).  Each operator is a   *)
(* function of what the code reads; the run itself is Scaffolder.          *)
(*                                                                         *)
(* A name is a sequence of kinds of characters: "a" and "A" for a letter,  *)
(* "1" for a digit, "-" for a dash.  What may be missing is a set with one *)
(* element or none.                                                        *)
(***************************************************************************)
EXTENDS Integers, Sequences, FiniteSets

UpTo(n, set) == UNION {[1..k -> set] : k \in 0..n}

-----------------------------------------------------------------------------
(* Names.  The limits of length are left out.                              *)

Names == UpTo(3, {"a", "A", "1", "-"})
Chars(s) == {s[i] : i \in DOMAIN s}

Lower(s) == [i \in DOMAIN s |-> IF s[i] = "A" THEN "a" ELSE s[i]]
Alphanumeric(s) == SelectSeq(s, LAMBDA c : c # "-")

(* The vendors' prefixes and the placeholder are not the user's.           *)
BundlePrefixes == {"com.acme", "com.example", "com.apple"}

validateProjectSlug(s) == s # <<>> /\ s[1] # "-" /\ "A" \notin Chars(s)
validateScheme(s) == s # <<>> /\ s[1] = "a" /\ Chars(s) \subseteq {"a", "1"}
validateBundleId(b) == b.name # <<>> /\ b.prefix \notin {"com.example", "com.apple"}
validateDisplayName(s) == s # <<>>
validateTeamId(t) == t # "other"
validateSwiftIdentifier(s) == s # <<>> /\ s[1] = "A" /\ "-" \notin Chars(s)

toScheme(name) == Alphanumeric(Lower(name))
toBundleId(name) == [prefix |-> "com.example", name |-> Lower(name)]

(* The words; how they are spaced and capitalised is left out.             *)
toDisplayName(name) == Alphanumeric(name)

(* Every word is capitalised, the digits at the front go.  <<>> stands for *)
(* the Error: there is no letter.                                          *)
toSwiftPrefix(name) ==
  LET Capital(i) == name[i] = "a" /\ (i = 1 \/ name[i - 1] = "-")
      camelCase == Alphanumeric([i \in DOMAIN name |-> IF Capital(i) THEN "A" ELSE name[i]])
      letters == {i \in DOMAIN camelCase : camelCase[i] # "1"} IN
  IF letters = {} THEN <<>>
  ELSE LET first == CHOOSE i \in letters : \A j \in letters : i <= j IN
       [SubSeq(camelCase, first, Len(camelCase)) EXCEPT ![1] = "A"]

-----------------------------------------------------------------------------
(* The command line.                                                       *)

Optional(set) == {{}} \cup {{x} : x \in set}
Or(option, default) == IF option = {} THEN default ELSE CHOOSE x \in option : TRUE

(* What parseArgs leaves: a word and one value for each flag.  "-" in the  *)
(* word is whatever is neither a letter nor a digit.                       *)
CommandLines ==
  [positional : Optional({<<"a">>, <<"A", "1">>, <<"-", "a">>}), name : Optional(Names),
   displayName : Optional({<<>>, <<"a">>}), scheme : Optional({<<"a">>, <<"1">>}),
   bundleId : Optional([prefix : BundlePrefixes, name : {<<"a">>}]), teamId : Optional({"", "ten", "other"})]

(* --x and --no-x: the negation wins, neither leaves it to the default.    *)
Flag(yes, no) == IF no THEN {FALSE} ELSE IF yes THEN {TRUE} ELSE {}

derivePositionalName(o) == {Lower(s) : s \in o.positional}

validateOverrides(o) ==
  /\ \A s \in o.name : validateProjectSlug(s)
  /\ \A s \in o.displayName : validateDisplayName(s)
  /\ \A s \in o.scheme : validateScheme(s)
  /\ \A b \in o.bundleId : validateBundleId(b)
  /\ \A t \in o.teamId : validateTeamId(t)

(* With --yes: no configuration without a name, or with a derived scheme   *)
(* or bundle id that is not valid.                                         *)
resolveYesConfig(o) ==
  LET name == IF o.name = {} THEN derivePositionalName(o) ELSE o.name
      Config(s) ==
        [projectName |-> s,
         displayName |-> Or(o.displayName, IF toDisplayName(s) = <<>> THEN <<"A">> ELSE toDisplayName(s)),
         scheme |-> Or(o.scheme, toScheme(s)), bundleId |-> Or(o.bundleId, toBundleId(s)),
         teamId |-> Or(o.teamId, "")] IN
  {c \in {Config(s) : s \in name} : validateScheme(c.scheme) /\ validateBundleId(c.bundleId)}

(* The prompts with every default taken; one that is not valid is asked    *)
(* for again.                                                              *)
PromptDefaults(o) ==
  LET s == Or(o.name, Or(derivePositionalName(o), <<"a", "-", "a">>))
      c == [projectName |-> s,
            displayName |-> Or(o.displayName, IF toDisplayName(s) = <<>> THEN <<"A">> ELSE toDisplayName(s)),
            scheme |-> Or(o.scheme, toScheme(s)), bundleId |-> Or(o.bundleId, toBundleId(s)),
            teamId |-> Or(o.teamId, "")] IN
  {x \in {c} : /\ o.name # {} \/ validateProjectSlug(s)
               /\ o.displayName # {} \/ validateDisplayName(x.displayName)
               /\ o.scheme # {} \/ validateScheme(x.scheme)
               /\ o.bundleId # {} \/ validateBundleId(x.bundleId)}

-----------------------------------------------------------------------------
(* The template: a bundle made when the tool was published, or the         *)
(* monorepo the tool is part of.                                           *)

Commits == {"older", "head"}
Installations ==
  [forced : {"", "live", "bundled", "else"}, manifest : BOOLEAN, monorepo : BOOLEAN,
   head : Optional({"head"}), tarball : {"missing", "bare"} \cup Commits]

(* The commit in the header of the archive; null when there is none.       *)
readTarballCommitId(tarball) == {tarball} \cap Commits

computeCliMode(i) ==
  LET commit == readTarballCommitId(i.tarball)
      fresh == ~i.monorepo \/ i.head = {} \/ commit = i.head IN
  CASE i.forced = "live" -> IF i.monorepo THEN "live" ELSE "throws"
    [] i.forced = "bundled" -> IF i.manifest THEN "bundled" ELSE "throws"
    [] i.forced = "else" -> "throws"
    [] i.forced = "" /\ i.manifest -> IF fresh THEN "bundled" ELSE "live"
    [] OTHER -> IF i.monorepo THEN "live" ELSE "throws"

(* One probe answers both: where the manifest is read from, and the tree.  *)
resolveTemplateRoot(i) == computeCliMode(i)
resolveTemplateTarball(i) == IF computeCliMode(i) = "bundled" THEN "tarball" ELSE "git"

(* A package the manifest adds: what apps/mobile declares it as, and       *)
(* whether the repository has it under packages/.                          *)
Packages == [scoped : BOOLEAN, declared : {"none", "range", "workspace:", "file:"}, here : BOOLEAN]

resolvePublishedMobileSurfacesVersion(p) == p.scoped /\ p.here

AddPackage(p) ==
  CASE p.declared = "range" -> [version |-> "range", workspace |-> FALSE]
    [] p.declared # "range" /\ resolvePublishedMobileSurfacesVersion(p) -> [version |-> "published", workspace |-> FALSE]
    [] p.declared = "none" /\ ~p.scoped -> [version |-> "latest", workspace |-> FALSE]
    [] OTHER -> [version |-> p.declared, workspace |-> TRUE]

-----------------------------------------------------------------------------
(* The workspace file, a line being the key, an indented item of a list,   *)
(* something else nested, nothing, or text in the first column: another    *)
(* key, for which an item that is not indented is taken as well.           *)

Yamls == UpTo(4, {"packages:", "item", "key", "nested", "blank"})

(* In a block: after the key, with no other key in between.                *)
InPackages(yaml, i) ==
  \E k \in 1..(i - 1) : yaml[k] = "packages:" /\ \A j \in (k + 1)..(i - 1) : yaml[j] # "key"

parsePnpmWorkspaceGlobs(yaml) ==
  {i \in DOMAIN yaml : yaml[i] \in {"item", "apps/*"} /\ InPackages(yaml, i)}

(* Mutant: at the end of the file, under whatever key that is.             *)
AppendAtTheEnd(yaml) == yaml \o (IF "packages:" \in Chars(yaml) THEN <<"apps/*">> ELSE <<"packages:", "apps/*">>)

(* After the last item of the first block, or in a block at the end.       *)
appendPnpmGlobs(yaml) ==
  LET keys == {i \in DOMAIN yaml : yaml[i] = "packages:"}
      last(set) == CHOOSE i \in set : \A j \in set : j <= i
      first == CHOOSE i \in keys : \A j \in keys : i <= j
      at == last({first} \cup {i \in DOMAIN yaml : /\ i > first /\ yaml[i] = "item"
                                                   /\ \A j \in (first + 1)..i : yaml[j] \notin {"key", "packages:"}})
      kept == {i \in DOMAIN yaml : \E j \in i..Len(yaml) : yaml[j] # "blank"} IN
  IF keys = {} THEN SubSeq(yaml, 1, Cardinality(kept)) \o <<"packages:", "apps/*">>
  ELSE SubSeq(yaml, 1, at) \o <<"apps/*">> \o SubSeq(yaml, at + 1, Len(yaml))

LOCKFILES == <<"pnpm", "bun", "yarn", "npm">>       \* named for who writes them
LOCKFILE_NAMES == {"pnpm", "bun", "yarn", "npm"}
PM_COMMANDS == {"pnpm", "npm", "yarn", "bun"}

(* The agent that started the tool, or the first lockfile on the way up.   *)
detectPackageManager(agent, levels) ==
  LET found == {i \in DOMAIN levels : i <= 6 /\ levels[i] # {}}
      first(set) == CHOOSE i \in set : \A j \in set : i <= j IN
  CASE agent \in Chars(LOCKFILES) -> {agent}
    [] agent \notin Chars(LOCKFILES) /\ found = {} -> {}
    [] OTHER -> {LOCKFILES[first({n \in DOMAIN LOCKFILES : LOCKFILES[n] \in levels[first(found)]})]}

-----------------------------------------------------------------------------
(* The toolchain.  A version of iOS is a pair; 0 and {} are null.          *)

Runtimes == [platform : {"iOS", "watchOS"}, isAvailable : BOOLEAN, version : {<<17, 1>>, <<17, 10>>}]
Machines ==
  [platform : {"darwin", "linux"}, node : {18, 20, 24}, xcodebuild : {"fails", "silent", "garbled", "16", "26"},
   simctl : {"fails", "garbled", "lists"}, runtimes : Optional(Runtimes), pnpm : BOOLEAN, pod : BOOLEAN]
Manifests == [node : {0, 24}, xcode : {0, 26}, ios : Optional({<<17, 9>>})]

checkPlatform(m) == IF m.platform = "darwin" THEN "ok" ELSE "fail"

checkNode(m, projectMajor) ==
  CASE m.node < 20 -> "fail"
    [] m.node >= 20 /\ m.node < projectMajor -> "warn"
    [] OTHER -> "ok"

checkPnpm(m) == IF m.pnpm THEN "ok" ELSE "warn"
checkCocoapods(m) == IF m.pod THEN "ok" ELSE "warn"

(* What cannot be read counts as present.                                  *)
parseXcodeVersion(output) == CASE output = "16" -> {16} [] output = "26" -> {26} [] OTHER -> {}

checkXcode(m, minimum) ==
  IF m.xcodebuild = "fails" \/ \E v \in parseXcodeVersion(m.xcodebuild) : v < minimum THEN "fail" ELSE "ok"

(* The minor version counts hundredths.                                    *)
parseIosVersion(v) == 100 * v[1] + v[2]

parseSimulatorRuntimes(runtimes, minimum) ==
  \E r \in runtimes : r.platform = "iOS" /\ r.isAvailable /\ parseIosVersion(r.version) >= parseIosVersion(minimum)

checkSimulatorRuntime(m, minimum) ==
  IF m.simctl = "lists" /\ parseSimulatorRuntimes(m.runtimes, minimum) THEN "ok" ELSE "fail"

BuildChecks == {"xcode", "simulator", "pods"}

downgradeBuildFailureToWarning(result) == IF result = "fail" THEN "warn" ELSE result

(* willInstall is FALSE under --no-install only.                           *)
runPreflight(m, manifest, willInstall) ==
  LET scaffold == [platform |-> checkPlatform(m), node |-> checkNode(m, manifest.node), pnpm |-> checkPnpm(m)]
      build == [xcode |-> checkXcode(m, manifest.xcode),
                simulator |-> checkSimulatorRuntime(m, Or(manifest.ios, <<17, 2>>)), pods |-> checkCocoapods(m)]
  IN [check \in DOMAIN scaffold \cup BuildChecks |->
        IF check \notin BuildChecks THEN scaffold[check]
        ELSE IF willInstall THEN build[check] ELSE downgradeBuildFailureToWarning(build[check])]

Failures(results) == {check \in DOMAIN results : results[check] = "fail"}
Warnings(results) == {check \in DOMAIN results : results[check] = "warn"}

-----------------------------------------------------------------------------
(* Properties of what a run starts from.                                   *)

(* Flags that pass validateOverrides lead to a configuration whose every   *)
(* name the validators take, with --yes as at the prompts, where --yes     *)
(* answers as the defaults do (flags.mjs:131-134); and a name with a letter*)
(* in it has a Swift prefix that compiles (validators, index.mjs:20-29).   *)
(* The word after the flags is not validated with --yes.                   *)
NamesAreValid ==
  \A o \in CommandLines : validateOverrides(o) =>
    LET named == o.name # {} \/ \A s \in derivePositionalName(o) : validateProjectSlug(s) IN
    /\ named /\ (o.name # {} \/ o.positional # {}) => resolveYesConfig(o) = PromptDefaults(o)
    /\ \A c \in resolveYesConfig(o) \cup PromptDefaults(o) :
         /\ validateProjectSlug(c.projectName) \/ ~named
         /\ validateDisplayName(c.displayName) /\ validateScheme(c.scheme)
         /\ validateBundleId(c.bundleId) /\ validateTeamId(c.teamId)
         /\ "a" \in Chars(c.projectName) => validateSwiftIdentifier(toSwiftPrefix(c.projectName))

(* Next to its monorepo a bundle is used only if it was archived from HEAD *)
(* or there is no HEAD to compare (template-manifest.mjs:79-87), what is   *)
(* used is there, and no package goes to another project with a version    *)
(* only the monorepo can resolve (215-223).                                *)
TemplateIsCurrent ==
  /\ \A i \in Installations : LET kind == computeCliMode(i) IN
       /\ kind = "bundled" /\ i.forced = "" /\ i.monorepo => i.head \subseteq readTarballCommitId(i.tarball)
       /\ kind = "bundled" => i.manifest
       /\ (resolveTemplateRoot(i) = "live") = (resolveTemplateTarball(i) = "git" /\ kind # "throws")
       /\ kind = "live" => i.monorepo
       /\ kind = "throws" => i.forced # "" \/ (~i.manifest /\ ~i.monorepo)
  /\ \A p \in Packages : ~AddPackage(p).workspace => AddPackage(p).version \notin {"workspace:", "file:"}

(* The glob that is added is one the tool then finds, with all that were   *)
(* there, and no line of the user's goes (apply-monorepo.mjs:315-317).     *)
GlobsAreFound ==
  \A yaml \in Yamls :
    LET new == appendPnpmGlobs(yaml)  found == parsePnpmWorkspaceGlobs(new) IN
    /\ \E i \in found : new[i] = "apps/*"
    /\ Cardinality(found) = Cardinality(parsePnpmWorkspaceGlobs(yaml)) + 1
    /\ "packages:" \in Chars(yaml) => SelectSeq(new, LAMBDA line : line # "apps/*") = yaml

(* Whoever is detected can be run, once the backup is open, and writes a   *)
(* lockfile the backup records; and it is the writer of a lockfile of the  *)
(* nearest directory that has one, whatever lies above                     *)
(* (package-manager.mjs:3-5, apply-existing.mjs:21-24).                    *)
ManagerIsTheirs ==
  \A agent \in LOCKFILE_NAMES \cup {"node"}, i, j \in 1..7, a, b \in SUBSET LOCKFILE_NAMES :
    LET levels == [k \in 1..7 |-> IF k = i THEN a ELSE IF k = j THEN b ELSE {}]
        who == detectPackageManager(agent, levels) IN
    /\ who \subseteq PM_COMMANDS \cap LOCKFILE_NAMES
    /\ agent = "node" /\ i <= 6 /\ i <= j /\ a # {} => who # {} /\ who \subseteq a

(* A machine that passes can build, unless it was told --no-install; that  *)
(* waives the checks of the build and no other, and what it waives is      *)
(* still said; and a run that was warned of nothing has the tools its      *)
(* later steps ask for (preflight.mjs:234-243; run-tasks.mjs:42-79).       *)
ToolchainIsJudged ==
  \A m \in Machines, manifest \in Manifests :
    LET willInstall(no) == Or(Flag(TRUE, no), TRUE)
        asked == runPreflight(m, manifest, willInstall(FALSE))
        waived == runPreflight(m, manifest, willInstall(TRUE)) IN
    /\ Failures(asked) = {} =>
         /\ m.platform = "darwin" /\ m.node >= 20 /\ m.xcodebuild # "fails"
         /\ \E r \in m.runtimes : r.platform = "iOS" /\ r.isAvailable /\ r.version = <<17, 10>>
    /\ Failures(waived) = Failures(asked) \ BuildChecks
    /\ Failures(waived) \cup Warnings(waived) = Failures(asked) \cup Warnings(asked)
    /\ Failures(asked) \cup Warnings(asked) = {} => m.pnpm /\ m.pod
=============================================================================
