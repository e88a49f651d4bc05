----------------------------- MODULE RenameStarter -----------------------------
(***************************************************************************)
(* The rebranding of a project (scripts/rename-starter.mjs), which the     *)
(* scaffolder runs in every new project and its user may run again: the    *)
(* replacement of the old names in the text files, the renaming of files,  *)
(* the generators it runs, and the manifest it stamps for the next run.    *)
(*                                                                         *)
(* A text is a sequence of words and the marks between them, so that one   *)
(* text is part of another here when it is in the code.  A file is the     *)
(* sequence of the places in it that hold a name, and no match goes from   *)
(* one place to the next.  A path is a text with "/" in it; its last       *)
(* element is the extension.  One file stands for those treated alike.     *)
(***************************************************************************)
EXTENDS Naturals, FiniteSets, SequencesExt

Capital == [mobile |-> "Mobile", surfaces |-> "Surfaces", foo |-> "Foo", app |-> "App", pro |-> "Pro"]
Capitals(words) == [i \in DOMAIN words |-> Capital[words[i]]]
Joined(words, mark) ==
  [i \in 1..(2 * Len(words) - 1) |-> IF i % 2 = 1 THEN words[(i + 1) \div 2] ELSE mark]

Occurs(part, text) ==
  \E i \in 1..(Len(text) - Len(part) + 1) : SubSeq(text, i, i + Len(part) - 1) = part

-----------------------------------------------------------------------------
(* Identities.                                                             *)

DEFAULT_IDENTITY ==
  [name |-> <<"Mobile", " ", "Surfaces">>, scheme |-> <<"mobile", "surfaces">>,
   bundleId |-> <<"com", ".", "example", ".", "mobile", "surfaces">>,
   widgetTarget |-> <<"Mobile", "Surfaces", "Widget">>, swiftPrefix |-> <<"Mobile", "Surfaces">>,
   slug |-> <<"mobile", "-", "surfaces">>,
   appPackageName |-> <<"mobile", "-", "surfaces", "-", "app">>]

(* What the command line says; {} is an option that is not given.          *)
Option(set) == {{}} \cup {{x} : x \in set}
Given(option, default) == IF option = {} THEN default ELSE CHOOSE x \in option : TRUE

toKebab(name) == Joined(name, "-")
deriveSwiftPrefix(target) == IF Last(target) = "Widget" THEN Front(target) ELSE target

NewIdentity(values) ==
  LET slug == Given(values.slug, toKebab(values.name)) IN
  [name |-> Joined(Capitals(values.name), " "), scheme |-> values.scheme, bundleId |-> values.bundleId,
   widgetTarget |-> values.widgetTarget, slug |-> slug,
   swiftPrefix |-> Given(values.swiftPrefix, deriveSwiftPrefix(values.widgetTarget)),
   appPackageName |-> Given(values.appPackageName, slug \o <<"-", "app">>)]

(* Of the validators, what a flag or a default can still break.            *)
assertValid(id) == id.swiftPrefix # <<>> /\ ~IsPrefix(<<"com", ".", "example">>, id.bundleId)

(* Mutant: takes every project for one that was never renamed.             *)
LoadDefaultIdentity(project) == DEFAULT_IDENTITY

(* The manifest of the last rename, or the names the template comes with.  *)
loadCurrentIdentity(project) == Given(project.manifest, DEFAULT_IDENTITY)

(* The fields in the order in which they are replaced.                     *)
buildSubstitutions ==
  <<"bundleId", "name", "widgetTarget", "swiftPrefix", "appPackageName", "slug", "scheme">>

isIdempotent(old, new) ==
  \A i \in DOMAIN buildSubstitutions : old[buildSubstitutions[i]] = new[buildSubstitutions[i]]

-----------------------------------------------------------------------------
(* The text files.                                                         *)

TEXT_EXTENSIONS == {".ts", ".mjs", ".js", ".json", ".md", ".swift", ".entitlements", ".yaml"}
SKIP_DIRS == {"node_modules", ".git", "dist", "build"}
Mobile == <<"apps", "/", "mobile", "/">>
Targets(dir) == Mobile \o <<"targets", "/", dir, "/">>
SKIP_PATH_PREFIXES ==
  {Mobile \o <<"ios">>, <<"scripts", "/", "rename-starter", ".mjs">>, Mobile \o <<"src", "/", "generated">>,
   Targets("_shared") \o <<"Mobile", "Surfaces", "AppGroup", ".swift">>}
SKIP_FILES == {<<"pnpm-lock", ".yaml">>}

isUnderSkipPrefix(path) == \E p \in SKIP_PATH_PREFIXES : path = p \/ IsPrefix(p \o <<"/">>, path)

walkTextFiles(files) ==
  {path \in DOMAIN files :
     /\ \A dir \in SKIP_DIRS : ~Occurs(<<dir, "/">>, path)
     /\ ~isUnderSkipPrefix(path)
     /\ \A name \in SKIP_FILES : path # name /\ ~IsSuffix(<<"/">> \o name, path)
     /\ Last(path) \in TEXT_EXTENSIONS}

(* text.split(from).join(to)                                               *)
Replaced(text, from, to) ==
  LET here(i) == i + Len(from) - 1 <= Len(text) /\ SubSeq(text, i, i + Len(from) - 1) = from
      rest[i \in 1..(Len(text) + 1)] ==
        IF i > Len(text) THEN <<>>
        ELSE IF here(i) THEN to \o rest[i + Len(from)] ELSE <<text[i]>> \o rest[i + 1]
  IN rest[1]

(* One field after the other, each in what the one before has left.        *)
Substituted(text, old, new) ==
  LET after[n \in 0..Len(buildSubstitutions)] ==
        IF n = 0 THEN text
        ELSE LET field == buildSubstitutions[n] IN
             IF old[field] = new[field] THEN after[n - 1] ELSE Replaced(after[n - 1], old[field], new[field])
  IN after[Len(buildSubstitutions)]

applyTextRewrites(files, old, new, reached) ==
  LET texts == walkTextFiles(files) \cap reached IN
  [path \in DOMAIN files |->
     IF path \notin texts THEN files[path]
     ELSE [i \in DOMAIN files[path] |-> Substituted(files[path][i], old, new)]]

-----------------------------------------------------------------------------
(* The project as the template has it, for any names.                      *)

AppJson == Mobile \o <<"app", ".json">>
PackageJson == Mobile \o <<"package", ".json">>
Changelog == Mobile \o <<"CHANGELOG", ".md">>
SchemaJson == <<"packages", "/", "surface-contracts", "/", "schema", ".json">>
Script(name) == <<"scripts", "/", name, ".mjs">>
CliDir(slug) == <<"packages", "/", "create", "-">> \o slug
Entitlements(dir) == Targets(dir) \o <<"generated", ".entitlements">>
AppGroupTs == Mobile \o <<"src", "/", "generated", "/", "appGroup", ".ts">>
AppGroupSwift(prefix) == Targets("_shared") \o prefix \o <<"AppGroup", ".swift">>
TrapsSwift(prefix) == Targets("_shared") \o prefix \o <<"Traps", ".swift">>
AppGroup(id) == <<"group", ".">> \o id.bundleId

(* Swift files that are renamed by name, of three of their directories.    *)
renameTargets(prefix) ==
  {Targets("widget") \o prefix \o <<"LiveActivity", ".swift">>,
   Targets("_shared") \o prefix \o <<"SharedState", ".swift">>,
   <<"packages", "/", "live-activity", "/", "ios", "/">> \o prefix \o <<"ActivityAttributes", ".swift">>}

Files(id) ==
  [path \in renameTargets(id.swiftPrefix) |-> <<id.swiftPrefix, id.widgetTarget>>]
  @@ AppJson :> <<id.name, id.slug, id.scheme, id.bundleId, AppGroup(id)>>
  @@ PackageJson :> <<id.appPackageName, id.slug>>
  @@ Changelog :> <<id.appPackageName, <<"history">>>>
  @@ SchemaJson :> <<<<"$id">>, id.slug>>
  @@ CliDir(id.slug) \o <<"/", "package", ".json">> :> <<<<"create", "-">> \o id.slug>>
  @@ AppGroupTs :> <<AppGroup(id)>>
  @@ Entitlements("widget") :> <<AppGroup(id)>>
  @@ Entitlements("notification-content") :> <<AppGroup(id)>>
  @@ AppGroupSwift(id.swiftPrefix) :> <<id.swiftPrefix, AppGroup(id)>>
  @@ TrapsSwift(id.swiftPrefix) :> <<id.slug>>
  @@ Script("generate-app-group-constants") :> <<id.swiftPrefix>>
  @@ Script("generate-traps-package") :> <<id.swiftPrefix, id.slug>>
  @@ Script("check-app-group-identity") :> <<id.swiftPrefix>>

(* What keeps the names it came with.                                      *)
Untouched ==
  Script("rename-starter") :> <<DEFAULT_IDENTITY.slug>>
  @@ <<"pnpm-lock", ".yaml">> :> <<DEFAULT_IDENTITY.slug>>
  @@ <<"node_modules", "/", "push", "/", "index", ".js">> :> <<DEFAULT_IDENTITY.slug>>
  @@ <<"assets", "/", "icon", ".png">> :> <<DEFAULT_IDENTITY.name>>

(* With the notification extension or, in an older project, without it.    *)
Template(notification) ==
  LET all == Files(DEFAULT_IDENTITY) @@ Untouched IN
  [manifest |-> {},
   files |-> IF notification THEN all ELSE Restrict(all, DOMAIN all \ {Entitlements("notification-content")})]

-----------------------------------------------------------------------------
(* Files that move, and files that are written anew.                       *)

Relocate(files, to) ==
  LET from == DOMAIN to IN
  [path \in (DOMAIN files \ from) \cup {to[p] : p \in from} |->
     IF \E p \in from : to[p] = path THEN files[CHOOSE p \in from : to[p] = path] ELSE files[path]]

renameSwiftFiles(files, old, new, reached) ==
  LET moving == renameTargets(old.swiftPrefix) \cap DOMAIN files \cap reached IN
  Relocate(files, [path \in moving |-> Replaced(path, old.swiftPrefix, new.swiftPrefix)])

Exists(files, dir) == \E path \in DOMAIN files : IsPrefix(dir \o <<"/">>, path)

(* Two directories of that name: it refuses to clobber the second.         *)
refusesToRename(files, old, new) ==
  old.slug # new.slug /\ Exists(files, CliDir(old.slug)) /\ Exists(files, CliDir(new.slug))

renameCliPackageDir(files, old, new) ==
  LET from == CliDir(old.slug)
      moving == {path \in DOMAIN files : IsPrefix(from \o <<"/">>, path)} IN
  Relocate(files, [path \in moving |-> CliDir(new.slug) \o SubSeq(path, Len(from) + 1, Len(path))])

Present(files, written) == Restrict(written, DOMAIN written \cap DOMAIN files)

resetAppsMobileChangelog(files, new) ==
  Present(files, Changelog :> <<new.appPackageName, DEFAULT_IDENTITY.slug>>) @@ files

dropSchemaId(files) == [files EXCEPT ![SchemaJson] = SelectSeq(@, LAMBDA site : site # <<"$id">>)]

readAppGroup(files) == Last(files[AppJson])

(* A generator has had its own text rewritten: it writes to the new names. *)
Prefix(files, script) == Head(files[Script(script)])

rendered(prefix, group) ==
  AppGroupSwift(prefix) :> <<prefix, group>> @@ AppGroupTs :> <<group>> @@ Entitlements("widget") :> <<group>>

generateAppGroupConstants(files) ==
  LET group == readAppGroup(files) IN
  rendered(Prefix(files, "generate-app-group-constants"), group)
  @@ Present(files, Entitlements("notification-content") :> <<group>>) @@ files

generateTrapsPackage(files) ==
  LET prefix == Prefix(files, "generate-traps-package") IN
  TrapsSwift(prefix) :> <<files[Script("generate-traps-package")][2]>> @@ files

(* --check: what would be written is there.                                *)
inSync(files) == generateAppGroupConstants(files) = files /\ generateTrapsPackage(files) = files

(* The places that declare the App Group. An audit takes what is there.    *)
AppGroupSources(files, audit) ==
  LET swift == AppGroupSwift(Prefix(files, "check-app-group-identity"))
      generated == {Entitlements("widget"), swift, AppGroupTs} IN
  {AppJson} \cup (IF audit THEN generated \cap DOMAIN files ELSE generated)
  \cup ({Entitlements("notification-content")} \cap DOMAIN files)

extract(files, source) == Last(files[source])

checkAppGroupIdentity(files, audit) ==
  \A source \in AppGroupSources(files, audit) :
    source \in DOMAIN files /\ extract(files, source) = extract(files, AppJson)

-----------------------------------------------------------------------------
(* A run, as what it leaves after each step.                               *)

(* main() exits before it writes: names that are not valid, a dirty tree,  *)
(* nothing to do, or --dry-run.                                            *)
WritesNothing(project, values) ==
  LET new == NewIdentity(values) IN
  \/ ~assertValid(new)
  \/ values.dirty /\ ~values.force /\ ~values.dryRun
  \/ isIdempotent(loadCurrentIdentity(project), new)
  \/ values.dryRun

(* The manifest is stamped last, after the generators and the checks.      *)
main(project, values) ==
  LET old == loadCurrentIdentity(project)
      new == NewIdentity(values)
      rewritten == applyTextRewrites(project.files, old, new, DOMAIN project.files)
      renamed == renameSwiftFiles(rewritten, old, new, DOMAIN rewritten)
      moved == renameCliPackageDir(renamed, old, new)
      reset == resetAppsMobileChangelog(moved, new)
      dropped == dropSchemaId(reset)
      grouped == generateAppGroupConstants(dropped)
      trapped == generateTrapsPackage(grouped)
      written == IF refusesToRename(renamed, old, new) THEN <<project.files, rewritten, renamed>>
                 ELSE <<project.files, rewritten, renamed, moved, reset, dropped, grouped, trapped>>
      unstamped == [i \in DOMAIN written |-> [project EXCEPT !.files = written[i]]] IN
  CASE WritesNothing(project, values) -> <<project>>
    [] ~WritesNothing(project, values) /\ refusesToRename(renamed, old, new) -> unstamped
    [] OTHER -> Append(unstamped, [files |-> trapped, manifest |-> {new}])

Rename(project, values) == Last(main(project, values))

(* Where a run may be killed, or fail: between two steps, or with some of  *)
(* the files rewritten or renamed, in the order the directories are read.  *)
(* The files are independent of each other: one, and all but one, will do. *)
Interrupted(project, values) ==
  LET old == loadCurrentIdentity(project)
      new == NewIdentity(values)
      after == main(project, values)
      Some(files) == {{path} : path \in DOMAIN files} \cup {DOMAIN files \ {path} : path \in DOMAIN files} IN
  {after[i] : i \in DOMAIN after} \cup
  IF WritesNothing(project, values) THEN {}
  ELSE {[project EXCEPT !.files = applyTextRewrites(project.files, old, new, reached)] :
          reached \in Some(project.files)}
       \cup {[project EXCEPT !.files = renameSwiftFiles(after[2].files, old, new, reached)] :
               reached \in Some(after[2].files)}

-----------------------------------------------------------------------------
(* Properties.                                                             *)

(* Names of one to three words, some of them the template's, and a bundle  *)
(* id, a slug and a Swift prefix that need not go with them.               *)
Names == {<<"foo">>, <<"foo", "app">>, <<"mobile", "surfaces", "pro">>}
BundleIds == {<<"com", ".", "acme", ".">> \o n : n \in Names} \cup {<<"com", ".", "example", ".", "foo">>}
CommandLines ==
  {[name |-> n, scheme |-> n, bundleId |-> b, widgetTarget |-> Capitals(n) \o <<"Widget">>, appPackageName |-> {},
    slug |-> own, swiftPrefix |-> {Capitals(slug) : slug \in own}, force |-> TRUE, dryRun |-> FALSE, dirty |-> TRUE] :
     n \in Names, b \in BundleIds, own \in Option({<<"pro">>})}

(* No name of the old identity is part of the new one.                     *)
Fresh(old, new) == \A f, g \in DOMAIN old : ~Occurs(old[f], new[g])

(* A field that is replaced is part of no field that comes before it, in   *)
(* what was there or in what has just been put there.                      *)
Separable(old, new) ==
  LET field == buildSubstitutions IN
  \A j \in DOMAIN field : \A i \in 1..(j - 1) :
    /\ old[field[j]] # new[field[j]] => ~Occurs(old[field[j]], new[field[i]])
    /\ old[field[i]] # new[field[i]] => ~Occurs(old[field[i]], old[field[j]])

(* The project is the template with these names, in the texts and in the   *)
(* paths.  The generated Swift files of former names are still there.      *)
ReadsAs(project, id, former) ==
  LET files == project.files
      expected == SchemaJson :> <<id.slug>> @@ Changelog :> <<id.appPackageName, DEFAULT_IDENTITY.slug>>
                  @@ Files(id) @@ Untouched
      behind == UNION {{AppGroupSwift(p), TrapsSwift(p)} : p \in former} IN
  /\ project.manifest = {id}
  /\ \A path \in DOMAIN files \ behind : path \in DOMAIN expected /\ files[path] = expected[path]
  /\ DOMAIN expected \ {Entitlements("notification-content")} \subseteq DOMAIN files

(* A rename leaves every place with the new name exactly if its fields can *)
(* be told apart (rename-starter.mjs:76-78), and the order fits the names  *)
(* the template has; so it is for the next, which goes by the manifest     *)
(* (39-42).  A run that was killed is completed by the same command if     *)
(* the new names hold none of the old, and one that was not is not         *)
(* repeated.  Whatever the names, the App Group is the same in all places  *)
(* (431-435; check-app-group-identity.mjs) and the generators have nothing *)
(* more to write.                                                          *)
RenamesAreExact ==
  \A values \in CommandLines, notification \in BOOLEAN :
    LET template == Template(notification)
        old == DEFAULT_IDENTITY
        new == NewIdentity(values)
        after == Rename(template, values) IN
    /\ inSync(after.files) /\ \A audit \in BOOLEAN : checkAppGroupIdentity(after.files, audit)
    /\ Rename(after, values) = after
    /\ Fresh(old, new) => Separable(old, new)
    /\ assertValid(new) => (ReadsAs(after, new, {old.swiftPrefix}) <=> Separable(old, new))
    /\ assertValid(new) /\ Fresh(old, new) =>
         \A broken \in Interrupted(template, values) : Rename(broken, values) = after
    /\ assertValid(new) /\ Fresh(old, new) /\ notification =>
         \A next \in CommandLines : LET id == NewIdentity(next) IN
           assertValid(id) /\ id # new =>
             (ReadsAs(Rename(after, next), id, {old.swiftPrefix, new.swiftPrefix}) <=> Separable(new, id))
=============================================================================
