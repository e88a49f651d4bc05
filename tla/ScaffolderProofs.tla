-------------------------- MODULE ScaffolderProofs --------------------------
(***************************************************************************)
(* Proofs about Scaffolder: every variable has its type, the user's files  *)
(* are kept, the target is promoted as a whole or not at all, the codes    *)
(* mean what they say, and what the user is told at the end is true.       *)
(*                                                                         *)
(* An apply and a build follow a program, the sequence of steps of their   *)
(* mode. What a program promises by itself (ProgramOK: a path is recorded  *)
(* before it is written, every step finds the tree its predecessor left,   *)
(* ...) is shown once, from its text. The invariant then says of the steps *)
(* that were done what they have done.                                     *)
(***************************************************************************)
EXTENDS Scaffolder, TLAPS, FiniteSetTheorems

(* The modes that edit a project in place.                                 *)
Existing == {"existing-expo", "existing-monorepo-no-expo"}

(* The program of the run, and the tree it makes.                          *)
Program ==
  CASE mode = "existing-expo" -> ApplyToExisting(choice)
    [] mode = "existing-monorepo-no-expo" -> ApplyMonorepo(choice)
    [] OTHER -> RunTasks(choice)

Tree ==
  CASE mode = "existing-expo" -> "widget"
    [] mode = "existing-monorepo-no-expo" -> "apps/mobile"
    [] OTHER -> "staging"

(* The files that a finished apply has written.                            *)
Planned ==
  CASE mode = "existing-expo" ->
         (IF choice.installable THEN {"package.json", "lockfile"} ELSE {}) \cup (IF manual THEN {} ELSE {"app.json"})
    [] mode = "existing-monorepo-no-expo" -> IF choice.declared THEN {} ELSE {"workspace"}
    [] OTHER -> {}

TreeSteps == {"copy", "strip", "rename"}
RecordSteps == {"recordFile", "recordIfPresent", "recordDir"}

(* What a step writes and records, whether it writes the tree, and which   *)
(* tree it must find to do so.                                             *)
Writes(s) ==
  IF s.do \in {"write", "copy", "strip", "rename"} THEN {s.at} ELSE IF s.do = "add" THEN {"package.json", "lockfile"} ELSE {}
Records(s) == IF s.do \in RecordSteps THEN {s.at} ELSE {}
Makes(s) == Tree \in Writes(s)
Needs(s) == IF s.do = "strip" THEN "copied" ELSE IF s.do = "rename" THEN "stripped" ELSE "new"

-----------------------------------------------------------------------------
(* What programs promise.                                                  *)

StepOK(s) ==
  /\ s.do = "recordIfPresent" => s.at = "lockfile"
  /\ s.do = "recordFile" => s.at \in Files \ {"lockfile"}
  /\ s.do = "recordDir" => s.at = Tree
  /\ s.do = "decide" => mode = "existing-expo" /\ s.at = "widget"
  /\ s.do = "write" => s.at \in (Files \ {"lockfile"}) \cup {Tree} /\ s.to = "new"
  /\ s.do \in TreeSteps => s.at = Tree
  /\ s.do \in {"stage", "unstage", "add", "write", "commit"} \cup RecordSteps => mode \in Existing
  /\ s.do = "promote" => s.at = "target"
  /\ s.do \in {"need", "tool", "promote"} => mode = "greenfield"

(* It has an end, and only one: the commit or the promotion.               *)
WellFormed(P) ==
  /\ Len(P) > 0
  /\ \A i \in 1..Len(P) : StepOK(P[i]) /\ (P[i].do \in {"commit", "promote"} <=> i = Len(P))

(* A path is recorded before it is written.                                *)
RecordsFirst(P) ==
  mode \in Existing => \A i \in 1..Len(P) : \A p \in Writes(P[i]) : \E j \in 1..(i - 1) : p \in Records(P[j])

(* Strip, rename and patches find the tree that the step before left, and  *)
(* the last of them leaves a new one.                                      *)
Chains(P) ==
  \A i \in 1..Len(P) : (Makes(P[i]) /\ P[i].do # "copy") =>
    \E j \in 1..(i - 1) : Makes(P[j]) /\ P[j].to = Needs(P[i]) /\ \A k \in (j + 1)..(i - 1) : ~Makes(P[k])
Completes(P) == \E j \in 1..Len(P) : Makes(P[j]) /\ P[j].to = "new" /\ \A k \in (j + 1)..Len(P) : ~Makes(P[k])

(* An unpacked source tree is cleaned up later.                            *)
Unstages(P) == \A i \in 1..Len(P) : P[i].do = "stage" => \E j \in (i + 1)..Len(P) : P[j].do = "unstage"

(* Files are done with when the widget is decided about; the decision      *)
(* leaves the cleanup and the commit.                                      *)
Decides(P) ==
  /\ mode = "existing-expo" => Len(P) > 1 /\ P[Len(P) - 1].do = "unstage"
  /\ \A i \in 1..Len(P) : P[i].do = "decide" =>
       /\ i < Len(P) - 1
       /\ \A j \in i..Len(P) : (Writes(P[j]) \cup Records(P[j])) \cap Files = {}
       /\ \A j \in 1..i : Records(P[j]) \subseteq Files

(* What is planned is written.                                             *)
Plans(P) == \A f \in Planned : \E j \in 1..Len(P) : f \in Writes(P[j])

(* A lockfile is looked for before the package manager may have made it.   *)
LooksFirst(P) ==
  \A i \in 1..Len(P) : P[i].do = "recordIfPresent" => \A j \in 1..i : "lockfile" \notin Writes(P[j])

ProgramOK(P) ==
  /\ P \in Seq(Step) /\ WellFormed(P) /\ RecordsFirst(P) /\ Chains(P) /\ Completes(P)
  /\ Unstages(P) /\ Decides(P) /\ Plans(P) /\ LooksFirst(P)

-----------------------------------------------------------------------------
(* Sequences.                                                              *)

LEMMA Concatenated ==
  ASSUME NEW q \in Seq(Step), NEW r \in Seq(Step)
  PROVE  /\ q \o r \in Seq(Step) /\ Len(q \o r) = Len(q) + Len(r)
         /\ \A j \in 1..Len(q) : (q \o r)[j] = q[j]
         /\ \A j \in 1..Len(r) : (q \o r)[Len(q) + j] = r[j]
OBVIOUS

(* One step after the other, as the programs are written.                  *)
One == {q \in Seq(Step) : Len(q) = 1}

LEMMA Then1 ==
  ASSUME NEW q \in Seq(Step), NEW a \in One
  PROVE  /\ q \o a \in Seq(Step) /\ Len(q \o a) = Len(q) + 1
         /\ (q \o a)[Len(q) + 1] = a[1]
         /\ \A i \in 1..Len(q) : (q \o a)[i] = q[i]
BY Concatenated DEF One

LEMMA Then2 ==
  ASSUME NEW q \in Seq(Step), NEW a \in One, NEW b \in One
  PROVE  /\ q \o a \o b \in Seq(Step) /\ Len(q \o a \o b) = Len(q) + 2
         /\ (q \o a \o b)[Len(q) + 1] = a[1] /\ (q \o a \o b)[Len(q) + 2] = b[1]
         /\ \A i \in 1..Len(q) : (q \o a \o b)[i] = q[i]
<1>1. PICK r \in Seq(Step) : r = q \o a
  BY Then1
<1>2. /\ Len(r) = Len(q) + 1 /\ r[Len(q) + 1] = a[1] /\ \A i \in 1..Len(q) : r[i] = q[i]
  BY <1>1, Then1
<1>3. /\ r \o b \in Seq(Step) /\ Len(r \o b) = Len(r) + 1 /\ (r \o b)[Len(r) + 1] = b[1]
      /\ \A i \in 1..Len(r) : (r \o b)[i] = r[i]
  BY Then1
<1>4. Len(q) \in Nat
  OBVIOUS
<1>5. /\ r \o b \in Seq(Step) /\ Len(r \o b) = Len(q) + 2
      /\ (r \o b)[Len(q) + 1] = a[1] /\ (r \o b)[Len(q) + 2] = b[1]
      /\ \A i \in 1..Len(q) : (r \o b)[i] = q[i]
  BY <1>2, <1>3, <1>4
<1> QED
  BY <1>1, <1>5

LEMMA Row2 ==
  ASSUME NEW a \in One, NEW b \in One
  PROVE  /\ a \o b \in Seq(Step) /\ Len(a \o b) = 2
         /\ (a \o b)[1] = a[1] /\ (a \o b)[2] = b[1]
<1>1. a \in Seq(Step) /\ Len(a) = 1
  BY DEF One
<1> QED
  BY <1>1, Then1

LEMMA Row3 ==
  ASSUME NEW a \in One, NEW b \in One, NEW c \in One
  PROVE  /\ a \o b \o c \in Seq(Step) /\ Len(a \o b \o c) = 3
         /\ (a \o b \o c)[1] = a[1] /\ (a \o b \o c)[2] = b[1] /\ (a \o b \o c)[3] = c[1]
<1>1. a \in Seq(Step) /\ Len(a) = 1
  BY DEF One
<1> QED
  BY <1>1, Then2

LEMMA Row4 ==
  ASSUME NEW a \in One, NEW b \in One, NEW c \in One, NEW d \in One
  PROVE  /\ a \o b \o c \o d \in Seq(Step) /\ Len(a \o b \o c \o d) = 4
         /\ (a \o b \o c \o d)[1] = a[1] /\ (a \o b \o c \o d)[2] = b[1]
         /\ (a \o b \o c \o d)[3] = c[1] /\ (a \o b \o c \o d)[4] = d[1]
<1> DEFINE r == a \o b
<1>1. r \in Seq(Step) /\ Len(r) = 2 /\ r[1] = a[1] /\ r[2] = b[1]
  BY Row2
<1> HIDE DEF r
<1>2. /\ r \o c \o d \in Seq(Step) /\ Len(r \o c \o d) = Len(r) + 2
      /\ (r \o c \o d)[Len(r) + 1] = c[1] /\ (r \o c \o d)[Len(r) + 2] = d[1]
      /\ \A i \in 1..Len(r) : (r \o c \o d)[i] = r[i]
  BY <1>1, Then2
<1>3. /\ r \o c \o d \in Seq(Step) /\ Len(r \o c \o d) = 4 /\ (r \o c \o d)[1] = a[1] /\ (r \o c \o d)[2] = b[1]
      /\ (r \o c \o d)[3] = c[1] /\ (r \o c \o d)[4] = d[1]
  BY <1>1, <1>2
<1> QED
  BY <1>3 DEF r

St(do, at, to) == [do |-> do, at |-> at, to |-> to]

LEMMA Singles ==
  ASSUME NEW do \in {"recordFile", "recordIfPresent", "recordDir", "stage", "decide", "unstage", "write",
                     "copy", "strip", "rename", "add", "tool", "need", "promote", "commit"},
         NEW at \in Paths, NEW to \in Contents
  PROVE  S(do, at, to) \in One /\ S(do, at, to)[1] = St(do, at, to)
BY DEF S, One, Step, St

LEMMA Nothing ==
  ASSUME NEW q \in Seq(Step)
  PROVE  q \o <<>> \in Seq(Step) /\ Len(q \o <<>>) = Len(q) /\ \A i \in 1..Len(q) : (q \o <<>>)[i] = q[i]
OBVIOUS

LEMMA NothingFirst ==
  <<>> \in Seq(Step) /\ Len(<<>>) = 0
OBVIOUS

-----------------------------------------------------------------------------
(* The programs, step by step.                                             *)

(* A new project: strip, rename, the tools if wanted, the promotion.       *)
LEMMA BuildSteps ==
  ASSUME NEW c \in Choices, NEW P, P = RunTasks(c)
  PROVE  /\ P \in Seq(Step) /\ Len(P) = IF c.installNow THEN 8 ELSE 4
         /\ P[1] = St("copy", "staging", "copied") /\ P[2] = St("strip", "staging", "stripped")
         /\ P[3] = St("rename", "staging", "new")
         /\ c.installNow => /\ P[4] = St("need", "target", "new") /\ P[5] = St("tool", "target", "new")
                            /\ P[6] = St("need", "target", "new") /\ P[7] = St("tool", "target", "new")
         /\ P[Len(P)] = St("promote", "target", "new")
<1>1. /\ copyTemplate \in One /\ applyStripGreenfield \in One /\ renameIdentity("staging") \in One
      /\ ensureAvailable \in One /\ runInstall \in One /\ prebuildIos \in One /\ promoteStaging \in One
  BY Singles DEF copyTemplate, applyStripGreenfield, renameIdentity, ensureAvailable, runInstall, prebuildIos,
                 promoteStaging, Paths, Files, Trees, Contents
<1>2. /\ copyTemplate[1] = St("copy", "staging", "copied") /\ applyStripGreenfield[1] = St("strip", "staging", "stripped")
      /\ renameIdentity("staging")[1] = St("rename", "staging", "new") /\ ensureAvailable[1] = St("need", "target", "new")
      /\ runInstall[1] = St("tool", "target", "new") /\ prebuildIos[1] = St("tool", "target", "new")
      /\ promoteStaging[1] = St("promote", "target", "new")
  BY Singles DEF copyTemplate, applyStripGreenfield, renameIdentity, ensureAvailable, runInstall, prebuildIos,
                 promoteStaging, Paths, Files, Trees, Contents
<1>0. promoteStaging \in One
  BY <1>1
<1> DEFINE q == copyTemplate \o applyStripGreenfield \o renameIdentity("staging")
           t == Toolchain(c)
           r == q \o t
<1>3. /\ q \in Seq(Step) /\ Len(q) = 3 /\ q[1] = copyTemplate[1]
      /\ q[2] = applyStripGreenfield[1] /\ q[3] = renameIdentity("staging")[1]
  <2>1. copyTemplate \in One /\ applyStripGreenfield \in One /\ renameIdentity("staging") \in One
    BY <1>1
  <2> QED
    BY <2>1, Row3
<1>4. P = r \o promoteStaging
  BY DEF RunTasks
<1> HIDE DEF q, r
<1>5. CASE c.installNow
  <2>1. t = ensureAvailable \o runInstall \o ensureAvailable \o prebuildIos
    BY <1>5 DEF Toolchain, When
  <2> HIDE DEF t
  <2>2. /\ t \in Seq(Step) /\ Len(t) = 4 /\ t[1] = ensureAvailable[1] /\ t[2] = runInstall[1]
        /\ t[3] = ensureAvailable[1] /\ t[4] = prebuildIos[1]
    <3>1. ensureAvailable \in One /\ runInstall \in One /\ prebuildIos \in One
      BY <1>1
    <3> DEFINE u == ensureAvailable \o runInstall \o ensureAvailable
    <3>2. u \in Seq(Step) /\ Len(u) = 3 /\ u[1] = ensureAvailable[1] /\ u[2] = runInstall[1] /\ u[3] = ensureAvailable[1]
      BY <3>1, Row3
    <3> HIDE DEF u
    <3>3. t = u \o prebuildIos
      BY <2>1 DEF u
    <3>4. t \in Seq(Step) /\ Len(t) = Len(u) + 1 /\ t[Len(u) + 1] = prebuildIos[1] /\ \A i \in 1..Len(u) : t[i] = u[i]
      BY <3>1, <3>2, <3>3, Then1
    <3>5. Len(u) + 1 = 4
      BY <3>2
    <3> QED
      BY <3>2, <3>4, <3>5
  <2>3. /\ r \in Seq(Step) /\ Len(r) = Len(q) + Len(t) /\ \A j \in 1..Len(q) : r[j] = q[j]
        /\ \A j \in 1..Len(t) : r[Len(q) + j] = t[j]
    BY <1>3, <2>2, Concatenated DEF r
  <2>4. Len(r) = 7 /\ r[4] = t[1] /\ r[5] = t[2] /\ r[6] = t[3] /\ r[7] = t[4] /\ \A j \in 1..3 : r[j] = q[j]
    BY <1>3, <2>2, <2>3
  <2>5. P \in Seq(Step) /\ Len(P) = 8 /\ P[8] = promoteStaging[1] /\ \A i \in 1..7 : P[i] = r[i]
    <3>1. P \in Seq(Step) /\ Len(P) = Len(r) + 1 /\ P[Len(r) + 1] = promoteStaging[1] /\ \A i \in 1..Len(r) : P[i] = r[i]
      BY <1>0, <1>4, <2>3, Then1
    <3>2. Len(r) + 1 = 8
      BY <2>4
    <3> QED
      BY <2>4, <3>1, <3>2
  <2> QED
    BY <1>2, <1>3, <1>5, <2>2, <2>4, <2>5
<1>6. CASE ~c.installNow
  <2>1. t = <<>>
    BY <1>6 DEF Toolchain, When
  <2> HIDE DEF t
  <2>2. r \in Seq(Step) /\ Len(r) = 3 /\ \A i \in 1..3 : r[i] = q[i]
    BY <1>3, <2>1, Nothing DEF r
  <2>3. P \in Seq(Step) /\ Len(P) = 4 /\ P[4] = promoteStaging[1] /\ \A i \in 1..3 : P[i] = r[i]
    <3>1. P \in Seq(Step) /\ Len(P) = Len(r) + 1 /\ P[Len(r) + 1] = promoteStaging[1] /\ \A i \in 1..Len(r) : P[i] = r[i]
      <4>1. r \in Seq(Step)
        BY <2>2
      <4> QED
        BY <1>0, <1>4, <4>1, Then1
    <3>2. Len(r) + 1 = 4
      BY <2>2
    <3> QED
      BY <2>2, <3>1, <3>2
  <2> QED
    BY <1>2, <1>3, <1>6, <2>2, <2>3
<1> QED
  BY <1>5, <1>6

(* An existing monorepo: the record, the copy, strip, rename and patches,  *)
(* the workspace file unless apps/* is declared, the commit.               *)
LEMMA MonorepoSteps ==
  ASSUME NEW c \in Choices, NEW P, P = ApplyMonorepo(c)
  PROVE  /\ P \in Seq(Step) /\ Len(P) = IF c.declared THEN 10 ELSE 11
         /\ P[1] = St("recordDir", "apps/mobile", "new") /\ P[2] = St("recordFile", "workspace", "old")
         /\ P[3] = St("stage", "apps/mobile", "new") /\ P[4] = St("copy", "apps/mobile", "copied")
         /\ P[5] = St("unstage", "apps/mobile", "new") /\ P[6] = St("strip", "apps/mobile", "stripped")
         /\ P[7] = St("rename", "apps/mobile", "new") /\ P[8] = St("write", "apps/mobile", "new")
         /\ P[9] = St("write", "apps/mobile", "new")
         /\ ~c.declared => P[10] = St("write", "workspace", "new")
         /\ P[Len(P)] = St("commit", "apps/mobile", "new")
<1> DEFINE a == S("recordDir", "apps/mobile", "new")
           b == S("recordFile", "workspace", "old")
           d == S("write", "workspace", "new")
           s == prepareSourceTree("apps/mobile")
           o == S("copy", "apps/mobile", "copied")
           u == cleanup("apps/mobile")
           f == commit("apps/mobile")
           m == mergeWorkspaceGlobs(c)
<1>1. a \in One /\ b \in One
  BY Singles DEF Paths, Files, Trees, Contents
<1>2. s \in One /\ o \in One /\ u \in One
  BY Singles DEF prepareSourceTree, cleanup, Paths, Files, Trees, Contents
<1>3. stripSurfacesAndMarkers \in One /\ rewriteIdentityInTree \in One
  BY Singles DEF stripSurfacesAndMarkers, rewriteIdentityInTree, Paths, Files, Trees, Contents
<1>4. patchAppsMobileAppJson \in One /\ rewriteAppsMobileWorkspaceDeps \in One
  BY Singles DEF patchAppsMobileAppJson, rewriteAppsMobileWorkspaceDeps, Paths, Files, Trees, Contents
<1>5. d \in One /\ f \in One
  BY Singles DEF commit, Paths, Files, Trees, Contents
<1>6. /\ a[1] = St("recordDir", "apps/mobile", "new") /\ b[1] = St("recordFile", "workspace", "old")
      /\ s[1] = St("stage", "apps/mobile", "new") /\ o[1] = St("copy", "apps/mobile", "copied")
      /\ u[1] = St("unstage", "apps/mobile", "new") /\ stripSurfacesAndMarkers[1] = St("strip", "apps/mobile", "stripped")
      /\ rewriteIdentityInTree[1] = St("rename", "apps/mobile", "new")
      /\ patchAppsMobileAppJson[1] = St("write", "apps/mobile", "new")
      /\ rewriteAppsMobileWorkspaceDeps[1] = St("write", "apps/mobile", "new")
      /\ d[1] = St("write", "workspace", "new") /\ f[1] = St("commit", "apps/mobile", "new")
  BY Singles DEF prepareSourceTree, cleanup, stripSurfacesAndMarkers, rewriteIdentityInTree, patchAppsMobileAppJson,
                 rewriteAppsMobileWorkspaceDeps, commit, Paths, Files, Trees, Contents
<1> DEFINE q == a \o b
           t == stageAndCopyAppsMobile
           q5 == q \o t
           q7 == q5 \o stripSurfacesAndMarkers \o rewriteIdentityInTree
           q9 == q7 \o patchAppsMobileAppJson \o rewriteAppsMobileWorkspaceDeps
           r == q9 \o m
<1>7. P = r \o f
  BY DEF ApplyMonorepo
<1>8. t = s \o o \o u
  BY DEF stageAndCopyAppsMobile
<1>9. m = IF c.declared THEN <<>> ELSE d
  BY DEF mergeWorkspaceGlobs, When
<1> HIDE DEF a, b, d, s, o, u, f, m, t
<1>10. q \in Seq(Step) /\ Len(q) = 2 /\ q[1] = a[1] /\ q[2] = b[1]
  BY <1>1, Row2
<1>11. t \in Seq(Step) /\ Len(t) = 3 /\ t[1] = s[1] /\ t[2] = o[1] /\ t[3] = u[1]
  BY <1>2, <1>8, Row3
<1> HIDE DEF q
<1>12. /\ q5 \in Seq(Step) /\ Len(q5) = 5 /\ q5[1] = q[1] /\ q5[2] = q[2]
       /\ q5[3] = t[1] /\ q5[4] = t[2] /\ q5[5] = t[3]
  <2>1. /\ q5 \in Seq(Step) /\ Len(q5) = Len(q) + Len(t) /\ \A j \in 1..Len(q) : q5[j] = q[j]
        /\ \A j \in 1..Len(t) : q5[Len(q) + j] = t[j]
    BY <1>10, <1>11, Concatenated
  <2> HIDE DEF q5
  <2> QED
    BY <2>1, <1>10, <1>11
<1> HIDE DEF q5
<1>13. /\ q7 \in Seq(Step) /\ Len(q7) = 7 /\ q7[6] = stripSurfacesAndMarkers[1] /\ q7[7] = rewriteIdentityInTree[1]
       /\ \A i \in 1..5 : q7[i] = q5[i]
  <2>1. /\ q7 \in Seq(Step) /\ Len(q7) = Len(q5) + 2 /\ q7[Len(q5) + 1] = stripSurfacesAndMarkers[1]
        /\ q7[Len(q5) + 2] = rewriteIdentityInTree[1] /\ \A i \in 1..Len(q5) : q7[i] = q5[i]
    BY <1>3, <1>12, Then2
  <2>2. Len(q5) + 1 = 6 /\ Len(q5) + 2 = 7
    BY <1>12
  <2> HIDE DEF q7
  <2> QED
    BY <1>12, <2>1, <2>2
<1> HIDE DEF q7
<1>14. /\ q9 \in Seq(Step) /\ Len(q9) = 9 /\ q9[8] = patchAppsMobileAppJson[1] /\ q9[9] = rewriteAppsMobileWorkspaceDeps[1]
       /\ \A i \in 1..7 : q9[i] = q7[i]
  <2>1. /\ q9 \in Seq(Step) /\ Len(q9) = Len(q7) + 2 /\ q9[Len(q7) + 1] = patchAppsMobileAppJson[1]
        /\ q9[Len(q7) + 2] = rewriteAppsMobileWorkspaceDeps[1] /\ \A i \in 1..Len(q7) : q9[i] = q7[i]
    BY <1>4, <1>13, Then2
  <2>2. Len(q7) + 1 = 8 /\ Len(q7) + 2 = 9
    BY <1>13
  <2> HIDE DEF q9
  <2> QED
    BY <1>13, <2>1, <2>2
<1> HIDE DEF q9
<1>15. /\ r \in Seq(Step) /\ Len(r) = IF c.declared THEN 9 ELSE 10
       /\ ~c.declared => r[10] = d[1]
       /\ \A i \in 1..9 : r[i] = q9[i]
  <2>1. CASE c.declared
    <3>1. r \in Seq(Step) /\ Len(r) = Len(q9) /\ \A i \in 1..Len(q9) : r[i] = q9[i]
      BY <1>9, <1>14, <2>1, Nothing
    <3> QED
      BY <1>14, <2>1, <3>1
  <2>2. CASE ~c.declared
    <3>1. r \in Seq(Step) /\ Len(r) = Len(q9) + 1 /\ r[Len(q9) + 1] = d[1] /\ \A i \in 1..Len(q9) : r[i] = q9[i]
      BY <1>5, <1>9, <1>14, <2>2, Then1
    <3>2. Len(q9) + 1 = 10
      BY <1>14
    <3> HIDE DEF r
    <3> QED
      BY <1>14, <2>2, <3>1, <3>2
  <2> QED
    BY <2>1, <2>2
<1> HIDE DEF r
<1>16. P \in Seq(Step) /\ Len(P) = Len(r) + 1 /\ P[Len(P)] = f[1] /\ \A i \in 1..Len(r) : P[i] = r[i]
  <2>1. r \in Seq(Step)
    BY <1>15
  <2>2. P \in Seq(Step) /\ Len(P) = Len(r) + 1 /\ P[Len(r) + 1] = f[1] /\ \A i \in 1..Len(r) : P[i] = r[i]
    BY <1>5, <1>7, <2>1, Then1
  <2> QED
    BY <2>2
<1>17. /\ q9[1] = a[1] /\ q9[2] = b[1] /\ q9[3] = s[1] /\ q9[4] = o[1] /\ q9[5] = u[1]
       /\ q9[6] = stripSurfacesAndMarkers[1] /\ q9[7] = rewriteIdentityInTree[1]
  BY <1>10, <1>11, <1>12, <1>13, <1>14
<1>18. /\ Len(P) = IF c.declared THEN 10 ELSE 11
       /\ \A i \in 1..9 : P[i] = q9[i]
       /\ ~c.declared => P[10] = d[1]
  <2>1. CASE c.declared
    <3>1. Len(r) = 9 /\ \A i \in 1..9 : r[i] = q9[i]
      BY <1>15, <2>1
    <3> QED
      BY <1>16, <2>1, <3>1
  <2>2. CASE ~c.declared
    <3>1. Len(r) = 10 /\ r[10] = d[1] /\ \A i \in 1..9 : r[i] = q9[i]
      BY <1>15, <2>2
    <3> QED
      BY <1>16, <2>2, <3>1
  <2> QED
    BY <2>1, <2>2
<1>19. /\ P[1] = a[1] /\ P[2] = b[1] /\ P[3] = s[1] /\ P[4] = o[1] /\ P[5] = u[1]
       /\ P[6] = stripSurfacesAndMarkers[1] /\ P[7] = rewriteIdentityInTree[1]
       /\ P[8] = patchAppsMobileAppJson[1] /\ P[9] = rewriteAppsMobileWorkspaceDeps[1]
  BY <1>14, <1>17, <1>18
<1> QED
  BY <1>6, <1>16, <1>18, <1>19

(* An existing Expo app. First its files: none to five steps.              *)
Touched(c) == (IF c.installable THEN 3 ELSE 0) + (IF manual THEN 0 ELSE 2)

LEMMA FileSteps ==
  ASSUME NEW c \in Choices, NEW P, P = ApplyPackageInstall(c) \o ApplyAppConfigPatch
  PROVE  /\ P \in Seq(Step) /\ Len(P) = Touched(c)
         /\ c.installable => /\ P[1] = St("recordFile", "package.json", "old") /\ P[2] = St("recordIfPresent", "lockfile", "old")
                             /\ P[3] = St("add", "package.json", "new")
         /\ ~manual => P[Len(P) - 1] = St("recordFile", "app.json", "old") /\ P[Len(P)] = St("write", "app.json", "new")
<1> DEFINE a == S("recordFile", "package.json", "old")
           b == S("recordIfPresent", "lockfile", "old")
           d == S("recordFile", "app.json", "old")
           q == ApplyPackageInstall(c)
           r == ApplyAppConfigPatch
<1>1. a \in One /\ b \in One /\ runAddPackages \in One
  BY Singles DEF runAddPackages, Paths, Files, Trees, Contents
<1>2. d \in One /\ patchAppJson \in One
  BY Singles DEF patchAppJson, Paths, Files, Trees, Contents
<1>3. /\ a[1] = St("recordFile", "package.json", "old") /\ b[1] = St("recordIfPresent", "lockfile", "old")
      /\ runAddPackages[1] = St("add", "package.json", "new")
      /\ d[1] = St("recordFile", "app.json", "old") /\ patchAppJson[1] = St("write", "app.json", "new")
  BY Singles DEF runAddPackages, patchAppJson, Paths, Files, Trees, Contents
<1>4. /\ c.installable => q = a \o b \o runAddPackages
      /\ ~c.installable => q = <<>>
      /\ ~manual => r = d \o patchAppJson
      /\ manual => r = <<>>
  BY DEF ApplyPackageInstall, recordPackageFiles, ApplyAppConfigPatch, When
<1>5. P = q \o r
  OBVIOUS
<1> HIDE DEF a, b, d, q, r
<1>6. /\ q \in Seq(Step) /\ Len(q) = IF c.installable THEN 3 ELSE 0
      /\ c.installable => q[1] = a[1] /\ q[2] = b[1] /\ q[3] = runAddPackages[1]
  <2>1. CASE c.installable
    <3>1. q = a \o b \o runAddPackages
      BY <1>4, <2>1
    <3>2. q \in Seq(Step) /\ Len(q) = 3 /\ q[1] = a[1] /\ q[2] = b[1] /\ q[3] = runAddPackages[1]
      BY <1>1, <3>1, Row3
    <3> QED
      BY <2>1, <3>2
  <2>2. CASE ~c.installable
    <3>1. q = <<>>
      BY <1>4, <2>2
    <3> QED
      BY <2>2, <3>1, NothingFirst
  <2> QED
    BY <2>1, <2>2
<1>7. /\ r \in Seq(Step) /\ Len(r) = IF manual THEN 0 ELSE 2
      /\ ~manual => r[1] = d[1] /\ r[2] = patchAppJson[1]
  <2>1. CASE ~manual
    <3>1. r = d \o patchAppJson
      BY <1>4, <2>1
    <3>2. r \in Seq(Step) /\ Len(r) = 2 /\ r[1] = d[1] /\ r[2] = patchAppJson[1]
      BY <1>2, <3>1, Row2
    <3> QED
      BY <2>1, <3>2
  <2>2. CASE manual
    BY <1>4, <2>2
  <2> QED
    BY <2>1, <2>2
<1>8. q \in Seq(Step) /\ r \in Seq(Step)
  BY <1>6, <1>7
<1>9. /\ P \in Seq(Step) /\ Len(P) = Len(q) + Len(r)
      /\ \A j \in 1..Len(q) : P[j] = q[j]
      /\ \A j \in 1..Len(r) : P[Len(q) + j] = r[j]
  BY <1>5, <1>8, Concatenated
<1>10. ASSUME c.installable PROVE P[1] = a[1] /\ P[2] = b[1] /\ P[3] = runAddPackages[1]
  <2>1. Len(q) = 3 /\ q[1] = a[1] /\ q[2] = b[1] /\ q[3] = runAddPackages[1]
    BY <1>6, <1>10
  <2> QED
    BY <1>9, <2>1
<1>11. ASSUME ~manual PROVE P[Len(P) - 1] = d[1] /\ P[Len(P)] = patchAppJson[1]
  <2>1. Len(r) = 2 /\ r[1] = d[1] /\ r[2] = patchAppJson[1]
    BY <1>7, <1>11
  <2>2. P[Len(q) + 1] = r[1] /\ P[Len(q) + 2] = r[2]
    BY <1>9, <2>1
  <2>3. Len(q) \in Nat /\ Len(P) = Len(q) + 2
    BY <1>8, <1>9, <2>1
  <2>4. Len(P) - 1 = Len(q) + 1
    BY <2>3
  <2> QED
    BY <2>1, <2>2, <2>3, <2>4
<1>12. Len(P) = Touched(c)
  BY <1>6, <1>7, <1>9 DEF Touched
<1> QED
  BY <1>3, <1>9, <1>10, <1>11, <1>12

(* Then the widget: the decision, its record and copy, strip and rename.   *)
LEMMA WidgetSteps ==
  ASSUME NEW c \in Choices, NEW P, P = ApplyWidgetCopyStripRename(c)
  PROVE  /\ P \in Seq(Step) /\ Len(P) = IF c.prefix THEN 7 ELSE 6
         /\ P[1] = St("stage", "widget", "new") /\ P[2] = St("decide", "widget", "new")
         /\ P[3] = St("recordDir", "widget", "new") /\ P[4] = St("copy", "widget", "copied")
         /\ P[5] = St("strip", "widget", IF c.prefix THEN "stripped" ELSE "new")
         /\ c.prefix => P[6] = St("rename", "widget", "new")
         /\ P[Len(P)] = St("unstage", "widget", "new")
<1> DEFINE s == prepareSourceTree("widget")
           a == S("recordDir", "widget", "new")
           b == S("copy", "widget", "copied")
           f == applyStripWidgetDir(c)
           d == S("rename", "widget", "new")
           u == cleanup("widget")
           m == applyWidgetRename(c)
<1>1. s \in One /\ widgetCopyDecision \in One
  BY Singles DEF prepareSourceTree, widgetCopyDecision, Paths, Files, Trees, Contents
<1>2. a \in One /\ b \in One
  BY Singles DEF Paths, Files, Trees, Contents
<1>3. f \in One
  BY Singles DEF applyStripWidgetDir, Paths, Files, Trees, Contents
<1>4. d \in One
  BY Singles DEF Paths, Files, Trees, Contents
<1>5. u \in One
  BY Singles DEF cleanup, Paths, Files, Trees, Contents
<1>6. /\ s[1] = St("stage", "widget", "new") /\ widgetCopyDecision[1] = St("decide", "widget", "new")
      /\ a[1] = St("recordDir", "widget", "new") /\ b[1] = St("copy", "widget", "copied")
      /\ f[1] = St("strip", "widget", IF c.prefix THEN "stripped" ELSE "new")
      /\ d[1] = St("rename", "widget", "new") /\ u[1] = St("unstage", "widget", "new")
  BY Singles DEF prepareSourceTree, widgetCopyDecision, applyStripWidgetDir, cleanup, Paths, Files, Trees, Contents
<1> DEFINE q2 == s \o widgetCopyDecision
           q4 == q2 \o copyWidgetTarget
           q5 == q4 \o f
           r == q5 \o m
<1>7. P = r \o u
  BY DEF ApplyWidgetCopyStripRename
<1>8. copyWidgetTarget = a \o b
  BY DEF copyWidgetTarget
<1>9. m = IF c.prefix THEN d ELSE <<>>
  BY DEF applyWidgetRename, When
<1> HIDE DEF s, a, b, f, d, u, m
<1>10. q2 \in Seq(Step) /\ Len(q2) = 2 /\ q2[1] = s[1] /\ q2[2] = widgetCopyDecision[1]
  BY <1>1, Row2
<1>11. copyWidgetTarget \in Seq(Step) /\ Len(copyWidgetTarget) = 2 /\ copyWidgetTarget[1] = a[1] /\ copyWidgetTarget[2] = b[1]
  BY <1>2, <1>8, Row2
<1> HIDE DEF q2
<1>12. q4 \in Seq(Step) /\ Len(q4) = 4 /\ q4[1] = q2[1] /\ q4[2] = q2[2] /\ q4[3] = a[1] /\ q4[4] = b[1]
  <2>1. /\ q4 \in Seq(Step) /\ Len(q4) = Len(q2) + Len(copyWidgetTarget) /\ \A j \in 1..Len(q2) : q4[j] = q2[j]
        /\ \A j \in 1..Len(copyWidgetTarget) : q4[Len(q2) + j] = copyWidgetTarget[j]
    BY <1>10, <1>11, Concatenated
  <2> HIDE DEF q4
  <2> QED
    BY <2>1, <1>10, <1>11
<1> HIDE DEF q4
<1>13. q5 \in Seq(Step) /\ Len(q5) = 5 /\ q5[5] = f[1] /\ \A i \in 1..4 : q5[i] = q4[i]
  <2>1. q5 \in Seq(Step) /\ Len(q5) = Len(q4) + 1 /\ q5[Len(q4) + 1] = f[1] /\ \A i \in 1..Len(q4) : q5[i] = q4[i]
    BY <1>3, <1>12, Then1
  <2>2. Len(q4) + 1 = 5
    BY <1>12
  <2> HIDE DEF q5
  <2> QED
    BY <1>12, <2>1, <2>2
<1> HIDE DEF q5
<1>14. r \in Seq(Step) /\ Len(r) = (IF c.prefix THEN 6 ELSE 5) /\ (c.prefix => r[6] = d[1]) /\ \A i \in 1..5 : r[i] = q5[i]
  <2>1. CASE ~c.prefix
    <3>1. r \in Seq(Step) /\ Len(r) = Len(q5) /\ \A i \in 1..Len(q5) : r[i] = q5[i]
      BY <1>9, <1>13, <2>1, Nothing
    <3> QED
      BY <1>13, <2>1, <3>1
  <2>2. CASE c.prefix
    <3>1. r \in Seq(Step) /\ Len(r) = Len(q5) + 1 /\ r[Len(q5) + 1] = d[1] /\ \A i \in 1..Len(q5) : r[i] = q5[i]
      BY <1>4, <1>9, <1>13, <2>2, Then1
    <3>2. Len(q5) + 1 = 6
      BY <1>13
    <3> HIDE DEF r
    <3> QED
      BY <1>13, <2>2, <3>1, <3>2
  <2> QED
    BY <2>1, <2>2
<1> HIDE DEF r
<1>15. P \in Seq(Step) /\ Len(P) = Len(r) + 1 /\ P[Len(P)] = u[1] /\ \A i \in 1..Len(r) : P[i] = r[i]
  <2>1. r \in Seq(Step)
    BY <1>14
  <2>2. P \in Seq(Step) /\ Len(P) = Len(r) + 1 /\ P[Len(r) + 1] = u[1] /\ \A i \in 1..Len(r) : P[i] = r[i]
    BY <1>5, <1>7, <2>1, Then1
  <2> QED
    BY <2>2
<1>16. Len(P) = (IF c.prefix THEN 7 ELSE 6) /\ (\A i \in 1..5 : P[i] = q5[i]) /\ (c.prefix => P[6] = d[1])
  <2>1. CASE ~c.prefix
    <3>1. Len(r) = 5 /\ \A i \in 1..5 : r[i] = q5[i]
      BY <1>14, <2>1
    <3> QED
      BY <1>15, <2>1, <3>1
  <2>2. CASE c.prefix
    <3>1. Len(r) = 6 /\ r[6] = d[1] /\ \A i \in 1..5 : r[i] = q5[i]
      BY <1>14, <2>2
    <3> QED
      BY <1>15, <2>2, <3>1
  <2> QED
    BY <2>1, <2>2
<1>17. P[1] = s[1] /\ P[2] = widgetCopyDecision[1] /\ P[3] = a[1] /\ P[4] = b[1] /\ P[5] = f[1]
  BY <1>10, <1>12, <1>13, <1>16
<1> QED
  BY <1>6, <1>15, <1>16, <1>17

LEMMA ExpoSteps ==
  ASSUME NEW c \in Choices, NEW m \in Nat, m = Touched(c), NEW P, P = ApplyToExisting(c)
  PROVE  /\ P \in Seq(Step) /\ m \in Nat /\ Len(P) = m + IF c.prefix THEN 8 ELSE 7
         /\ m = (IF c.installable THEN 3 ELSE 0) + (IF manual THEN 0 ELSE 2)
         /\ c.installable => /\ P[1] = St("recordFile", "package.json", "old") /\ P[2] = St("recordIfPresent", "lockfile", "old")
                             /\ P[3] = St("add", "package.json", "new")
         /\ ~manual => P[m - 1] = St("recordFile", "app.json", "old") /\ P[m] = St("write", "app.json", "new")
         /\ P[m + 1] = St("stage", "widget", "new") /\ P[m + 2] = St("decide", "widget", "new")
         /\ P[m + 3] = St("recordDir", "widget", "new") /\ P[m + 4] = St("copy", "widget", "copied")
         /\ c.prefix => P[m + 5] = St("strip", "widget", "stripped") /\ P[m + 6] = St("rename", "widget", "new")
         /\ ~c.prefix => P[m + 5] = St("strip", "widget", "new")
         /\ P[Len(P) - 1] = St("unstage", "widget", "new") /\ P[Len(P)] = St("commit", "widget", "new")
<1> DEFINE q == ApplyPackageInstall(c) \o ApplyAppConfigPatch
           w == ApplyWidgetCopyStripRename(c)
           r == q \o w
           f == commit("widget")
<1>1. f \in One /\ f[1] = St("commit", "widget", "new")
  BY Singles DEF commit, Paths, Files, Trees, Contents
<1>2. P = r \o f
  BY DEF ApplyToExisting
<1>3. /\ q \in Seq(Step) /\ Len(q) = m
      /\ c.installable => /\ q[1] = St("recordFile", "package.json", "old") /\ q[2] = St("recordIfPresent", "lockfile", "old")
                          /\ q[3] = St("add", "package.json", "new")
      /\ ~manual => q[Len(q) - 1] = St("recordFile", "app.json", "old") /\ q[Len(q)] = St("write", "app.json", "new")
  BY FileSteps
<1>4. /\ w \in Seq(Step) /\ Len(w) = IF c.prefix THEN 7 ELSE 6
      /\ w[1] = St("stage", "widget", "new") /\ w[2] = St("decide", "widget", "new")
      /\ w[3] = St("recordDir", "widget", "new") /\ w[4] = St("copy", "widget", "copied")
      /\ w[5] = St("strip", "widget", IF c.prefix THEN "stripped" ELSE "new")
      /\ c.prefix => w[6] = St("rename", "widget", "new")
      /\ w[Len(w)] = St("unstage", "widget", "new")
  BY WidgetSteps
<1>5. m \in Nat /\ m = (IF c.installable THEN 3 ELSE 0) + (IF manual THEN 0 ELSE 2)
  BY DEF Touched
<1> HIDE DEF q, w, f
<1>6. q \in Seq(Step) /\ w \in Seq(Step)
  BY <1>3, <1>4
<1>7. /\ r \in Seq(Step) /\ Len(r) = Len(q) + Len(w) /\ \A j \in 1..Len(q) : r[j] = q[j]
      /\ \A j \in 1..Len(w) : r[Len(q) + j] = w[j]
  BY <1>6, Concatenated
<1> HIDE DEF r
<1>8. r \in Seq(Step)
  BY <1>7
<1>9. P \in Seq(Step) /\ Len(P) = Len(r) + 1 /\ P[Len(r) + 1] = f[1] /\ \A i \in 1..Len(r) : P[i] = r[i]
  BY <1>1, <1>2, <1>8, Then1
<1>10. Len(q) = m /\ Len(w) \in {6, 7} /\ (c.prefix <=> Len(w) = 7)
  BY <1>3, <1>4
<1>11. \A j \in 1..m : P[j] = q[j]
  BY <1>5, <1>7, <1>9, <1>10
<1>12. \A j \in 1..Len(w) : P[m + j] = w[j]
  BY <1>5, <1>7, <1>9, <1>10
<1>13. Len(P) - 1 = m + Len(w) /\ Len(P) = m + Len(w) + 1
  BY <1>5, <1>7, <1>9, <1>10
<1>14. ASSUME c.installable PROVE P[1] = q[1] /\ P[2] = q[2] /\ P[3] = q[3]
  <2>1. m \in {3, 5}
    BY <1>5, <1>14
  <2> QED
    BY <1>11, <2>1
<1>15. ASSUME ~manual PROVE P[m - 1] = q[m - 1] /\ P[m] = q[m]
  <2>1. m \in {2, 5}
    BY <1>5, <1>15
  <2> QED
    BY <1>11, <2>1
<1>16. /\ P[m + 1] = w[1] /\ P[m + 2] = w[2] /\ P[m + 3] = w[3] /\ P[m + 4] = w[4] /\ P[m + 5] = w[5] /\ P[m + 6] = w[6]
       /\ P[Len(P) - 1] = w[Len(w)]
  <2>1. 1..6 \subseteq 1..Len(w) /\ Len(w) \in 1..Len(w)
    <3>1. CASE Len(w) = 6
      BY <3>1
    <3>2. CASE Len(w) = 7
      BY <3>2
    <3> QED
      BY <1>10, <3>1, <3>2
  <2>2. \A j \in 1..6 : P[m + j] = w[j]
    BY <1>12, <2>1
  <2>3. P[m + 1] = w[1] /\ P[m + 2] = w[2] /\ P[m + 3] = w[3] /\ P[m + 4] = w[4] /\ P[m + 5] = w[5]
    BY <2>2
  <2>4. P[m + 6] = w[6]
    BY <2>2
  <2>5. P[m + Len(w)] = w[Len(w)]
    BY <1>12, <2>1
  <2> QED
    BY <1>13, <2>3, <2>4, <2>5
<1>17. P[Len(P)] = f[1]
  BY <1>7, <1>9
<1>18. Len(P) = m + IF c.prefix THEN 8 ELSE 7
  <2>1. CASE c.prefix
    <3>1. Len(w) = 7
      BY <1>10, <2>1
    <3> QED
      BY <1>5, <1>13, <2>1, <3>1
  <2>2. CASE ~c.prefix
    <3>1. Len(w) = 6
      BY <1>10, <2>2
    <3> QED
      BY <1>5, <1>13, <2>2, <3>1
  <2> QED
    BY <2>1, <2>2
<1>19. m - 1 = Len(q) - 1
  BY <1>10
<1> QED
  BY <1>1, <1>3, <1>4, <1>5, <1>9, <1>10, <1>14, <1>15, <1>16, <1>17, <1>18, <1>19

-----------------------------------------------------------------------------
(* What the programs promise.                                              *)

LEMMA StepFields ==
  \A d, a, t : St(d, a, t).do = d /\ St(d, a, t).at = a /\ St(d, a, t).to = t
BY DEF St

LEMMA WhatStepsDo ==
  /\ \A s, p : p \in Writes(s) <=>
       (s.do \in {"write", "copy", "strip", "rename"} /\ p = s.at) \/ (s.do = "add" /\ p \in {"package.json", "lockfile"})
  /\ \A s, p : p \in Records(s) <=> s.do \in {"recordFile", "recordIfPresent", "recordDir"} /\ p = s.at
<1>1. ASSUME NEW s, NEW p
      PROVE  p \in Writes(s) <=>
       (s.do \in {"write", "copy", "strip", "rename"} /\ p = s.at) \/ (s.do = "add" /\ p \in {"package.json", "lockfile"})
  <2>1. CASE s.do \in {"write", "copy", "strip", "rename"}
    <3>1. Writes(s) = {s.at} /\ s.do # "add"
      BY <2>1 DEF Writes
    <3> QED
      BY <2>1, <3>1
  <2>2. CASE s.do = "add"
    <3>1. Writes(s) = {"package.json", "lockfile"}
      BY <2>2 DEF Writes
    <3> QED
      BY <2>2, <3>1
  <2>3. CASE s.do \notin {"write", "copy", "strip", "rename"} /\ s.do # "add"
    <3>1. Writes(s) = {}
      BY <2>3 DEF Writes
    <3> QED
      BY <2>3, <3>1
  <2> QED
    BY <2>1, <2>2, <2>3
<1>2. ASSUME NEW s, NEW p
      PROVE  p \in Records(s) <=> s.do \in {"recordFile", "recordIfPresent", "recordDir"} /\ p = s.at
  BY DEF Records, RecordSteps
<1> QED
  BY <1>1, <1>2

LEMMA MonorepoProgramOK ==
  ASSUME mode = "existing-monorepo-no-expo", choice \in Choices
  PROVE  ProgramOK(Program)
<1> DEFINE P == Program
<1>1. P = ApplyMonorepo(choice)
  BY DEF Program
<1>2. /\ P \in Seq(Step) /\ Len(P) = IF choice.declared THEN 10 ELSE 11
      /\ P[1] = St("recordDir", "apps/mobile", "new") /\ P[2] = St("recordFile", "workspace", "old")
      /\ P[3] = St("stage", "apps/mobile", "new") /\ P[4] = St("copy", "apps/mobile", "copied")
      /\ P[5] = St("unstage", "apps/mobile", "new") /\ P[6] = St("strip", "apps/mobile", "stripped")
      /\ P[7] = St("rename", "apps/mobile", "new") /\ P[8] = St("write", "apps/mobile", "new")
      /\ P[9] = St("write", "apps/mobile", "new")
      /\ ~choice.declared => P[10] = St("write", "workspace", "new")
      /\ P[Len(P)] = St("commit", "apps/mobile", "new")
  BY <1>1, MonorepoSteps
<1>3. /\ Tree = "apps/mobile" /\ mode \in Existing /\ mode # "existing-expo" /\ mode # "greenfield"
      /\ Planned = IF choice.declared THEN {} ELSE {"workspace"}
  BY DEF Tree, Planned, Existing
<1> HIDE DEF P
<1> DEFINE n == Len(P)
<1>4. /\ n \in {10, 11} /\ (n = 11 <=> ~choice.declared)
  BY <1>2
<1>5. \A i \in 1..n : \/ i = 1 \/ i = 2 \/ i = 3 \/ i = 4 \/ i = 5 \/ i = 6 \/ i = 7 \/ i = 8 \/ i = 9
                      \/ (i = 10 /\ n = 11) \/ i = n
  <2> HIDE DEF n
  <2>1. CASE n = 10
    BY <2>1
  <2>2. CASE n = 11
    BY <2>2
  <2> QED
    BY <1>4, <2>1, <2>2
<1> HIDE DEF n
<1>6. P[n] = St("commit", "apps/mobile", "new") /\ (n = 11 => P[10] = St("write", "workspace", "new"))
  BY <1>2, <1>4 DEF n
<1>7. /\ P[1].do = "recordDir" /\ P[1].at = "apps/mobile" /\ P[2].do = "recordFile" /\ P[2].at = "workspace"
      /\ P[3].do = "stage" /\ P[4].do = "copy" /\ P[4].at = "apps/mobile" /\ P[4].to = "copied"
      /\ P[5].do = "unstage" /\ P[6].do = "strip" /\ P[6].at = "apps/mobile" /\ P[6].to = "stripped"
      /\ P[7].do = "rename" /\ P[7].at = "apps/mobile" /\ P[7].to = "new"
      /\ P[8].do = "write" /\ P[8].at = "apps/mobile" /\ P[8].to = "new"
      /\ P[9].do = "write" /\ P[9].at = "apps/mobile" /\ P[9].to = "new"
      /\ n = 11 => P[10].do = "write" /\ P[10].at = "workspace" /\ P[10].to = "new"
      /\ P[n].do = "commit"
  BY <1>2, <1>6, StepFields
<1>8. WellFormed(P)
  <2>1. ASSUME NEW i \in 1..n PROVE StepOK(P[i])
    BY <1>3, <1>5, <1>7, <2>1 DEF StepOK, TreeSteps, RecordSteps, Files
  <2>2. ASSUME NEW i \in 1..n PROVE P[i].do \in {"commit", "promote"} <=> i = n
    BY <1>5, <1>7, <2>2
  <2> QED
    BY <1>4, <2>1, <2>2 DEF WellFormed, n
<1>9. /\ \A i \in 1..n : Makes(P[i]) <=> i \in {4, 6, 7, 8, 9}
      /\ \A i \in 1..n : "workspace" \in Writes(P[i]) <=> i = 10 /\ n = 11
      /\ "apps/mobile" \in Records(P[1]) /\ "workspace" \in Records(P[2])
      /\ \A i \in 1..n : \A p \in Writes(P[i]) : p \in {"workspace", "apps/mobile"}
  <2>1. ASSUME NEW i \in 1..n PROVE Makes(P[i]) <=> i \in {4, 6, 7, 8, 9}
    <3>1. Makes(P[i]) <=>
       (P[i].do \in {"write", "copy", "strip", "rename"} /\ P[i].at = "apps/mobile") \/ (P[i].do = "add" /\ "apps/mobile" \in {"package.json", "lockfile"})
      BY <1>3, WhatStepsDo DEF Makes
    <3> QED
      BY <1>4, <1>5, <1>7, <2>1, <3>1
  <2>2. ASSUME NEW i \in 1..n PROVE "workspace" \in Writes(P[i]) <=> i = 10 /\ n = 11
    <3>1. "workspace" \in Writes(P[i]) <=>
       (P[i].do \in {"write", "copy", "strip", "rename"} /\ P[i].at = "workspace") \/ (P[i].do = "add" /\ "workspace" \in {"package.json", "lockfile"})
      BY WhatStepsDo
    <3> QED
      BY <1>4, <1>5, <1>7, <2>2, <3>1
  <2>3. "apps/mobile" \in Records(P[1]) /\ "workspace" \in Records(P[2])
    BY <1>7, WhatStepsDo
  <2>4. ASSUME NEW i \in 1..n, NEW p \in Writes(P[i]) PROVE p \in {"workspace", "apps/mobile"}
    <3>1. P[i].do # "add" /\ (P[i].do \in {"write", "copy", "strip", "rename"} => P[i].at \in {"workspace", "apps/mobile"})
      BY <1>5, <1>7, <2>4
    <3> QED
      BY <2>4, <3>1, WhatStepsDo
  <2> QED
    BY <2>1, <2>2, <2>3, <2>4
<1>10. RecordsFirst(P)
  <2>1. ASSUME NEW i \in 1..n, NEW p \in Writes(P[i]) PROVE \E j \in 1..(i - 1) : p \in Records(P[j])
    <3>1. CASE p = "apps/mobile"
      <4>1. i > 1 /\ "apps/mobile" \in Records(P[1])
        BY <1>3, <1>4, <1>9, <3>1 DEF Makes
      <4> QED
        BY <3>1, <4>1
    <3>2. CASE p = "workspace"
      <4>1. i > 2 /\ "workspace" \in Records(P[2])
        BY <1>3, <1>4, <1>9, <3>2 DEF Makes
      <4> QED
        BY <3>2, <4>1
    <3> QED
      BY <1>9, <3>1, <3>2
  <2> QED
    BY <2>1 DEF RecordsFirst, n
<1>11. Chains(P)
  <2>1. ASSUME NEW i \in 1..n, Makes(P[i]), P[i].do # "copy"
        PROVE  \E j \in 1..(i - 1) : Makes(P[j]) /\ P[j].to = Needs(P[i]) /\ \A k \in (j + 1)..(i - 1) : ~Makes(P[k])
    <3>1. CASE i = 6
      <4>1. Makes(P[4]) /\ P[4].to = Needs(P[6]) /\ ~Makes(P[5])
        BY <1>4, <1>7, <1>9 DEF Needs
      <4> QED
        BY <3>1, <4>1
    <3>2. CASE i \in {7, 8, 9}
      <4>1. Makes(P[i - 1]) /\ P[i - 1].to = Needs(P[i])
        BY <1>4, <1>7, <1>9, <3>2 DEF Needs
      <4> QED
        BY <3>2, <4>1
    <3> QED
      BY <1>7, <1>9, <2>1, <3>1, <3>2
  <2> QED
    BY <2>1 DEF Chains, n
<1>12. Completes(P)
  <2>1. Makes(P[9]) /\ P[9].to = "new" /\ \A k \in 10..n : ~Makes(P[k])
    BY <1>4, <1>7, <1>9
  <2> QED
    BY <1>4, <2>1 DEF Completes, n
<1>13. Unstages(P)
  <2>1. ASSUME NEW i \in 1..n, P[i].do = "stage" PROVE \E j \in (i + 1)..n : P[j].do = "unstage"
    <3>1. i = 3
      BY <1>5, <1>7, <2>1
    <3>2. P[5].do = "unstage"
      BY <1>7
    <3> QED
      BY <1>4, <3>1, <3>2
  <2> QED
    BY <2>1 DEF Unstages, n
<1>14. Decides(P)
  <2>1. ASSUME NEW i \in 1..n PROVE P[i].do # "decide"
    BY <1>5, <1>7, <2>1
  <2> QED
    BY <1>3, <2>1 DEF Decides, n
<1>15. Plans(P)
  <2>1. ASSUME NEW f \in Planned PROVE \E j \in 1..n : f \in Writes(P[j])
    <3>1. f = "workspace" /\ ~choice.declared
      BY <1>3, <2>1
    <3>2. 10 \in 1..n /\ "workspace" \in Writes(P[10])
      BY <1>4, <1>9, <3>1
    <3> QED
      BY <3>1, <3>2
  <2> QED
    BY <2>1 DEF Plans, n
<1>16. LooksFirst(P)
  <2>1. ASSUME NEW i \in 1..n PROVE P[i].do # "recordIfPresent"
    BY <1>5, <1>7, <2>1
  <2> QED
    BY <2>1 DEF LooksFirst, n
<1> QED
  BY <1>2, <1>8, <1>10, <1>11, <1>12, <1>13, <1>14, <1>15, <1>16 DEF ProgramOK, P

LEMMA BuildProgramOK ==
  ASSUME mode = "greenfield", choice \in Choices
  PROVE  ProgramOK(Program)
<1> DEFINE P == Program
<1>1. P = RunTasks(choice)
  BY DEF Program
<1>2. /\ P \in Seq(Step) /\ Len(P) = IF choice.installNow THEN 8 ELSE 4
      /\ P[1] = St("copy", "staging", "copied") /\ P[2] = St("strip", "staging", "stripped")
      /\ P[3] = St("rename", "staging", "new")
      /\ choice.installNow => /\ P[4] = St("need", "target", "new") /\ P[5] = St("tool", "target", "new")
                              /\ P[6] = St("need", "target", "new") /\ P[7] = St("tool", "target", "new")
      /\ P[Len(P)] = St("promote", "target", "new")
  BY <1>1, BuildSteps
<1>3. Tree = "staging" /\ mode \notin Existing /\ mode # "existing-expo" /\ Planned = {}
  BY DEF Tree, Planned, Existing
<1> HIDE DEF P
<1> DEFINE n == Len(P)
<1>4. /\ n \in {4, 8} /\ (n = 8 <=> choice.installNow)
  BY <1>2
<1>5. \A i \in 1..n : i = 1 \/ i = 2 \/ i = 3 \/ (n = 8 /\ i \in {4, 5, 6, 7}) \/ i = n
  <2> HIDE DEF n
  <2>1. CASE n = 4
    BY <2>1
  <2>2. CASE n = 8
    BY <2>2
  <2> QED
    BY <1>4, <2>1, <2>2
<1> HIDE DEF n
<1>6. P[n] = St("promote", "target", "new")
  BY <1>2 DEF n
<1>7. /\ P[1].do = "copy" /\ P[1].at = "staging" /\ P[1].to = "copied"
      /\ P[2].do = "strip" /\ P[2].at = "staging" /\ P[2].to = "stripped"
      /\ P[3].do = "rename" /\ P[3].at = "staging" /\ P[3].to = "new"
      /\ n = 8 => P[4].do = "need" /\ P[5].do = "tool" /\ P[6].do = "need" /\ P[7].do = "tool"
      /\ P[n].do = "promote" /\ P[n].at = "target"
  BY <1>2, <1>4, <1>6, StepFields
<1>8. WellFormed(P)
  <2>1. ASSUME NEW i \in 1..n PROVE StepOK(P[i])
    BY <1>3, <1>5, <1>7, <2>1 DEF StepOK, TreeSteps, RecordSteps, Files
  <2>2. ASSUME NEW i \in 1..n PROVE P[i].do \in {"commit", "promote"} <=> i = n
    BY <1>4, <1>5, <1>7, <2>2
  <2> QED
    BY <1>4, <2>1, <2>2 DEF WellFormed, n
<1>9. \A i \in 1..n : Makes(P[i]) <=> i \in {1, 2, 3}
  <2>1. ASSUME NEW i \in 1..n PROVE Makes(P[i]) <=> i \in {1, 2, 3}
    <3>1. Makes(P[i]) <=>
            (P[i].do \in {"write", "copy", "strip", "rename"} /\ P[i].at = "staging")
            \/ (P[i].do = "add" /\ "staging" \in {"package.json", "lockfile"})
      BY <1>3, WhatStepsDo DEF Makes
    <3> QED
      BY <1>4, <1>5, <1>7, <2>1, <3>1
  <2> QED
    BY <2>1
<1>10. Chains(P)
  <2>1. ASSUME NEW i \in 1..n, Makes(P[i]), P[i].do # "copy"
        PROVE  \E j \in 1..(i - 1) : Makes(P[j]) /\ P[j].to = Needs(P[i]) /\ \A k \in (j + 1)..(i - 1) : ~Makes(P[k])
    <3>1. i \in {2, 3}
      BY <1>7, <1>9, <2>1
    <3>2. Makes(P[i - 1]) /\ P[i - 1].to = Needs(P[i])
      BY <1>4, <1>7, <1>9, <3>1 DEF Needs
    <3> QED
      BY <3>1, <3>2
  <2> QED
    BY <2>1 DEF Chains, n
<1>11. Completes(P)
  <2>1. Makes(P[3]) /\ P[3].to = "new" /\ \A k \in 4..n : ~Makes(P[k])
    BY <1>4, <1>7, <1>9
  <2> QED
    BY <1>4, <2>1 DEF Completes, n
<1>12. \A i \in 1..n : P[i].do \notin {"stage", "decide", "recordIfPresent"}
  BY <1>5, <1>7
<1>13. RecordsFirst(P) /\ Unstages(P) /\ Decides(P) /\ Plans(P) /\ LooksFirst(P)
  BY <1>3, <1>12 DEF RecordsFirst, Unstages, Decides, Plans, LooksFirst, n
<1> QED
  BY <1>2, <1>8, <1>10, <1>11, <1>13 DEF ProgramOK, P

LEMMA ExpoProgramOK ==
  ASSUME mode = "existing-expo", choice \in Choices, manual \in BOOLEAN
  PROVE  ProgramOK(Program)
<1> DEFINE P == Program
<1>1. P = ApplyToExisting(choice)
  BY DEF Program
<1>2. PICK m \in Nat : m = Touched(choice)
  <2>1. Touched(choice) \in Nat
    BY DEF Touched
  <2> QED
    BY <2>1
<1> HIDE DEF P
<1>3. /\ P \in Seq(Step) /\ m \in Nat /\ Len(P) = m + IF choice.prefix THEN 8 ELSE 7
      /\ m = (IF choice.installable THEN 3 ELSE 0) + (IF manual THEN 0 ELSE 2)
      /\ choice.installable => /\ P[1] = St("recordFile", "package.json", "old") /\ P[2] = St("recordIfPresent", "lockfile", "old")
                               /\ P[3] = St("add", "package.json", "new")
      /\ ~manual => P[m - 1] = St("recordFile", "app.json", "old") /\ P[m] = St("write", "app.json", "new")
      /\ P[m + 1] = St("stage", "widget", "new") /\ P[m + 2] = St("decide", "widget", "new")
      /\ P[m + 3] = St("recordDir", "widget", "new") /\ P[m + 4] = St("copy", "widget", "copied")
      /\ choice.prefix => P[m + 5] = St("strip", "widget", "stripped") /\ P[m + 6] = St("rename", "widget", "new")
      /\ ~choice.prefix => P[m + 5] = St("strip", "widget", "new")
      /\ P[Len(P) - 1] = St("unstage", "widget", "new") /\ P[Len(P)] = St("commit", "widget", "new")
  <2>2. P \in Seq(Step) /\ m \in Nat
    BY <1>1, <1>2, ExpoSteps
  <2>3. Len(P) = m + IF choice.prefix THEN 8 ELSE 7
    BY <1>1, <1>2, ExpoSteps
  <2>4. m = (IF choice.installable THEN 3 ELSE 0) + (IF manual THEN 0 ELSE 2)
    BY <1>1, <1>2, ExpoSteps
  <2>5. /\ choice.prefix => P[m + 5] = St("strip", "widget", "stripped") /\ P[m + 6] = St("rename", "widget", "new")
        /\ ~choice.prefix => P[m + 5] = St("strip", "widget", "new")
    <3>1. choice.prefix => P[m + 5] = St("strip", "widget", "stripped")
      BY <1>1, <1>2, ExpoSteps
    <3>2. choice.prefix => P[m + 6] = St("rename", "widget", "new")
      BY <1>1, <1>2, ExpoSteps
    <3>3. ~choice.prefix => P[m + 5] = St("strip", "widget", "new")
      BY <1>1, <1>2, ExpoSteps
    <3> QED
      BY <3>1, <3>2, <3>3
  <2>6. choice.installable => /\ P[1] = St("recordFile", "package.json", "old") /\ P[2] = St("recordIfPresent", "lockfile", "old")
                              /\ P[3] = St("add", "package.json", "new")
    BY <1>1, <1>2, ExpoSteps
  <2>7. ~manual => P[m - 1] = St("recordFile", "app.json", "old") /\ P[m] = St("write", "app.json", "new")
    BY <1>1, <1>2, ExpoSteps
  <2>8. /\ P[m + 1] = St("stage", "widget", "new") /\ P[m + 2] = St("decide", "widget", "new")
        /\ P[m + 3] = St("recordDir", "widget", "new") /\ P[m + 4] = St("copy", "widget", "copied")
    BY <1>1, <1>2, ExpoSteps
  <2>10. P[Len(P) - 1] = St("unstage", "widget", "new") /\ P[Len(P)] = St("commit", "widget", "new")
    BY <1>1, <1>2, ExpoSteps
  <2> QED
    BY <2>2, <2>3, <2>4, <2>5, <2>6, <2>7, <2>8, <2>10
<1>4. Tree = "widget" /\ mode \in Existing /\ mode # "greenfield"
  BY DEF Tree, Existing
<1>5. \A f \in Planned : (f \in {"package.json", "lockfile"} /\ choice.installable) \/ (f = "app.json" /\ ~manual)
  BY DEF Planned
<1> DEFINE n == Len(P)
<1>6. /\ m \in {0, 2, 3, 5} /\ n \in {m + 7, m + 8}
      /\ choice.installable <=> m \in {3, 5}
      /\ ~manual <=> m \in {2, 5}
      /\ choice.prefix <=> n = m + 8
  <2>1. CASE choice.installable /\ manual
    BY <1>3, <2>1
  <2>2. CASE choice.installable /\ ~manual
    BY <1>3, <2>2
  <2>3. CASE ~choice.installable /\ manual
    BY <1>3, <2>3
  <2>4. CASE ~choice.installable /\ ~manual
    BY <1>3, <2>4
  <2> QED
    BY <2>1, <2>2, <2>3, <2>4
<1>7. /\ m \in {3, 5} => /\ P[1].do = "recordFile" /\ P[1].at = "package.json"
                         /\ P[2].do = "recordIfPresent" /\ P[2].at = "lockfile" /\ P[3].do = "add"
      /\ m \in {2, 5} => /\ P[m - 1].do = "recordFile" /\ P[m - 1].at = "app.json"
                         /\ P[m].do = "write" /\ P[m].at = "app.json" /\ P[m].to = "new"
      /\ P[m + 1].do = "stage" /\ P[m + 2].do = "decide" /\ P[m + 2].at = "widget"
      /\ P[m + 3].do = "recordDir" /\ P[m + 3].at = "widget"
      /\ P[m + 4].do = "copy" /\ P[m + 4].at = "widget" /\ P[m + 4].to = "copied"
      /\ P[m + 5].do = "strip" /\ P[m + 5].at = "widget" /\ P[m + 5].to = (IF n = m + 8 THEN "stripped" ELSE "new")
      /\ n = m + 8 => P[m + 6].do = "rename" /\ P[m + 6].at = "widget" /\ P[m + 6].to = "new"
      /\ P[n - 1].do = "unstage" /\ P[n].do = "commit"
  BY <1>3, <1>6, StepFields
<1> HIDE DEF n
<1>8. \A i \in 1..n :
        \/ m \in {3, 5} /\ i \in {1, 2, 3}
        \/ m \in {2, 5} /\ i \in {m - 1, m}
        \/ i \in {m + 1, m + 2, m + 3, m + 4, m + 5}
        \/ n = m + 8 /\ i = m + 6
        \/ i = n - 1
        \/ i = n
  <2>1. CASE m = 0
    BY <1>6, <2>1
  <2>2. CASE m = 2
    BY <1>6, <2>2
  <2>3. CASE m = 3
    BY <1>6, <2>3
  <2>4. CASE m = 5
    BY <1>6, <2>4
  <2> QED
    BY <1>6, <2>1, <2>2, <2>3, <2>4
<1>9. \A i \in 1..n :
        /\ Makes(P[i]) <=> i \in {m + 4, m + 5} \/ (n = m + 8 /\ i = m + 6)
        /\ i <= m => P[i].do \in {"recordFile", "recordIfPresent", "add", "write"} /\ (P[i].do # "add" => P[i].at \in Files)
        /\ (i <= m /\ P[i].do = "add") => i = 3 /\ m \in {3, 5}
        /\ (i <= m /\ P[i].do = "write") => i = m /\ m \in {2, 5}
        /\ i > m => P[i].do \notin {"add", "write", "recordFile", "recordIfPresent"}
        /\ P[i].do = "recordDir" => i = m + 3
        /\ P[i].do \in {"copy", "strip", "rename", "recordDir"} => P[i].at = "widget" /\ i > m + 2
  <2>1. ASSUME NEW i \in 1..n
        PROVE  /\ i <= m => P[i].do \in {"recordFile", "recordIfPresent", "add", "write"} /\ (P[i].do # "add" => P[i].at \in Files)
               /\ (i <= m /\ P[i].do = "add") => i = 3 /\ m \in {3, 5}
               /\ (i <= m /\ P[i].do = "write") => i = m /\ m \in {2, 5}
    BY <1>6, <1>7, <1>8, <2>1 DEF Files
  <2>2. ASSUME NEW i \in 1..n
        PROVE  /\ i > m => P[i].do \notin {"add", "write", "recordFile", "recordIfPresent"}
               /\ P[i].do = "recordDir" => i = m + 3
               /\ P[i].do \in {"copy", "strip", "rename", "recordDir"} => P[i].at = "widget" /\ i > m + 2
    BY <1>6, <1>7, <1>8, <2>2
  <2>3. ASSUME NEW i \in 1..n PROVE Makes(P[i]) <=> i \in {m + 4, m + 5} \/ (n = m + 8 /\ i = m + 6)
    <3>1. Makes(P[i]) <=>
            (P[i].do \in {"write", "copy", "strip", "rename"} /\ P[i].at = "widget")
            \/ (P[i].do = "add" /\ "widget" \in {"package.json", "lockfile"})
      BY <1>4, WhatStepsDo DEF Makes
    <3>2. Makes(P[i]) <=> P[i].do \in {"write", "copy", "strip", "rename"} /\ P[i].at = "widget"
      BY <3>1
    <3>3. CASE i <= m
      BY <1>6, <2>1, <3>2, <3>3 DEF Files
    <3>4. CASE i > m
      BY <1>6, <1>7, <1>8, <3>2, <3>4
    <3> QED
      BY <1>6, <3>3, <3>4
  <2> QED
    BY <2>1, <2>2, <2>3
<1>10. WellFormed(P)
  <2>1. ASSUME NEW i \in 1..n PROVE StepOK(P[i])
    BY <1>4, <1>6, <1>7, <1>8, <2>1 DEF StepOK, TreeSteps, RecordSteps, Files
  <2>2. ASSUME NEW i \in 1..n PROVE P[i].do \in {"commit", "promote"} <=> i = n
    BY <1>6, <1>7, <1>8, <2>2
  <2> QED
    BY <1>6, <2>1, <2>2 DEF WellFormed, n
<1>11. RecordsFirst(P)
  <2>1. ASSUME NEW i \in 1..n, NEW p \in Writes(P[i]) PROVE \E j \in 1..(i - 1) : p \in Records(P[j])
    <3>1. CASE P[i].do = "add"
      <4>1. i = 3 /\ m \in {3, 5} /\ p \in {"package.json", "lockfile"}
        BY <1>6, <1>9, <2>1, <3>1, WhatStepsDo
      <4>2. "package.json" \in Records(P[1]) /\ "lockfile" \in Records(P[2])
        BY <1>7, <4>1, WhatStepsDo
      <4> QED
        BY <4>1, <4>2
    <3>2. CASE P[i].do = "write"
      <4>1. i = m /\ m \in {2, 5} /\ p = "app.json"
        BY <1>6, <1>7, <1>9, <2>1, <3>2, WhatStepsDo
      <4>2. "app.json" \in Records(P[m - 1])
        BY <1>7, <4>1, WhatStepsDo
      <4> QED
        BY <4>1, <4>2
    <3>3. CASE P[i].do \in {"copy", "strip", "rename"}
      <4>1. i > m + 3 /\ p = "widget"
        BY <1>6, <1>7, <1>9, <2>1, <3>3, WhatStepsDo
      <4>2. "widget" \in Records(P[m + 3])
        BY <1>7, WhatStepsDo
      <4> QED
        BY <1>3, <4>1, <4>2
    <3> QED
      BY <2>1, <3>1, <3>2, <3>3, WhatStepsDo
  <2> QED
    BY <2>1 DEF RecordsFirst, n
<1>12. Chains(P)
  <2>1. ASSUME NEW i \in 1..n, Makes(P[i]), P[i].do # "copy"
        PROVE  \E j \in 1..(i - 1) : Makes(P[j]) /\ P[j].to = Needs(P[i]) /\ \A k \in (j + 1)..(i - 1) : ~Makes(P[k])
    <3>1. i = m + 5 \/ (n = m + 8 /\ i = m + 6)
      BY <1>7, <1>9, <2>1
    <3>2. Makes(P[i - 1]) /\ P[i - 1].to = Needs(P[i])
      BY <1>6, <1>7, <1>9, <3>1 DEF Needs
    <3> QED
      BY <1>3, <3>1, <3>2
  <2> QED
    BY <2>1 DEF Chains, n
<1>13. Completes(P)
  <2>1. CASE n = m + 8
    <3>1. Makes(P[m + 6]) /\ P[m + 6].to = "new" /\ m + 6 \in 1..n /\ \A k \in (m + 7)..n : ~Makes(P[k])
      BY <1>3, <1>7, <1>9, <2>1
    <3> QED
      BY <1>3, <3>1 DEF Completes, n
  <2>2. CASE n = m + 7
    <3>1. Makes(P[m + 5]) /\ P[m + 5].to = "new" /\ m + 5 \in 1..n /\ \A k \in (m + 6)..n : ~Makes(P[k])
      BY <1>3, <1>7, <1>9, <2>2
    <3> QED
      BY <1>3, <3>1 DEF Completes, n
  <2> QED
    BY <1>6, <2>1, <2>2
<1>14. Unstages(P)
  <2>1. ASSUME NEW i \in 1..n, P[i].do = "stage" PROVE \E j \in (i + 1)..n : P[j].do = "unstage"
    <3>1. i = m + 1
      BY <1>6, <1>7, <1>8, <2>1
    <3>2. n - 1 \in (i + 1)..n
      BY <1>3, <1>6, <3>1
    <3> QED
      BY <1>7, <3>2
  <2> QED
    BY <2>1 DEF Unstages, n
<1>15. Decides(P)
  <2>1. n > 1 /\ P[n - 1].do = "unstage"
    BY <1>3, <1>6, <1>7
  <2>2. ASSUME NEW i \in 1..n, P[i].do = "decide"
        PROVE  /\ i < n - 1
               /\ \A j \in i..n : (Writes(P[j]) \cup Records(P[j])) \cap Files = {}
               /\ \A j \in 1..i : Records(P[j]) \subseteq Files
    <3>1. i = m + 2
      BY <1>6, <1>7, <1>8, <2>2
    <3>2. i < n - 1
      BY <1>3, <1>6, <3>1
    <3>3. ASSUME NEW j \in i..n, NEW p \in Files PROVE p \notin Writes(P[j]) \cup Records(P[j])
      <4>1. j \in 1..n /\ j > m
        BY <1>3, <3>1
      <4>2. /\ P[j].do \notin {"add", "write", "recordFile", "recordIfPresent"}
            /\ P[j].do \in {"copy", "strip", "rename", "recordDir"} => P[j].at = "widget"
        BY <1>9, <4>1
      <4>3. p # "widget"
        BY DEF Files
      <4> QED
        BY <4>2, <4>3, WhatStepsDo
    <3>4. ASSUME NEW j \in 1..i, NEW p \in Records(P[j]) PROVE p \in Files
      <4>1. j \in 1..n /\ j # m + 3
        BY <1>3, <1>6, <3>1, <3>2
      <4>2. P[j].do # "recordDir"
        BY <1>9, <4>1
      <4>3. j <= m \/ j > m
        BY <1>3
      <4>4. P[j].do \in {"recordFile", "recordIfPresent"} /\ p = P[j].at
        BY <4>2, <3>4, WhatStepsDo
      <4> QED
        BY <1>9, <4>1, <4>3, <4>4
    <3> QED
      BY <3>2, <3>3, <3>4
  <2> QED
    BY <2>1, <2>2 DEF Decides, n
<1>16. Plans(P)
  <2>1. ASSUME NEW f \in Planned PROVE \E j \in 1..n : f \in Writes(P[j])
    <3>1. CASE f \in {"package.json", "lockfile"} /\ choice.installable
      <4>1. 3 \in 1..n /\ P[3].do = "add"
        BY <1>6, <1>7, <3>1
      <4> QED
        BY <3>1, <4>1, WhatStepsDo
    <3>2. CASE f = "app.json" /\ ~manual
      <4>1. m \in 1..n /\ P[m].do = "write" /\ P[m].at = "app.json"
        BY <1>6, <1>7, <3>2
      <4> QED
        BY <3>2, <4>1, WhatStepsDo
    <3> QED
      BY <1>5, <3>1, <3>2
  <2> QED
    BY <2>1 DEF Plans, n
<1>17. LooksFirst(P)
  <2>1. ASSUME NEW i \in 1..n, P[i].do = "recordIfPresent", NEW j \in 1..i PROVE "lockfile" \notin Writes(P[j])
    <3>1. i = 2 /\ m \in {3, 5}
      BY <1>6, <1>7, <1>8, <2>1
    <3>2. P[j].do \notin {"write", "copy", "strip", "rename", "add"}
      BY <1>7, <3>1
    <3> QED
      BY <3>2, WhatStepsDo
  <2> QED
    BY <2>1 DEF LooksFirst, n
<1> QED
  BY <1>3, <1>10, <1>11, <1>12, <1>13, <1>14, <1>15, <1>16, <1>17 DEF ProgramOK, P

(* Whatever the mode, the choices and the app config.                      *)
LEMMA ProgramIsOK ==
  (mode \in Modes /\ mode # "refuse" /\ choice \in Choices /\ manual \in BOOLEAN) => ProgramOK(Program)
BY BuildProgramOK, ExpoProgramOK, MonorepoProgramOK DEF Modes

-----------------------------------------------------------------------------
(* The invariant.                                                          *)

(* What the user had is nothing of the run's.                              *)
BeforeInv ==
  /\ \A f \in Files : before[f] \in {"absent", "old", "edited"}
  /\ \A t \in Trees : before[t] \in {"absent", "empty", "users"}
  /\ before["staging"] = "absent"

(* What each phase means for the session and for the error.                *)
PhaseInv ==
  /\ report = "none" /\ exitCode = RUNNING
  /\ phase \in {"start", "prepare"} =>
       /\ todo = <<>> /\ session = "none" /\ manifest = <<>> /\ litter = {} /\ err = NoError /\ disk = before
  /\ phase # "start" => mode # "refuse"
  /\ phase = "apply" => mode \in Existing /\ session = "open" /\ err = NoError
  /\ phase = "rollback" => mode \in Existing /\ session = "open" /\ err.thrown /\ err.rolledBack /\ ~err.toolMissing
  /\ phase = "build" => mode = "greenfield" /\ session = "none"
  /\ phase = "after" =>
       /\ mode \in Existing /\ session # "open"
       /\ session = "none" => err.thrown /\ disk = before
       /\ session = "rolledBack" => manifest = <<>> /\ err.thrown /\ err.rolledBack
       /\ session = "committed" => (err.rolledBack <=> err.rollbackError) /\ (err.rolledBack => err.thrown)
       /\ err.toolMissing => session = "committed" /\ ~err.rolledBack
       /\ ~err.rollbackError => "backup" \notin litter
  /\ ~err.rolledBack => err.restored = 0
  /\ session = "open" => "backup" \in litter
  /\ session = "none" => manifest = <<>> /\ litter = {} /\ ~err.rolledBack /\ ~err.rollbackError

(* The backup holds what the user had; no path is recorded twice.          *)
ManifestInv ==
  /\ \A i \in DOMAIN manifest :
       /\ manifest[i].kind = "file" => manifest[i].path \in Files /\ backup[manifest[i].path] = before[manifest[i].path]
       /\ manifest[i].kind = "dir" =>
            /\ manifest[i].path \in {"widget", "apps/mobile"}
            /\ before[manifest[i].path] = (IF manifest[i].existed THEN "empty" ELSE "absent")
  /\ \A i, j \in DOMAIN manifest : manifest[i].path = manifest[j].path => i = j

(* What is not recorded is as the user had it. A lockfile that was not     *)
(* there is not recorded and may be written.                               *)
Covered(p) == Recorded(p) \/ (p = "lockfile" /\ before[p] = "absent")

DiskInv ==
  /\ phase = "build" => \A p \in Paths \ {"staging", "target"} : disk[p] = before[p]
  /\ (phase = "build" /\ disk["target"] # before["target"]) =>
       before["target"] \in {"absent", "empty"} /\ disk["target"] = "new" /\ todo = <<>> /\ ~err.thrown
  /\ mode \in Existing =>
       /\ disk["staging"] = before["staging"] /\ disk["target"] = before["target"]
       /\ \A p \in Paths : \/ Covered(p)
                           \/ disk[p] = before[p]
                           \/ err.rollbackError /\ (p \in Files \/ before[p] \in {"absent", "empty"})

(* How far the program is, and what its first steps have done.             *)
Done == Len(Program) - Len(todo)
Left == mode = "existing-expo" /\ disk["widget"] = "users" /\ Len(todo) <= 2

Following == Len(todo) <= Len(Program) /\ \A i \in 1..Len(todo) : todo[i] = Program[Done + i]
FilesDone ==
  \A i \in 1..Done : \A f \in Files : /\ f \in Records(Program[i]) => Covered(f)
                                      /\ f \in Writes(Program[i]) => disk[f] = "new"
RecordsDone == \A i \in DOMAIN manifest : \E j \in 1..Done : manifest[i].path \in Records(Program[j])
TempLeft == "temp" \in litter => \E j \in (Done + 1)..Len(Program) : Program[j].do = "unstage"
TreeDone ==
  \/ Left
  \/ \A i \in 1..Done :
       /\ Tree \in Records(Program[i]) => Recorded(Tree)
       /\ (Makes(Program[i]) /\ \A j \in (i + 1)..Done : ~Makes(Program[j])) => disk[Tree] = Program[i].to

Lockfile ==
  (~Recorded("lockfile") /\ disk["lockfile"] # before["lockfile"]) => \E i \in 1..Done : "lockfile" \in Writes(Program[i])

ProgramInv ==
  (phase \in {"apply", "build"} /\ ~err.thrown) =>
    /\ Following /\ FilesDone /\ RecordsDone /\ TempLeft /\ Lockfile
    /\ todo = <<>> => phase = "build" /\ disk["target"] = "new" /\ Missing("staging")
    /\ todo # <<>> => TreeDone

(* After the commit what was planned is there, whatever fails then; and a  *)
(* rollback that counts no file has none to restore, not even a lockfile   *)
(* made by the package manager, which writes a package.json it recorded.   *)
AfterInv ==
  /\ (phase = "after" /\ ~err.thrown) =>
       (\A i \in 1..Len(todo) : todo[i].do \in {"need", "tool"}) /\ "temp" \notin litter
  /\ (phase = "after" /\ session = "committed") =>
       /\ \A f \in Planned : disk[f] = "new"
       /\ (disk[Tree] = "new" /\ Recorded(Tree)) \/ (mode = "existing-expo" /\ disk[Tree] = "users")
  /\ (phase \in {"rollback", "after"} /\ err.rolledBack /\ err.restored = 0 /\ session # "committed") =>
       disk["lockfile"] = before["lockfile"] /\ \A i \in DOMAIN manifest : manifest[i].kind # "file"

LiveInv == PhaseInv /\ ManifestInv /\ DiskInv /\ ProgramInv /\ AfterInv
EndInv == OriginalsKept /\ AtomicPromotion /\ ReportsAreTrue
Inv == TypeOK /\ BeforeInv /\ (Alive => LiveInv) /\ (~Alive => EndInv)

-----------------------------------------------------------------------------
(* What the program tells about the step at hand.                          *)

LEMMA Steady ==
  ASSUME UNCHANGED setupVars
  PROVE  /\ Program' = Program /\ Tree' = Tree /\ Planned' = Planned
         /\ mode' = mode /\ manual' = manual /\ choice' = choice
         /\ \A s : Makes(s)' <=> Makes(s)
<1>1. mode' = mode /\ manual' = manual /\ choice' = choice
  BY DEF setupVars
<1>2. Program' = Program
  BY <1>1 DEF Program, ApplyToExisting, ApplyAppConfigPatch
<1>3. Tree' = Tree
  BY <1>1 DEF Tree
<1>4. Planned' = Planned
  BY <1>1 DEF Planned
<1> QED
  BY <1>1, <1>2, <1>3, <1>4 DEF Makes

LEMMA EditedIs ==
  ASSUME NEW s
  PROVE  Edited(s) = IF s.at \in Trees /\ s.do # "copy" /\ disk[s.at] # Needs(s) THEN disk[s.at] ELSE s.to
<1>1. CASE s.do = "strip"
  BY <1>1 DEF Edited, Needs
<1>2. CASE s.do = "rename"
  BY <1>2 DEF Edited, Needs
<1>3. CASE s.do # "strip" /\ s.do # "rename"
  BY <1>3 DEF Edited, Needs
<1> QED
  BY <1>1, <1>2, <1>3

LEMMA Trees3 ==
  /\ Tree \in Trees \ {"target"} /\ Tree \notin Files
  /\ mode \in Existing => Tree \in {"widget", "apps/mobile"}
  /\ mode = "existing-expo" => Tree = "widget"
  /\ mode = "existing-monorepo-no-expo" => Tree = "apps/mobile"
  /\ mode = "greenfield" => Tree = "staging"
<1>1. CASE mode = "existing-expo"
  BY <1>1 DEF Tree, Trees, Files, Existing
<1>2. CASE mode = "existing-monorepo-no-expo"
  BY <1>2 DEF Tree, Trees, Files, Existing
<1>3. CASE mode \notin Existing
  BY <1>3 DEF Tree, Trees, Files, Existing
<1> QED
  BY <1>1, <1>2, <1>3 DEF Existing

LEMMA Places ==
  /\ Paths = Files \cup Trees
  /\ "package.json" \in Files /\ "lockfile" \in Files /\ "app.json" \in Files /\ "workspace" \in Files
  /\ "widget" \in Trees /\ "apps/mobile" \in Trees /\ "staging" \in Trees /\ "target" \in Trees
  /\ \A p \in Files : p \notin Trees
  /\ Files \subseteq Paths /\ Trees \subseteq Paths
BY DEF Paths, Files, Trees

(* A run that has steps left in its program is at one of them.             *)
LEMMA AtProgram ==
  ASSUME Inv, phase \in {"apply", "build"}, ~err.thrown, todo # <<>>
  PROVE  /\ ProgramOK(Program) /\ mode # "refuse" /\ Following /\ TreeDone /\ FilesDone /\ RecordsDone /\ TempLeft /\ Lockfile
         /\ Done \in Nat /\ Done + 1 \in 1..Len(Program)
         /\ Head(todo) = Program[Done + 1] /\ Head(todo) \in Step /\ StepOK(Head(todo))
         /\ Head(todo).do \in {"commit", "promote"} <=> Done + 1 = Len(Program)
         /\ Len(todo) = Len(Program) - Done /\ Len(Program) \in Nat /\ Len(todo) \in Nat
         /\ phase = "apply" <=> mode \in Existing
<1>1. TypeOK /\ PhaseInv /\ ProgramInv
  BY DEF Inv, LiveInv, Alive
<1>2. /\ mode \in Modes /\ mode # "refuse" /\ choice \in Choices /\ manual \in BOOLEAN
      /\ phase = "apply" <=> mode \in Existing
  BY <1>1 DEF TypeOK, PhaseInv, Existing
<1>3. ProgramOK(Program)
  BY <1>2, ProgramIsOK
<1>4. Following /\ TreeDone /\ FilesDone /\ RecordsDone /\ TempLeft /\ Lockfile
  BY <1>1 DEF ProgramInv
<1>5. PICK P : P = Program
  OBVIOUS
<1>6. P \in Seq(Step) /\ WellFormed(P)
  BY <1>3, <1>5 DEF ProgramOK
<1>7. PICK d : d = Done
  OBVIOUS
<1>8. d = Len(P) - Len(todo) /\ Len(todo) <= Len(P) /\ \A i \in 1..Len(todo) : todo[i] = P[d + i]
  BY <1>4, <1>5, <1>7 DEF Done, Following
<1>9. todo \in Seq(Step) /\ Len(todo) \in Nat /\ Len(todo) > 0 /\ Head(todo) = todo[1] /\ Len(P) \in Nat
  BY <1>1, <1>6 DEF TypeOK
<1>10. d \in Nat /\ d + 1 \in 1..Len(P) /\ 1 \in 1..Len(todo)
  BY <1>8, <1>9
<1>11. Head(todo) = P[d + 1]
  BY <1>8, <1>9, <1>10
<1>12. Head(todo) \in Step
  BY <1>6, <1>10, <1>11
<1>13. StepOK(P[d + 1]) /\ (P[d + 1].do \in {"commit", "promote"} <=> d + 1 = Len(P))
  BY <1>6, <1>10 DEF WellFormed
<1>14. Len(todo) = Len(P) - d
  BY <1>8, <1>9
<1> QED
  BY <1>2, <1>3, <1>4, <1>5, <1>7, <1>9, <1>10, <1>11, <1>12, <1>13, <1>14

(* The step at hand belongs to the phase.                                  *)
LEMMA StepsOfPhase ==
  ASSUME Inv, Running, todo # <<>>
  PROVE  /\ Head(todo) \in Step /\ phase \in {"apply", "after", "build"} /\ ~err.thrown
         /\ Head(todo).do \in {"recordFile", "recordIfPresent", "recordDir", "stage", "decide", "unstage", "add", "commit"} =>
              phase = "apply"
         /\ Head(todo).do \in {"write", "copy", "strip", "rename"} => phase \in {"apply", "build"}
         /\ Head(todo).do \in {"need", "tool"} => phase \in {"after", "build"}
         /\ Head(todo).do = "promote" => phase = "build"
<1>1. phase \in {"apply", "after", "build"} /\ ~err.thrown
  BY DEF Running
<1>2. CASE phase = "after"
  <2>1. AfterInv /\ todo \in Seq(Step)
    BY <1>2 DEF Inv, LiveInv, Alive, TypeOK
  <2>2. Head(todo) = todo[1] /\ 1 \in 1..Len(todo) /\ Head(todo) \in Step
    BY <2>1
  <2>3. Head(todo).do \in {"need", "tool"}
    BY <1>1, <1>2, <2>1, <2>2 DEF AfterInv
  <2> QED
    BY <1>1, <1>2, <2>2, <2>3
<1>3. CASE phase \in {"apply", "build"}
  <2>1. StepOK(Head(todo)) /\ Head(todo) \in Step /\ (phase = "apply" <=> mode \in Existing)
    BY <1>1, <1>3, AtProgram
  <2>2. mode \in Existing => mode # "greenfield"
    BY DEF Existing
  <2>3. mode = "existing-expo" => mode \in Existing
    BY DEF Existing
  <2> QED
    BY <1>1, <1>3, <2>1, <2>2, <2>3 DEF StepOK, TreeSteps, RecordSteps
<1> QED
  BY <1>1, <1>2, <1>3

(* A path is covered when it is written (record before mutate).            *)
LEMMA CoveredNow ==
  ASSUME Inv, phase = "apply", ~err.thrown, todo # <<>>, NEW p \in Writes(Head(todo))
  PROVE  Covered(p) /\ p \in Files \cup {Tree} /\ p \in Paths
<1>1. /\ ProgramOK(Program) /\ TreeDone /\ FilesDone
      /\ Done \in Nat /\ Done + 1 \in 1..Len(Program) /\ Head(todo) = Program[Done + 1] /\ StepOK(Head(todo))
      /\ Head(todo).do \in {"commit", "promote"} <=> Done + 1 = Len(Program)
      /\ Len(todo) = Len(Program) - Done /\ Len(Program) \in Nat
      /\ mode \in Existing
  BY AtProgram
<1>2. PICK P, d : P = Program /\ d = Done
  OBVIOUS
<1>3. Head(todo).do \in {"write", "copy", "strip", "rename", "add"} /\ p \in Files \cup {Tree}
  BY <1>1, WhatStepsDo, Places DEF StepOK, TreeSteps
<1>4. PICK j \in 1..d : p \in Records(P[j])
  <2>1. \A i \in 1..Len(P) : \A q \in Writes(P[i]) : \E j \in 1..(i - 1) : q \in Records(P[j])
    BY <1>1, <1>2 DEF ProgramOK, RecordsFirst
  <2>2. \E j \in 1..(d + 1 - 1) : p \in Records(P[j])
    BY <1>1, <1>2, <2>1
  <2> QED
    BY <1>1, <1>2, <2>2
<1>5. CASE p \in Files
  BY <1>1, <1>2, <1>4, <1>5, Places DEF FilesDone
<1>6. CASE p = Tree
  <2>1. ~Left
    <3>1. SUFFICES ASSUME mode = "existing-expo", Len(todo) <= 2 PROVE FALSE
      BY DEF Left
    <3>2. d + 1 = Len(P) - 1 \/ d + 1 = Len(P)
      BY <1>1, <1>2, <3>1
    <3>3. P[Len(P) - 1].do = "unstage"
      BY <1>1, <1>2, <3>1 DEF ProgramOK, Decides
    <3> QED
      BY <1>1, <1>2, <1>3, <3>2, <3>3
  <2>2. Recorded(Tree)
    BY <1>1, <1>2, <1>4, <1>6, <2>1 DEF TreeDone
  <2> QED
    BY <1>6, <2>2, Trees3, Places DEF Covered
<1> QED
  BY <1>3, <1>5, <1>6

(* Strip, rename and patches find the tree they look for.                  *)
LEMMA EditedNow ==
  ASSUME Inv, phase \in {"apply", "build"}, ~err.thrown, todo # <<>>, NEW s, s = Head(todo),
         s.do \in {"write", "copy", "strip", "rename"}
  PROVE  Edited(s) = s.to /\ ~Left
<1>1. /\ ProgramOK(Program) /\ TreeDone
      /\ Done \in Nat /\ Done + 1 \in 1..Len(Program) /\ s = Program[Done + 1] /\ StepOK(s)
      /\ Len(todo) = Len(Program) - Done /\ Len(Program) \in Nat
  BY AtProgram
<1>2. PICK P, d : P = Program /\ d = Done
  OBVIOUS
<1>3. ~Left
  <2>1. SUFFICES ASSUME mode = "existing-expo", Len(todo) <= 2 PROVE FALSE
    BY DEF Left
  <2>2. d + 1 = Len(P) - 1 \/ d + 1 = Len(P)
    BY <1>1, <1>2, <2>1
  <2>3. P[Len(P) - 1].do = "unstage" /\ WellFormed(P) /\ Len(P) \in 1..Len(P)
    BY <1>1, <1>2, <2>1 DEF ProgramOK, Decides
  <2>4. P[Len(P)].do \in {"commit", "promote"}
    BY <2>3 DEF WellFormed
  <2> QED
    BY <1>1, <1>2, <2>2, <2>3, <2>4
<1>4. CASE s.at \in Trees /\ s.do # "copy"
  <2>1. s.at = Tree /\ Makes(s)
    <3>1. s.at = Tree
      BY <1>1, <1>4, Places DEF StepOK, TreeSteps
    <3> QED
      BY <3>1, WhatStepsDo DEF Makes
  <2>2. \A i \in 1..Len(P) : (Makes(P[i]) /\ P[i].do # "copy") =>
          \E j \in 1..(i - 1) : Makes(P[j]) /\ P[j].to = Needs(P[i]) /\ \A k \in (j + 1)..(i - 1) : ~Makes(P[k])
    BY <1>1, <1>2 DEF ProgramOK, Chains
  <2>3. \E j \in 1..(d + 1 - 1) : Makes(P[j]) /\ P[j].to = Needs(P[d + 1]) /\ \A k \in (j + 1)..(d + 1 - 1) : ~Makes(P[k])
    BY <1>1, <1>2, <1>4, <2>1, <2>2
  <2>4. PICK j \in 1..d : Makes(P[j]) /\ P[j].to = Needs(s) /\ \A k \in (j + 1)..d : ~Makes(P[k])
    BY <1>1, <1>2, <2>3
  <2>5. disk[Tree] = P[j].to
    BY <1>1, <1>2, <1>3, <2>4 DEF TreeDone
  <2> QED
    BY <1>3, <2>1, <2>4, <2>5, EditedIs
<1>5. CASE ~(s.at \in Trees /\ s.do # "copy")
  BY <1>3, <1>5, EditedIs
<1> QED
  BY <1>4, <1>5

(* As long as the process lives, nothing the user had is lost.             *)
LEMMA LiveKeeps ==
  ASSUME TypeOK, BeforeInv, LiveInv, Alive
  PROVE  OriginalsKept /\ disk["target"] \in {before["target"], "new"}
<1>1. PhaseInv /\ ManifestInv /\ DiskInv
  BY DEF LiveInv
<1>2. CASE phase \in {"start", "prepare"}
  BY <1>1, <1>2 DEF PhaseInv, OriginalsKept
<1>3. CASE phase = "build"
  <2>1. ASSUME NEW p \in Paths PROVE disk[p] = before[p] \/ before[p] \in {"absent", "empty"}
    BY <1>1, <1>3 DEF DiskInv, BeforeInv
  <2> QED
    BY <1>1, <1>3, <2>1 DEF OriginalsKept, DiskInv
<1>4. CASE phase \in {"apply", "after", "rollback"}
  <2>1. mode \in Existing
    BY <1>1, <1>4 DEF PhaseInv
  <2>2. ASSUME NEW p \in Paths
        PROVE  \/ disk[p] = before[p] \/ before[p] \in {"absent", "empty"}
               \/ p \in Files /\ backup[p] = before[p] /\ "backup" \in litter
               \/ p \in Files /\ (session = "committed" \/ err.rollbackError)
    <3>1. CASE ~Covered(p)
      BY <1>1, <2>1, <3>1 DEF DiskInv
    <3>2. CASE p = "lockfile" /\ before[p] = "absent"
      BY <3>2
    <3>3. CASE Recorded(p)
      <4>1. PICK i \in DOMAIN manifest : manifest[i].path = p
        BY <3>3 DEF Recorded
      <4>2. manifest[i] \in Entry /\ manifest # <<>>
        BY <4>1 DEF TypeOK
      <4>3. session \in {"open", "committed"}
        BY <1>1, <1>4, <4>2 DEF PhaseInv, TypeOK
      <4>4. CASE manifest[i].kind = "dir"
        BY <1>1, <4>1, <4>4 DEF ManifestInv
      <4>5. CASE manifest[i].kind = "file"
        BY <1>1, <4>1, <4>3, <4>5 DEF ManifestInv, PhaseInv
      <4> QED
        BY <4>2, <4>4, <4>5 DEF Entry
    <3> QED
      BY <3>1, <3>2, <3>3 DEF Covered
  <2> QED
    BY <1>1, <2>1, <2>2 DEF OriginalsKept, DiskInv
<1> QED
  BY <1>2, <1>3, <1>4 DEF Alive, TypeOK, Phases

(* A process that has ended does nothing.                                  *)
LEMMA Terminal ==
  ASSUME ~Alive, [Next]_vars
  PROVE  UNCHANGED vars
<1>1. phase \in {"exited", "killed"}
  BY DEF Alive
<1>2. ~Begins
  BY <1>1 DEF Begins, Help, CommandLineFails, TemplateFails, Detect, YesFails, PreflightFails, Cancel, BeginBuild, BeginApply
<1>3. ~Running
  BY <1>1 DEF Running
<1>4. ~Steps
  BY <1>3 DEF Steps, RecordFile, RecordDir, Stage, Decide, Unstage, Write, AddPackages, RunTool, Promote, Commit, Doing
<1>5. ~Ends
  BY <1>1 DEF Ends, RestoreEntry, FinishRollback, ReportApply, ReportBuild
<1>6. ~Happens
  BY <1>1, <1>3 DEF Happens, Interrupt, PipeCloses, Kill, UserEdits, Awaiting, Doing, Alive
<1> QED
  BY <1>2, <1>4, <1>5, <1>6 DEF Next

-----------------------------------------------------------------------------
(* A step of the program is done.                                          *)

LEMMA TailOf ==
  ASSUME NEW q \in Seq(Step), q # <<>>, NEW r, r = Tail(q)
  PROVE  /\ r \in Seq(Step) /\ Len(r) = Len(q) - 1 /\ Len(q) \in Nat /\ Len(q) > 0
         /\ Len(q) > 1 => r # <<>>
         /\ \A i \in 1..Len(r) : r[i] = q[i + 1]
<1>1. /\ r \in Seq(Step) /\ Len(r) = Len(q) - 1 /\ Len(q) \in Nat /\ Len(q) > 0
      /\ \A i \in 1..Len(r) : r[i] = q[i + 1]
  OBVIOUS
<1>2. Len(q) > 1 => Len(r) # 0
  BY <1>1
<1>3. Len(q) > 1 => r # <<>>
  BY <1>2, NothingFirst, Zenon
<1> QED
  BY <1>1, <1>3

LEMMA StepDone ==
  ASSUME Inv, phase \in {"apply", "build"}, ~err.thrown, todo # <<>>, NEW s, s = Head(todo),
         s.do \notin {"commit", "promote"},
         todo' = Tail(todo), phase' = phase, err' = err, before' = before, UNCHANGED setupVars,
         \A p \in Paths : Recorded(p) => Recorded(p)',
         \A p \in Records(s) : Covered(p)',
         \A f \in Files : disk'[f] = IF f \in Writes(s) THEN "new" ELSE disk[f],
         disk'[Tree] = IF Makes(s) THEN s.to ELSE disk[Tree],
         \A i \in DOMAIN manifest' : (i \in DOMAIN manifest /\ manifest'[i] = manifest[i]) \/ manifest'[i].path \in Records(s),
         "temp" \in litter' => s.do # "unstage" /\ ("temp" \in litter \/ s.do = "stage")
  PROVE  ProgramInv' /\ AfterInv'
<1>1. /\ ProgramOK(Program) /\ Following /\ TreeDone /\ FilesDone /\ RecordsDone /\ TempLeft /\ Lockfile
      /\ Done \in Nat /\ Done + 1 \in 1..Len(Program) /\ s = Program[Done + 1] /\ s \in Step /\ StepOK(s)
      /\ s.do \in {"commit", "promote"} <=> Done + 1 = Len(Program)
      /\ Len(todo) = Len(Program) - Done /\ Len(Program) \in Nat /\ Len(todo) \in Nat
  BY AtProgram
<1>2. PICK P, d, t : P = Program /\ d = Done /\ t = Tree
  OBVIOUS
<1>3. /\ Program' = P /\ Tree' = t /\ mode' = mode /\ \A x : Makes(x)' <=> Makes(x)
  BY <1>2, Steady
<1>4. d \in Nat /\ Len(P) \in Nat /\ d + 1 < Len(P) /\ Len(todo) = Len(P) - d /\ s = P[d + 1]
  BY <1>1, <1>2
<1>5. todo \in Seq(Step)
  BY DEF Inv, TypeOK
<1>6. /\ Len(todo') = Len(P) - (d + 1) /\ todo' # <<>>
      /\ \A i \in 1..Len(todo') : todo'[i] = todo[i + 1]
  <2>1. /\ todo' \in Seq(Step) /\ Len(todo') = Len(todo) - 1
        /\ Len(todo) > 1 => todo' # <<>>
        /\ \A i \in 1..Len(todo') : todo'[i] = todo[i + 1]
    BY <1>5, TailOf
  <2>2. Len(todo) > 1 /\ Len(todo) - 1 = Len(P) - (d + 1)
    BY <1>4
  <2> QED
    BY <2>1, <2>2
<1>7. Done' = d + 1
  <2>1. Done' = Len(P) - Len(todo')
    BY <1>3 DEF Done
  <2>2. Done' = Len(P) - (Len(P) - (d + 1))
    BY <1>6, <2>1
  <2> QED
    BY <1>4, <2>2
<1>8. \A p \in Paths : Covered(p) => Covered(p)'
  BY DEF Covered
<1>9. Following'
  <2>1. \A i \in 1..Len(todo) : todo[i] = P[d + i]
    BY <1>1, <1>2 DEF Following
  <2>2. ASSUME NEW i \in 1..Len(todo') PROVE todo'[i] = P[d + 1 + i]
    <3>1. i + 1 \in 1..Len(todo) /\ d + (i + 1) = d + 1 + i
      BY <1>4, <1>6
    <3> QED
      BY <1>6, <2>1, <3>1
  <2>3. Len(todo') <= Len(P)
    BY <1>4, <1>6
  <2> QED
    BY <1>3, <1>7, <2>2, <2>3 DEF Following
<1>10. FilesDone'
  <2>1. ASSUME NEW i \in 1..(d + 1), NEW f \in Files
        PROVE  /\ f \in Records(P[i]) => Covered(f)'
               /\ f \in Writes(P[i]) => disk'[f] = "new"
    <3>1. CASE i = d + 1
      BY <1>4, <3>1
    <3>2. CASE i # d + 1
      <4>1. i \in 1..d
        BY <1>4, <3>2
      <4>2. f \in Records(P[i]) => Covered(f)
        BY <1>1, <1>2, <4>1 DEF FilesDone
      <4>3. f \in Writes(P[i]) => disk[f] = "new"
        BY <1>1, <1>2, <4>1 DEF FilesDone
      <4> QED
        BY <1>8, <4>2, <4>3, Places
    <3> QED
      BY <3>1, <3>2
  <2> QED
    BY <1>3, <1>7, <2>1 DEF FilesDone
<1>11. RecordsDone'
  <2>1. ASSUME NEW i \in DOMAIN manifest' PROVE \E j \in 1..(d + 1) : manifest'[i].path \in Records(P[j])
    <3>1. CASE manifest'[i].path \in Records(s)
      BY <1>4, <3>1
    <3>2. CASE i \in DOMAIN manifest /\ manifest'[i] = manifest[i]
      <4>1. PICK j \in 1..d : manifest[i].path \in Records(P[j])
        BY <1>1, <1>2, <3>2 DEF RecordsDone
      <4>2. j \in 1..(d + 1)
        BY <1>4
      <4> QED
        BY <3>2, <4>1, <4>2
    <3> QED
      BY <3>1, <3>2
  <2> QED
    BY <1>3, <1>7, <2>1 DEF RecordsDone
<1>12. TempLeft'
  <2>1. ASSUME "temp" \in litter' PROVE \E j \in (d + 1 + 1)..Len(P) : P[j].do = "unstage"
    <3>1. CASE s.do = "stage"
      <4>1. \A i \in 1..Len(P) : P[i].do = "stage" => \E j \in (i + 1)..Len(P) : P[j].do = "unstage"
        BY <1>1, <1>2 DEF ProgramOK, Unstages
      <4>2. d + 1 \in 1..Len(P)
        BY <1>1, <1>2
      <4> QED
        BY <1>4, <3>1, <4>1, <4>2
    <3>2. CASE "temp" \in litter
      <4>1. PICK j \in (d + 1)..Len(P) : P[j].do = "unstage"
        BY <1>1, <1>2, <3>2 DEF TempLeft
      <4>2. j # d + 1
        BY <1>4, <2>1, <4>1
      <4>3. j \in (d + 1 + 1)..Len(P)
        BY <1>4, <4>2
      <4> QED
        BY <4>1, <4>3
    <3> QED
      BY <2>1, <3>1, <3>2
  <2> QED
    BY <1>3, <1>7, <2>1 DEF TempLeft
<1>13. Lockfile'
  <2>1. ASSUME ~Recorded("lockfile")', disk'["lockfile"] # before["lockfile"]
        PROVE  \E i \in 1..(d + 1) : "lockfile" \in Writes(P[i])
    <3>1. CASE "lockfile" \in Writes(s)
      BY <1>4, <3>1
    <3>2. CASE "lockfile" \notin Writes(s)
      <4>1. ~Recorded("lockfile") /\ disk["lockfile"] # before["lockfile"]
        BY <2>1, <3>2, Places
      <4>2. PICK i \in 1..d : "lockfile" \in Writes(P[i])
        BY <1>1, <1>2, <4>1 DEF Lockfile
      <4>3. i \in 1..(d + 1)
        BY <1>4
      <4> QED
        BY <4>2, <4>3
    <3> QED
      BY <3>1, <3>2
  <2> QED
    BY <1>3, <1>7, <2>1 DEF Lockfile
<1>14. TreeDone'
  <2>1. CASE Left
    <3>1. ~Makes(s)
      <4>1. s.do \notin {"write", "copy", "strip", "rename"}
        BY <2>1, EditedNow
      <4>2. Tree \notin {"package.json", "lockfile"}
        BY Trees3, Places
      <4> QED
        BY <4>1, <4>2, WhatStepsDo DEF Makes
    <3>2. disk'["widget"] = disk["widget"]
      BY <2>1, <3>1, Trees3 DEF Left
    <3>3. Len(todo') <= 2
      BY <1>4, <1>6, <2>1 DEF Left
    <3>4. Left'
      BY <1>3, <2>1, <3>2, <3>3 DEF Left
    <3> QED
      BY <3>4 DEF TreeDone
  <2>2. CASE ~Left
    <3>1. \A i \in 1..d : /\ Tree \in Records(P[i]) => Recorded(Tree)
                          /\ (Makes(P[i]) /\ \A j \in (i + 1)..d : ~Makes(P[j])) => disk[Tree] = P[i].to
      BY <1>1, <1>2, <2>2 DEF TreeDone
    <3>0. t \in Paths /\ t # "lockfile"
      BY <1>2, Trees3, Places
    <3>2. ASSUME NEW i \in 1..(d + 1), t \in Records(P[i]) PROVE Recorded(t)'
      <4>1. CASE i = d + 1
        <5>1. Covered(t)'
          BY <1>4, <3>2, <4>1
        <5> QED
          BY <3>0, <5>1 DEF Covered
      <4>2. CASE i # d + 1
        <5>1. i \in 1..d
          BY <1>4, <4>2
        <5>2. Recorded(t)
          BY <1>2, <3>1, <3>2, <5>1
        <5> QED
          BY <3>0, <5>2
      <4> QED
        BY <4>1, <4>2
    <3>3. ASSUME NEW i \in 1..(d + 1), Makes(P[i]), \A j \in (i + 1)..(d + 1) : ~Makes(P[j])
          PROVE  disk'[t] = P[i].to
      <4>1. CASE i = d + 1
        BY <1>2, <1>4, <3>3, <4>1
      <4>2. CASE i # d + 1
        <5>1. i \in 1..d /\ d + 1 \in (i + 1)..(d + 1) /\ \A j \in (i + 1)..d : j \in (i + 1)..(d + 1)
          BY <1>4, <4>2
        <5>2. ~Makes(s) /\ disk[Tree] = P[i].to
          BY <1>4, <3>1, <3>3, <5>1
        <5> QED
          BY <1>2, <5>2
      <4> QED
        BY <4>1, <4>2
    <3>4. \A i \in 1..(d + 1) : /\ t \in Records(P[i]) => Recorded(t)'
                                /\ (Makes(P[i]) /\ \A j \in (i + 1)..(d + 1) : ~Makes(P[j])) => disk'[t] = P[i].to
      BY <3>2, <3>3
    <3> QED
      BY <1>3, <1>7, <3>4 DEF TreeDone, Recorded
  <2> QED
    BY <2>1, <2>2
<1> QED
  BY <1>6, <1>9, <1>10, <1>11, <1>12, <1>13, <1>14 DEF ProgramInv, AfterInv

-----------------------------------------------------------------------------
(* What an apply's steps have in common: they go on, or they throw.        *)

LEMMA Counted ==
  ASSUME TypeOK
  PROVE  RestoredCount \in Nat
<1> DEFINE F == {i \in DOMAIN manifest : manifest[i].kind = "file"}
<1>1. DOMAIN manifest = 1..Len(manifest) /\ Len(manifest) \in Nat
  BY DEF TypeOK
<1>2. IsFiniteSet(1..Len(manifest))
  BY <1>1, FS_Interval
<1>3. F \subseteq 1..Len(manifest)
  BY <1>1
<1>4. IsFiniteSet(F)
  BY <1>2, <1>3, FS_Subset
<1>5. Cardinality(F) \in Nat
  BY <1>4, FS_CardinalityType
<1> QED
  BY <1>5 DEF RestoredCount

LEMMA Alive2 ==
  ASSUME Inv, Alive
  PROVE  TypeOK /\ BeforeInv /\ PhaseInv /\ ManifestInv /\ DiskInv /\ ProgramInv /\ AfterInv /\ LiveInv
BY DEF Inv, LiveInv

(* The rest of Inv when the process still lives.                           *)
LEMMA StillAlive ==
  ASSUME TypeOK', BeforeInv', Alive', PhaseInv', ManifestInv', DiskInv', ProgramInv', AfterInv'
  PROVE  Inv'
BY DEF Inv, LiveInv

LEMMA SameBefore ==
  ASSUME BeforeInv, before' = before
  PROVE  BeforeInv'
BY DEF BeforeInv

LEMMA SameManifest ==
  ASSUME ManifestInv, manifest' = manifest, backup' = backup, before' = before
  PROVE  ManifestInv' /\ \A p : (Recorded(p)' <=> Recorded(p)) /\ (Covered(p)' <=> Covered(p))
BY DEF ManifestInv, Recorded, Covered

(* Nothing of the staging directory or of the target is ever recorded.     *)
LEMMA NotRecorded ==
  ASSUME ManifestInv, TypeOK
  PROVE  ~Covered("staging") /\ ~Covered("target")
<1>1. ASSUME NEW i \in DOMAIN manifest PROVE manifest[i].path \notin {"staging", "target"}
  <2>1. manifest[i] \in Entry
    BY DEF TypeOK
  <2>2. CASE manifest[i].kind = "file"
    BY <2>2 DEF ManifestInv, Files
  <2>3. CASE manifest[i].kind = "dir"
    BY <2>3 DEF ManifestInv
  <2> QED
    BY <2>1, <2>2, <2>3 DEF Entry
<1> QED
  BY <1>1 DEF Covered, Recorded

(* No file is counted: none is in the manifest.                            *)
LEMMA CountedNone ==
  ASSUME TypeOK, ManifestInv, RestoredCount = 0
  PROVE  /\ \A i \in DOMAIN manifest : manifest[i].kind # "file"
         /\ \A f \in Files : ~Recorded(f)
<1> DEFINE F == {i \in DOMAIN manifest : manifest[i].kind = "file"}
<1>1. DOMAIN manifest = 1..Len(manifest) /\ Len(manifest) \in Nat /\ \A i \in DOMAIN manifest : manifest[i] \in Entry
  BY DEF TypeOK
<1>2. IsFiniteSet(F)
  <2>1. IsFiniteSet(1..Len(manifest)) /\ F \subseteq 1..Len(manifest)
    BY <1>1, FS_Interval
  <2> QED
    BY <2>1, FS_Subset
<1>3. F = {}
  BY <1>2, FS_EmptySet DEF RestoredCount
<1>4. \A i \in DOMAIN manifest : manifest[i].kind # "file"
  BY <1>3
<1>5. ASSUME NEW f \in Files, NEW i \in DOMAIN manifest, manifest[i].path = f PROVE FALSE
  <2>1. manifest[i].kind = "dir"
    BY <1>1, <1>4 DEF Entry
  <2>2. f \in {"widget", "apps/mobile"}
    BY <1>5, <2>1 DEF ManifestInv
  <2> QED
    BY <2>2 DEF Files
<1> QED
  BY <1>4, <1>5 DEF Recorded

(* Nobody but the package manager writes the lockfile, and it writes the   *)
(* package.json, which has been recorded.                                  *)
LEMMA LockfileUnwritten ==
  ASSUME Inv, phase = "apply", ~err.thrown, todo # <<>>, ~Recorded("package.json"), ~Recorded("lockfile")
  PROVE  disk["lockfile"] = before["lockfile"]
<1>1. /\ ProgramOK(Program) /\ FilesDone /\ Lockfile /\ mode \in Existing
      /\ Done \in Nat /\ Done + 1 \in 1..Len(Program) /\ Len(Program) \in Nat
  BY AtProgram
<1>2. SUFFICES ASSUME disk["lockfile"] # before["lockfile"] PROVE FALSE
  OBVIOUS
<1>3. PICK P, d : P = Program /\ d = Done
  OBVIOUS
<1>4. PICK i \in 1..d : "lockfile" \in Writes(P[i])
  BY <1>1, <1>2, <1>3 DEF Lockfile
<1>5. i \in 1..Len(P) /\ StepOK(P[i])
  BY <1>1, <1>3 DEF ProgramOK, WellFormed
<1>6. P[i].do = "add"
  <2>1. Tree # "lockfile"
    BY Trees3, Places
  <2> QED
    BY <1>4, <1>5, <2>1, WhatStepsDo DEF StepOK, TreeSteps
<1>7. "package.json" \in Writes(P[i])
  BY <1>6, WhatStepsDo
<1>8. PICK j \in 1..(i - 1) : "package.json" \in Records(P[j])
  BY <1>1, <1>3, <1>5, <1>7 DEF ProgramOK, RecordsFirst
<1>9. j \in 1..d
  BY <1>1, <1>3
<1>10. Covered("package.json")
  BY <1>1, <1>3, <1>8, <1>9 DEF FilesDone, Files
<1> QED
  BY <1>10 DEF Covered

LEMMA ThrowInApply ==
  ASSUME Inv, phase = "apply", ~err.thrown, todo # <<>>, NEW missing, Throw(missing), Untouched,
         session' = session, manifest' = manifest, backup' = backup,
         "backup" \in litter', litter' \subseteq {"backup", "temp"},
         disk' \in [Paths -> Contents], \A p \in Paths : Covered(p) \/ disk'[p] = disk[p],
         disk'["lockfile"] = disk["lockfile"] \/ Recorded("package.json")
  PROVE  Inv'
<1>1. TypeOK /\ BeforeInv /\ PhaseInv /\ ManifestInv /\ DiskInv
  BY Alive2 DEF Alive
<1>2. /\ UNCHANGED setupVars /\ before' = before /\ report' = report /\ exitCode' = exitCode
      /\ interrupted' = interrupted /\ edits' = edits
  BY DEF Untouched, endVars
<1>3. mode' = mode /\ manual' = manual /\ choice' = choice
  BY <1>2, Steady
<1>4. todo' = <<>> /\ phase' = "rollback" /\ err' = RolledBack(FALSE)
  BY DEF Throw
<1>5. /\ err' \in Error /\ err'.thrown /\ err'.rolledBack /\ err'.rollbackError = FALSE
      /\ err'.toolMissing = FALSE /\ err'.restored = RestoredCount
  <2>1. err = NoError
    BY <1>1 DEF PhaseInv
  <2> QED
    BY <1>1, <1>4, <2>1, Counted DEF RolledBack, Error, NoError
<1>6. TypeOK'
  <2>1. todo' \in Seq(Step) /\ phase' \in Phases
    BY <1>4, NothingFirst DEF Phases
  <2> QED
    BY <1>1, <1>2, <1>3, <1>5, <2>1 DEF TypeOK
<1>7. mode \in Existing /\ session = "open" /\ ~err.rollbackError
  BY <1>1 DEF PhaseInv, NoError
<1>8. PhaseInv'
  BY <1>1, <1>2, <1>3, <1>4, <1>5, <1>7 DEF PhaseInv, Existing
<1>9. BeforeInv' /\ ManifestInv' /\ \A p : Covered(p)' <=> Covered(p)
  BY <1>1, <1>2, SameBefore, SameManifest
<1>10. DiskInv'
  <2>1. ASSUME NEW p \in Paths PROVE Covered(p)' \/ disk'[p] = before'[p]
    BY <1>1, <1>2, <1>7, <1>9 DEF DiskInv
  <2>2. disk'["staging"] = before'["staging"] /\ disk'["target"] = before'["target"]
    BY <1>1, <1>2, <1>7, NotRecorded, Places DEF DiskInv
  <2> QED
    BY <1>4, <2>1, <2>2 DEF DiskInv
<1>11. AfterInv'
  <2> SUFFICES ASSUME err'.restored = 0
               PROVE  disk'["lockfile"] = before'["lockfile"] /\ \A i \in DOMAIN manifest' : manifest'[i].kind # "file"
    BY <1>4 DEF AfterInv
  <2>1. /\ \A i \in DOMAIN manifest : manifest[i].kind # "file"
        /\ ~Recorded("package.json") /\ ~Recorded("lockfile")
    BY <1>1, <1>5, CountedNone DEF Files
  <2> QED
    BY <1>2, <2>1, LockfileUnwritten
<1>12. ProgramInv'
  BY <1>4 DEF ProgramInv
<1> QED
  BY <1>4, <1>6, <1>8, <1>9, <1>10, <1>11, <1>12, StillAlive DEF Alive

LEMMA AdvanceInApply ==
  ASSUME Inv, phase = "apply", ~err.thrown, todo # <<>>, NEW s, s = Head(todo), s.do # "commit",
         Advance, Untouched, session' = session,
         "backup" \in litter', litter' \subseteq {"backup", "temp"},
         "temp" \in litter' => s.do # "unstage" /\ ("temp" \in litter \/ s.do = "stage"),
         disk' \in [Paths -> Contents],
         \A p \in Paths : disk'[p] = IF p \in Writes(s) THEN (IF p \in Files THEN "new" ELSE s.to) ELSE disk[p],
         manifest' \in Seq(Entry), backup' \in [Paths -> Contents], ManifestInv',
         \A p \in Paths : Recorded(p) => Recorded(p)',
         \A p \in Records(s) : Covered(p)',
         \A i \in DOMAIN manifest' : (i \in DOMAIN manifest /\ manifest'[i] = manifest[i]) \/ manifest'[i].path \in Records(s)
  PROVE  Inv'
<1>1. TypeOK /\ BeforeInv /\ PhaseInv /\ DiskInv /\ ManifestInv
  BY Alive2 DEF Alive
<1>2. /\ UNCHANGED setupVars /\ before' = before /\ report' = report /\ exitCode' = exitCode
      /\ interrupted' = interrupted /\ edits' = edits
  BY DEF Untouched, endVars
<1>3. mode' = mode /\ manual' = manual /\ choice' = choice
  BY <1>2, Steady
<1>4. todo' = Tail(todo) /\ phase' = phase /\ err' = err
  BY DEF Advance
<1>5. todo' \in Seq(Step)
  BY <1>1, <1>4, TailOf DEF TypeOK
<1>6. TypeOK'
  BY <1>1, <1>2, <1>3, <1>4, <1>5 DEF TypeOK
<1>7. mode \in Existing /\ session = "open" /\ ~err.rollbackError
  BY <1>1 DEF PhaseInv, NoError
<1>8. PhaseInv'
  BY <1>1, <1>2, <1>3, <1>4, <1>7 DEF PhaseInv, Existing
<1>9. BeforeInv'
  BY <1>1, <1>2, SameBefore
<1>10. DiskInv'
  <2>1. \A p \in Paths : Covered(p) => Covered(p)'
    BY <1>2 DEF Covered
  <2>2. ASSUME NEW p \in Paths PROVE Covered(p) \/ disk'[p] = disk[p]
    BY <2>2, CoveredNow
  <2>3. ASSUME NEW p \in Paths PROVE Covered(p)' \/ disk'[p] = before'[p]
    BY <1>1, <1>2, <1>7, <2>1, <2>2 DEF DiskInv
  <2>4. disk'["staging"] = before'["staging"] /\ disk'["target"] = before'["target"]
    BY <1>1, <1>2, <1>7, <2>2, NotRecorded, Places DEF DiskInv
  <2> QED
    BY <1>4, <2>3, <2>4 DEF DiskInv
<1>11. ProgramInv' /\ AfterInv'
  <2>1. s.do # "promote"
    BY StepsOfPhase DEF Running
  <2>2. \A f \in Files : disk'[f] = IF f \in Writes(s) THEN "new" ELSE disk[f]
    BY Places
  <2>3. disk'[Tree] = IF Makes(s) THEN s.to ELSE disk[Tree]
    BY Trees3, Places DEF Makes
  <2> QED
    BY <1>2, <1>4, <2>1, <2>2, <2>3, StepDone
<1>12. Alive'
  BY <1>4 DEF Alive
<1> QED
  BY <1>6, <1>8, <1>9, <1>10, <1>11, <1>12, StillAlive

(* A step that writes no path: what it hides.                              *)
LEMMA WritesNothing ==
  ASSUME NEW s, s.do \notin {"write", "copy", "strip", "rename", "add"}
  PROVE  Writes(s) = {}
BY WhatStepsDo

LEMMA RecordsNothing ==
  ASSUME NEW s, s.do \notin {"recordFile", "recordIfPresent", "recordDir"}
  PROVE  Records(s) = {}
BY WhatStepsDo

(* An entry is pushed.                                                     *)
LEMMA Recording ==
  ASSUME TypeOK, ManifestInv, NEW e \in Entry, ~Recorded(e.path), manifest' = Append(manifest, e), before' = before,
         \A p \in Paths : p # e.path => backup'[p] = backup[p],
         e.kind = "file" => e.path \in Files /\ backup'[e.path] = before[e.path],
         e.kind = "dir" => /\ e.path \in {"widget", "apps/mobile"}
                           /\ before[e.path] = (IF e.existed THEN "empty" ELSE "absent")
  PROVE  /\ manifest' \in Seq(Entry) /\ ManifestInv' /\ Recorded(e.path)'
         /\ \A p \in Paths : Recorded(p) => Recorded(p)'
         /\ \A i \in DOMAIN manifest' : (i \in DOMAIN manifest /\ manifest'[i] = manifest[i]) \/ manifest'[i].path = e.path
<1>1. PICK n : n = Len(manifest)
  OBVIOUS
<1>2. manifest \in Seq(Entry) /\ n \in Nat /\ DOMAIN manifest = 1..n
  BY <1>1 DEF TypeOK
<1>3. /\ manifest' \in Seq(Entry) /\ DOMAIN manifest' = 1..(n + 1) /\ manifest'[n + 1] = e
      /\ \A i \in 1..n : manifest'[i] = manifest[i]
  BY <1>1, <1>2
<1>4. \A i \in 1..n : manifest[i].path # e.path /\ manifest[i] \in Entry
  BY <1>2 DEF Recorded
<1>5. ASSUME NEW i \in DOMAIN manifest'
      PROVE  /\ manifest'[i].kind = "file" =>
                  manifest'[i].path \in Files /\ backup'[manifest'[i].path] = before'[manifest'[i].path]
             /\ manifest'[i].kind = "dir" =>
                  /\ manifest'[i].path \in {"widget", "apps/mobile"}
                  /\ before'[manifest'[i].path] = (IF manifest'[i].existed THEN "empty" ELSE "absent")
  <2>1. CASE i = n + 1
    BY <1>3, <2>1
  <2>2. CASE i # n + 1
    <3>1. i \in 1..n /\ manifest'[i] = manifest[i] /\ manifest[i].path # e.path /\ manifest[i].path \in Paths
      BY <1>2, <1>3, <1>4, <1>5, <2>2 DEF Entry
    <3> QED
      BY <1>2, <3>1 DEF ManifestInv
  <2> QED
    BY <2>1, <2>2
<1>6. ASSUME NEW i \in DOMAIN manifest', NEW j \in DOMAIN manifest', manifest'[i].path = manifest'[j].path PROVE i = j
  <2>1. CASE i = n + 1 /\ j # n + 1
    BY <1>2, <1>3, <1>4, <1>6, <2>1
  <2>2. CASE i # n + 1 /\ j = n + 1
    BY <1>2, <1>3, <1>4, <1>6, <2>2
  <2>3. CASE i # n + 1 /\ j # n + 1
    <3>1. i \in 1..n /\ j \in 1..n /\ manifest[i].path = manifest[j].path
      BY <1>2, <1>3, <1>6, <2>3
    <3> QED
      BY <1>2, <3>1 DEF ManifestInv
  <2> QED
    BY <2>1, <2>2, <2>3
<1>7. ManifestInv'
  BY <1>5, <1>6 DEF ManifestInv
<1>8. \A p \in Paths : Recorded(p) => Recorded(p)'
  <2>1. ASSUME NEW i \in DOMAIN manifest PROVE i \in DOMAIN manifest' /\ manifest'[i] = manifest[i]
    BY <1>2, <1>3
  <2> QED
    BY <2>1 DEF Recorded
<1>9. Recorded(e.path)'
  <2>1. n + 1 \in DOMAIN manifest'
    BY <1>2, <1>3
  <2> QED
    BY <1>3, <2>1 DEF Recorded
<1>10. ASSUME NEW i \in DOMAIN manifest'
       PROVE  (i \in DOMAIN manifest /\ manifest'[i] = manifest[i]) \/ manifest'[i].path = e.path
  <2>1. i = n + 1 \/ i \in 1..n
    BY <1>2, <1>3, <1>10
  <2> QED
    BY <1>2, <1>3, <2>1
<1> QED
  BY <1>3, <1>7, <1>8, <1>9, <1>10

-----------------------------------------------------------------------------
(* The steps of an apply.                                                  *)

LEMMA RecordFileKeeps ==
  ASSUME Inv, RecordFile
  PROVE  Inv'
<1>1. /\ Running /\ todo # <<>> /\ Head(todo).do \in {"recordFile", "recordIfPresent"}
      /\ disk' = disk /\ session' = session /\ litter' = litter /\ Untouched
  BY DEF RecordFile, Doing
<1>2. PICK s : s = Head(todo)
  OBVIOUS
<1>3. s \in Step /\ phase = "apply" /\ ~err.thrown
  BY <1>1, <1>2, StepsOfPhase
<1>4. TypeOK /\ PhaseInv /\ ManifestInv /\ DiskInv
  BY <1>3, Alive2 DEF Alive
<1>5. mode \in Existing /\ "backup" \in litter /\ litter \subseteq {"backup", "temp"} /\ ~err.rollbackError
  BY <1>3, <1>4 DEF PhaseInv, TypeOK, NoError
<1>6. before' = before
  BY <1>1 DEF Untouched
<1>7. /\ StepOK(s) /\ ProgramOK(Program) /\ Lockfile /\ Done \in Nat /\ Done + 1 \in 1..Len(Program)
      /\ s = Program[Done + 1] /\ Len(Program) \in Nat
  BY <1>1, <1>2, <1>3, AtProgram
<1>8. /\ At = s.at /\ s.at \in Files /\ s.at \in Paths /\ Records(s) = {s.at} /\ Writes(s) = {}
      /\ s.do \in {"recordFile", "recordIfPresent"}
  <2>1. s.at \in Files
    BY <1>1, <1>2, <1>7, Places DEF StepOK
  <2> QED
    BY <1>1, <1>2, <2>1, Places, WritesNothing DEF At, Records, RecordSteps
<1>9. CASE Throw(FALSE) /\ UNCHANGED <<manifest, backup>>
  BY <1>1, <1>3, <1>4, <1>5, <1>9, ThrowInApply DEF TypeOK
<1>10. CASE /\ Recorded(At) \/ (Head(todo).do = "recordIfPresent" /\ Missing(At))
            /\ Advance /\ UNCHANGED <<manifest, backup>>
  <2>1. ManifestInv' /\ \A p : (Recorded(p)' <=> Recorded(p)) /\ (Covered(p)' <=> Covered(p))
    BY <1>4, <1>6, <1>10, SameManifest
  <2>2. Covered(s.at)
    <3>1. CASE Recorded(s.at)
      BY <3>1 DEF Covered
    <3>2. CASE ~Recorded(s.at)
      <4>1. s.at = "lockfile" /\ disk[s.at] = "absent"
        BY <1>2, <1>7, <1>8, <1>10, <3>2 DEF Missing, StepOK
      <4> QED
        BY <1>4, <1>5, <1>8, <4>1 DEF DiskInv, Covered
    <3> QED
      BY <3>1, <3>2
  <2> QED
    BY <1>1, <1>2, <1>3, <1>4, <1>5, <1>8, <1>10, <2>1, <2>2, AdvanceInApply DEF TypeOK
<1>11. CASE /\ ~Recorded(At) /\ (Head(todo).do = "recordIfPresent" => ~Missing(At))
            /\ backup' = [backup EXCEPT ![At] = disk[At]]
            /\ manifest' = Append(manifest, [kind |-> "file", path |-> At, existed |-> ~Missing(At)])
            /\ Advance
  <2>1. PICK e : e = [kind |-> "file", path |-> s.at, existed |-> ~Missing(s.at)]
    OBVIOUS
  <2>2. e \in Entry /\ e.kind = "file" /\ e.path = s.at
    BY <1>8, <2>1 DEF Entry
  <2>3. manifest' = Append(manifest, e) /\ ~Recorded(e.path)
    BY <1>8, <1>11, <2>1, <2>2
  <2>4. disk[s.at] = before[s.at]
    <3>1. CASE s.at = "lockfile"
      <4>1. s.do = "recordIfPresent"
        BY <1>7, <1>8, <3>1 DEF StepOK
      <4>2. \A j \in 1..Done : "lockfile" \notin Writes(Program[j])
        BY <1>7, <4>1 DEF ProgramOK, LooksFirst
      <4> QED
        BY <1>7, <1>8, <1>11, <3>1, <4>2 DEF Lockfile
    <3>2. CASE s.at # "lockfile"
      BY <1>4, <1>5, <1>8, <1>11, <3>2 DEF DiskInv, Covered
    <3> QED
      BY <3>1, <3>2
  <2>5. backup' \in [Paths -> Contents] /\ backup'[s.at] = before[s.at] /\ \A p \in Paths : p # s.at => backup'[p] = backup[p]
    BY <1>4, <1>8, <1>11, <2>4 DEF TypeOK
  <2>6. /\ manifest' \in Seq(Entry) /\ ManifestInv' /\ Recorded(s.at)'
        /\ \A p \in Paths : Recorded(p) => Recorded(p)'
        /\ \A i \in DOMAIN manifest' : (i \in DOMAIN manifest /\ manifest'[i] = manifest[i]) \/ manifest'[i].path = s.at
    BY <1>4, <1>6, <1>8, <2>2, <2>3, <2>5, Recording
  <2>7. \A p \in Records(s) : Covered(p)'
    BY <1>8, <2>6 DEF Covered
  <2> QED
    BY <1>1, <1>2, <1>3, <1>4, <1>5, <1>8, <1>11, <2>5, <2>6, <2>7, AdvanceInApply DEF TypeOK
<1> QED
  BY <1>9, <1>10, <1>11 DEF RecordFile

LEMMA RecordDirKeeps ==
  ASSUME Inv, RecordDir
  PROVE  Inv'
<1>1. /\ Running /\ todo # <<>> /\ Head(todo).do = "recordDir"
      /\ disk' = disk /\ session' = session /\ backup' = backup /\ Untouched
  BY DEF RecordDir, Doing
<1>2. PICK s : s = Head(todo)
  OBVIOUS
<1>3. s \in Step /\ phase = "apply" /\ ~err.thrown /\ s.do = "recordDir"
  BY <1>1, <1>2, StepsOfPhase
<1>4. TypeOK /\ PhaseInv /\ ManifestInv /\ DiskInv
  BY <1>3, Alive2 DEF Alive
<1>5. mode \in Existing /\ "backup" \in litter /\ litter \subseteq {"backup", "temp"} /\ ~err.rollbackError
  BY <1>3, <1>4 DEF PhaseInv, TypeOK, NoError
<1>6. before' = before
  BY <1>1 DEF Untouched
<1>7. StepOK(s)
  BY <1>1, <1>2, <1>3, AtProgram
<1>8. /\ At = s.at /\ s.at = Tree /\ s.at \in {"widget", "apps/mobile"} /\ s.at \in Paths /\ Writes(s) = {}
      /\ \A p : p \in Records(s) <=> p = s.at
  BY <1>2, <1>3, <1>5, <1>7, Trees3, Places, WritesNothing, WhatStepsDo DEF At, StepOK
<1>9. /\ "backup" \in litter' /\ litter' \subseteq {"backup", "temp"}
      /\ err' = err => litter' = litter
  BY <1>5 DEF RecordDir, Unwind
<1>10. CASE Throw(FALSE) /\ UNCHANGED manifest
  BY <1>1, <1>3, <1>4, <1>9, <1>10, ThrowInApply DEF TypeOK
<1>11. CASE Vacant(At) /\ ~Recorded(At) /\ Advance
            /\ manifest' = Append(manifest, [kind |-> "dir", path |-> At, existed |-> ~Missing(At)])
  <2>1. PICK e : e = [kind |-> "dir", path |-> s.at, existed |-> ~Missing(s.at)]
    OBVIOUS
  <2>2. e \in Entry /\ e.kind = "dir" /\ e.path = s.at /\ e.existed = (disk[s.at] # "absent")
    BY <1>8, <2>1 DEF Entry, Missing
  <2>3. manifest' = Append(manifest, e) /\ ~Recorded(e.path) /\ disk[s.at] \in {"absent", "empty"}
    BY <1>8, <1>11, <2>1, <2>2 DEF Vacant
  <2>4. disk[s.at] = before[s.at]
    BY <1>4, <1>5, <1>8, <2>2, <2>3 DEF DiskInv, Covered
  <2>5. before[e.path] = (IF e.existed THEN "empty" ELSE "absent")
    BY <2>2, <2>3, <2>4
  <2>6. /\ manifest' \in Seq(Entry) /\ ManifestInv' /\ Recorded(s.at)'
        /\ \A p \in Paths : Recorded(p) => Recorded(p)'
        /\ \A i \in DOMAIN manifest' : (i \in DOMAIN manifest /\ manifest'[i] = manifest[i]) \/ manifest'[i].path = s.at
    BY <1>1, <1>4, <1>6, <1>8, <2>2, <2>3, <2>5, Recording
  <2>7. \A p \in Records(s) : Covered(p)'
    BY <1>8, <2>6 DEF Covered
  <2>8. litter' = litter
    BY <1>9, <1>11 DEF Advance
  <2> QED
    BY <1>1, <1>2, <1>3, <1>4, <1>5, <1>8, <1>11, <2>6, <2>7, <2>8, AdvanceInApply DEF TypeOK
<1>12. CASE Recorded(At) /\ Advance /\ manifest' = manifest
  <2>1. ManifestInv' /\ \A p : (Recorded(p)' <=> Recorded(p)) /\ (Covered(p)' <=> Covered(p))
    BY <1>1, <1>4, <1>6, <1>12, SameManifest
  <2>2. Covered(s.at)
    BY <1>8, <1>12 DEF Covered
  <2>3. litter' = litter
    BY <1>9, <1>12 DEF Advance
  <2> QED
    BY <1>1, <1>2, <1>3, <1>4, <1>5, <1>8, <1>12, <2>1, <2>2, <2>3, AdvanceInApply DEF TypeOK
<1> QED
  BY <1>10, <1>11, <1>12 DEF RecordDir

(* A step of an apply that leaves the manifest and the disk alone.         *)
LEMMA PlainAdvance ==
  ASSUME Inv, phase = "apply", ~err.thrown, todo # <<>>, Head(todo).do \in {"stage", "unstage", "decide"},
         Advance, Untouched, UNCHANGED <<disk, session, manifest, backup>>,
         "backup" \in litter', litter' \subseteq {"backup", "temp"},
         "temp" \in litter' => Head(todo).do # "unstage" /\ ("temp" \in litter \/ Head(todo).do = "stage")
  PROVE  Inv'
<1>1. TypeOK /\ ManifestInv
  BY Alive2 DEF Alive
<1>2. before' = before
  BY DEF Untouched
<1>3. ManifestInv' /\ \A p : (Recorded(p)' <=> Recorded(p))
  BY <1>1, <1>2, SameManifest
<1>4. PICK s : s = Head(todo)
  OBVIOUS
<1>5. Writes(s) = {} /\ Records(s) = {}
  BY <1>4, WritesNothing, RecordsNothing
<1> QED
  BY <1>1, <1>3, <1>4, <1>5, AdvanceInApply DEF TypeOK

LEMMA StageKeeps ==
  ASSUME Inv, Stage
  PROVE  Inv'
<1>1. /\ Running /\ todo # <<>> /\ Head(todo).do = "stage" /\ Untouched
      /\ UNCHANGED <<disk, session, manifest, backup>>
  BY DEF Stage, Doing
<1>2. phase = "apply" /\ ~err.thrown
  BY <1>1, StepsOfPhase
<1>3. TypeOK /\ PhaseInv
  BY <1>2, Alive2 DEF Alive
<1>4. "backup" \in litter' /\ litter' \subseteq {"backup", "temp"}
  BY <1>2, <1>3 DEF Stage, PhaseInv, TypeOK
<1>5. CASE Advance
  BY <1>1, <1>2, <1>4, <1>5, PlainAdvance
<1>6. CASE Throw(FALSE)
  BY <1>1, <1>2, <1>3, <1>4, <1>6, ThrowInApply DEF TypeOK
<1> QED
  BY <1>5, <1>6 DEF Stage

LEMMA UnstageKeeps ==
  ASSUME Inv, Unstage
  PROVE  Inv'
<1>1. /\ Running /\ todo # <<>> /\ Head(todo).do = "unstage" /\ Untouched
      /\ UNCHANGED <<disk, session, manifest, backup>>
  BY DEF Unstage, Doing
<1>2. phase = "apply" /\ ~err.thrown
  BY <1>1, StepsOfPhase
<1>3. TypeOK /\ PhaseInv
  BY <1>2, Alive2 DEF Alive
<1>4. "backup" \in litter' /\ litter' \subseteq {"backup", "temp"}
  BY <1>2, <1>3 DEF Unstage, PhaseInv, TypeOK
<1>5. CASE litter' = litter \ {"temp"} /\ Advance
  BY <1>1, <1>2, <1>4, <1>5, PlainAdvance
<1>6. CASE UNCHANGED litter /\ Throw(FALSE)
  BY <1>1, <1>2, <1>3, <1>4, <1>6, ThrowInApply DEF TypeOK
<1> QED
  BY <1>5, <1>6 DEF Unstage

LEMMA LastTwo ==
  ASSUME NEW q \in Seq(Step), Len(q) > 2, NEW r, r = SubSeq(q, Len(q) - 1, Len(q))
  PROVE  /\ r \in Seq(Step) /\ Len(r) = 2 /\ r # <<>>
         /\ r[1] = q[Len(q) - 1] /\ r[2] = q[Len(q)]
<1>1. PICK n \in Nat : n = Len(q) /\ n > 2
  OBVIOUS
<1>2. \A i \in (n - 1)..n : q[i] \in Step
  BY <1>1
<1>3. Len(r) = 2 /\ r \in Seq(Step)
  BY <1>1, <1>2
<1>4. r[1] = q[n - 1] /\ r[2] = q[n]
  BY <1>1
<1>5. Len(r) # 0
  BY <1>3
<1>6. r # <<>>
  BY <1>5, NothingFirst, Zenon
<1> QED
  BY <1>1, <1>3, <1>4, <1>6

(* A widget that is the user's: the cleanup and the commit are left.       *)
LEMMA DecideKeeps ==
  ASSUME Inv, Decide
  PROVE  Inv'
<1>1. /\ Running /\ todo # <<>> /\ Head(todo).do = "decide" /\ Untouched
      /\ UNCHANGED <<phase, err, disk, sessionVars>>
      /\ UNCHANGED <<session, manifest, backup, litter>>
  BY DEF Decide, Doing, sessionVars
<1>2. phase = "apply" /\ ~err.thrown
  BY <1>1, StepsOfPhase
<1>3. TypeOK /\ BeforeInv /\ PhaseInv /\ ManifestInv /\ DiskInv
  BY <1>2, Alive2 DEF Alive
<1>4. /\ "backup" \in litter /\ litter \subseteq {"backup", "temp"}
      /\ mode \in Existing /\ session = "open" /\ ~err.rollbackError
  BY <1>2, <1>3 DEF PhaseInv, TypeOK, NoError
<1>5. CASE Vacant(At)
  <2>1. Advance
    BY <1>1, <1>5 DEF Decide, Advance
  <2> QED
    BY <1>1, <1>2, <1>4, <2>1, PlainAdvance
<1>6. CASE ~Vacant(At)
  <2>1. /\ ProgramOK(Program) /\ Following /\ FilesDone /\ RecordsDone /\ TempLeft /\ Lockfile
        /\ Done \in Nat /\ Done + 1 \in 1..Len(Program) /\ Head(todo) = Program[Done + 1] /\ StepOK(Head(todo))
        /\ Len(todo) = Len(Program) - Done /\ Len(Program) \in Nat /\ Len(todo) \in Nat
    BY <1>1, <1>2, AtProgram
  <2>2. PICK P, d : P = Program /\ d = Done
    OBVIOUS
  <2>3. mode = "existing-expo" /\ At = "widget" /\ Head(todo).at = "widget"
    BY <1>1, <2>1 DEF StepOK, At
  <2>4. /\ d \in Nat /\ Len(P) \in Nat /\ d + 1 < Len(P) - 1 /\ P[Len(P) - 1].do = "unstage" /\ d + 1 \in 1..Len(P)
        /\ \A j \in (d + 1)..Len(P) : (Writes(P[j]) \cup Records(P[j])) \cap Files = {}
        /\ \A j \in 1..(d + 1) : Records(P[j]) \subseteq Files
    BY <1>1, <2>1, <2>2, <2>3 DEF ProgramOK, Decides
  <2>5. Len(todo) = Len(P) - d /\ Len(todo) > 2 /\ \A i \in 1..Len(todo) : todo[i] = P[d + i]
    BY <2>1, <2>2, <2>4 DEF Following
  <2>6. /\ todo' \in Seq(Step) /\ Len(todo') = 2 /\ todo' # <<>>
        /\ todo'[1] = todo[Len(todo) - 1] /\ todo'[2] = todo[Len(todo)]
    <3>1. todo' = SubSeq(todo, Len(todo) - 1, Len(todo)) /\ todo \in Seq(Step)
      BY <1>3, <1>6 DEF Decide, TypeOK
    <3> QED
      BY <2>5, <3>1, LastTwo
  <2>7. todo'[1] = P[Len(P) - 1] /\ todo'[2] = P[Len(P)]
    <3>1. /\ Len(todo) - 1 \in 1..Len(todo) /\ Len(todo) \in 1..Len(todo)
          /\ d + (Len(todo) - 1) = Len(P) - 1 /\ d + Len(todo) = Len(P)
      BY <2>4, <2>5
    <3> QED
      BY <2>5, <2>6, <3>1
  <2>8. disk["widget"] = "users"
    <3>1. "widget" \notin Files
      BY DEF Files
    <3>2. ~Recorded("widget")
      <4>1. SUFFICES ASSUME NEW i \in DOMAIN manifest, manifest[i].path = "widget" PROVE FALSE
        BY DEF Recorded
      <4>2. PICK j \in 1..d : manifest[i].path \in Records(P[j])
        BY <2>1, <2>2 DEF RecordsDone
      <4>3. j \in 1..(d + 1)
        BY <2>4
      <4> QED
        BY <2>4, <3>1, <4>1, <4>2, <4>3
    <3>3. disk["widget"] = before["widget"]
      BY <1>3, <1>4, <3>2, Places DEF DiskInv, Covered
    <3> QED
      BY <1>3, <1>6, <2>3, <3>3, Places DEF Vacant, BeforeInv
  <2>9. /\ UNCHANGED setupVars /\ before' = before /\ report' = report /\ exitCode' = exitCode
        /\ interrupted' = interrupted /\ edits' = edits
    BY <1>1 DEF Untouched, endVars
  <2>10. mode' = mode /\ manual' = manual /\ choice' = choice /\ Program' = P
    BY <2>2, <2>9, Steady
  <2>11. TypeOK'
    BY <1>1, <1>3, <2>6, <2>9, <2>10 DEF TypeOK
  <2>12. PhaseInv'
    BY <1>1, <1>2, <1>3, <1>4, <2>9, <2>10 DEF PhaseInv, Existing
  <2>13. BeforeInv' /\ ManifestInv' /\ \A p : (Recorded(p)' <=> Recorded(p)) /\ (Covered(p)' <=> Covered(p))
    BY <1>1, <1>3, <2>9, SameBefore, SameManifest
  <2>14. DiskInv'
    BY <1>1, <1>2, <1>3, <1>4, <2>9, <2>10, <2>13 DEF DiskInv
  <2>15. Done' = Len(P) - 2
    BY <2>6, <2>10 DEF Done
  <2>16. Following'
    <3>1. ASSUME NEW i \in 1..2 PROVE todo'[i] = P[Len(P) - 2 + i]
      <4>1. CASE i = 1
        <5>1. Len(P) - 2 + 1 = Len(P) - 1
          BY <2>4
        <5> QED
          BY <2>7, <4>1, <5>1
      <4>2. CASE i = 2
        <5>1. Len(P) - 2 + 2 = Len(P)
          BY <2>4
        <5> QED
          BY <2>7, <4>2, <5>1
      <4> QED
        BY <4>1, <4>2
    <3>2. 2 <= Len(P)
      BY <2>4
    <3> QED
      BY <2>6, <2>10, <2>15, <3>1, <3>2 DEF Following
  <2>17. FilesDone'
    <3>1. ASSUME NEW i \in 1..(Len(P) - 2), NEW f \in Files
          PROVE  /\ f \in Records(P[i]) => Covered(f)
                 /\ f \in Writes(P[i]) => disk[f] = "new"
      <4>1. CASE i \in 1..d
        BY <2>1, <2>2, <4>1 DEF FilesDone
      <4>2. CASE i \notin 1..d
        <5>1. i \in (d + 1)..Len(P)
          BY <2>4, <4>2
        <5> QED
          BY <2>4, <5>1
      <4> QED
        BY <4>1, <4>2
    <3> QED
      BY <1>1, <2>10, <2>13, <2>15, <3>1 DEF FilesDone
  <2>18. 1..d \subseteq 1..(Len(P) - 2)
    BY <2>4
  <2>19. RecordsDone'
    <3>1. ASSUME NEW i \in DOMAIN manifest PROVE \E j \in 1..(Len(P) - 2) : manifest[i].path \in Records(P[j])
      BY <2>1, <2>2, <2>18 DEF RecordsDone
    <3> QED
      BY <1>1, <2>10, <2>15, <3>1 DEF RecordsDone
  <2>20. TempLeft'
    <3>1. Len(P) - 1 \in (Len(P) - 2 + 1)..Len(P)
      BY <2>4
    <3> QED
      BY <2>4, <2>10, <2>15, <3>1 DEF TempLeft
  <2>21. Lockfile'
    <3>1. (~Recorded("lockfile") /\ disk["lockfile"] # before["lockfile"]) =>
            \E i \in 1..(Len(P) - 2) : "lockfile" \in Writes(P[i])
      BY <2>1, <2>2, <2>18 DEF Lockfile
    <3> QED
      BY <1>1, <2>9, <2>10, <2>13, <2>15, <3>1 DEF Lockfile
  <2>22. TreeDone'
    BY <1>1, <2>3, <2>6, <2>8, <2>10 DEF TreeDone, Left
  <2>23. ProgramInv' /\ AfterInv' /\ Alive'
    BY <1>1, <1>2, <2>6, <2>16, <2>17, <2>19, <2>20, <2>21, <2>22 DEF ProgramInv, AfterInv, Alive
  <2> QED
    BY <2>11, <2>12, <2>13, <2>14, <2>23, StillAlive
<1> QED
  BY <1>5, <1>6

LEMMA AddPackagesKeeps ==
  ASSUME Inv, AddPackages
  PROVE  Inv'
<1>1. /\ Running /\ todo # <<>> /\ Head(todo).do = "add" /\ Untouched
      /\ UNCHANGED <<session, manifest, backup, litter>>
  BY DEF AddPackages, Doing, sessionVars
<1>2. PICK s : s = Head(todo)
  OBVIOUS
<1>3. phase = "apply" /\ ~err.thrown /\ s.do = "add"
  BY <1>1, <1>2, StepsOfPhase
<1>4. TypeOK /\ PhaseInv /\ ManifestInv
  BY <1>3, Alive2 DEF Alive
<1>5. "backup" \in litter /\ litter \subseteq {"backup", "temp"}
  BY <1>3, <1>4 DEF PhaseInv, TypeOK
<1>6. /\ \A p : p \in Writes(s) <=> p \in {"package.json", "lockfile"}
      /\ Records(s) = {}
  BY <1>3, WhatStepsDo, RecordsNothing
<1>7. before' = before
  BY <1>1 DEF Untouched
<1>8. ManifestInv' /\ \A p : (Recorded(p)' <=> Recorded(p))
  BY <1>1, <1>4, <1>7, SameManifest
<1>9. CASE disk' = [disk EXCEPT !["package.json"] = "new", !["lockfile"] = "new"] /\ Advance
  <2>1. disk' \in [Paths -> Contents]
    BY <1>4, <1>9, Places DEF TypeOK, Contents
  <2>2. \A p \in Paths : disk'[p] = IF p \in Writes(s) THEN (IF p \in Files THEN "new" ELSE s.to) ELSE disk[p]
    BY <1>4, <1>6, <1>9, Places DEF TypeOK
  <2> QED
    BY <1>1, <1>2, <1>3, <1>4, <1>5, <1>6, <1>8, <1>9, <2>1, <2>2, AdvanceInApply DEF TypeOK
<1>10. CASE /\ \E p \in {disk["package.json"], "torn", "new"}, l \in {disk["lockfile"], "torn", "new"} :
                disk' = [disk EXCEPT !["package.json"] = p, !["lockfile"] = l]
            /\ Throw(FALSE)
  <2>1. PICK p \in {disk["package.json"], "torn", "new"}, l \in {disk["lockfile"], "torn", "new"} :
          disk' = [disk EXCEPT !["package.json"] = p, !["lockfile"] = l]
    BY <1>10
  <2>2. p \in Contents /\ l \in Contents
    BY <1>4, Places DEF TypeOK, Contents
  <2>3. disk' \in [Paths -> Contents]
    BY <1>4, <2>1, <2>2 DEF TypeOK
  <2>4. \A x \in Paths : x \notin {"package.json", "lockfile"} => disk'[x] = disk[x]
    BY <1>4, <2>1 DEF TypeOK
  <2>5. Covered("package.json") /\ Covered("lockfile")
    BY <1>1, <1>2, <1>3, <1>6, CoveredNow
  <2>6. \A x \in Paths : Covered(x) \/ disk'[x] = disk[x]
    BY <2>4, <2>5
  <2>7. Recorded("package.json")
    BY <2>5 DEF Covered
  <2> QED
    BY <1>1, <1>3, <1>5, <1>10, <2>3, <2>6, <2>7, ThrowInApply
<1> QED
  BY <1>9, <1>10 DEF AddPackages

-----------------------------------------------------------------------------
(* Steps outside of an apply.                                              *)

LEMMA ThrowOutside ==
  ASSUME Inv, phase \in {"build", "after"}, ~err.thrown, todo # <<>>, NEW missing \in BOOLEAN, Throw(missing), Untouched,
         UNCHANGED <<session, manifest, backup, litter>>,
         disk' \in [Paths -> Contents], \A p \in Paths : disk'[p] = disk[p] \/ (p = "staging" /\ phase = "build")
  PROVE  Inv'
<1>1. TypeOK /\ BeforeInv /\ PhaseInv /\ ManifestInv /\ DiskInv
  BY Alive2 DEF Alive
<1>2. /\ UNCHANGED setupVars /\ before' = before /\ report' = report /\ exitCode' = exitCode
      /\ interrupted' = interrupted /\ edits' = edits
  BY DEF Untouched, endVars
<1>3. mode' = mode /\ manual' = manual /\ choice' = choice
  BY <1>2, Steady
<1>4. /\ todo' = <<>> /\ phase' = phase /\ err' = [err EXCEPT !.thrown = TRUE, !.toolMissing = missing]
  BY DEF Throw
<1>5. /\ err' \in Error /\ err'.thrown /\ err'.rolledBack = err.rolledBack /\ err'.rollbackError = err.rollbackError
      /\ err.rolledBack \in BOOLEAN /\ err'.restored = err.restored
  BY <1>1, <1>4 DEF Error, TypeOK
<1>6. TypeOK'
  <2>1. todo' \in Seq(Step)
    BY <1>4, NothingFirst
  <2> QED
    BY <1>1, <1>2, <1>3, <1>4, <1>5, <2>1 DEF TypeOK
<1>14. phase = "after" => session = "committed" /\ ~err.rolledBack
  BY <1>1 DEF PhaseInv, TypeOK
<1>7. PhaseInv'
  BY <1>1, <1>2, <1>3, <1>4, <1>5, <1>14 DEF PhaseInv, Existing
<1>8. BeforeInv' /\ ManifestInv' /\ \A p : Covered(p)' <=> Covered(p)
  BY <1>1, <1>2, SameBefore, SameManifest
<1>9. DiskInv'
  <2>1. CASE phase = "build"
    <3>1. mode \notin Existing
      BY <1>1, <2>1 DEF PhaseInv, Existing
    <3>2. disk'["target"] = disk["target"] /\ disk["target"] = before["target"]
      BY <1>1, <2>1, Places DEF DiskInv
    <3> QED
      BY <1>1, <1>2, <1>3, <1>4, <2>1, <3>1, <3>2 DEF DiskInv
  <2>2. CASE phase = "after"
    <3>1. \A p \in Paths : disk'[p] = disk[p]
      BY <2>2
    <3> QED
      BY <1>1, <1>2, <1>3, <1>4, <1>5, <1>8, <2>2, <3>1, Places DEF DiskInv
  <2> QED
    BY <2>1, <2>2
<1>10. ProgramInv' /\ Alive'
  BY <1>4, <1>5 DEF ProgramInv, Alive
<1>11. AfterInv'
  <2>1. CASE phase = "build"
    BY <1>4, <2>1 DEF AfterInv
  <2>2. CASE phase = "after"
    <3>1. /\ \A f \in Planned : disk[f] = "new"
          /\ (disk[Tree] = "new" /\ Recorded(Tree)) \/ (mode = "existing-expo" /\ disk[Tree] = "users")
      BY <1>1, <1>14, <2>2, Alive2 DEF AfterInv, Alive
    <3>2. disk' = disk
      BY <1>1, <2>2 DEF TypeOK
    <3>3. Planned' = Planned /\ Tree' = Tree /\ (Recorded(Tree)' <=> Recorded(Tree))
      BY <1>2, Steady DEF Recorded
    <3> QED
      BY <1>3, <1>4, <1>5, <1>14, <2>2, <3>1, <3>2, <3>3 DEF AfterInv
  <2> QED
    BY <2>1, <2>2
<1> QED
  BY <1>6, <1>7, <1>8, <1>9, <1>10, <1>11, StillAlive

(* A build records nothing and writes no file of the user's.               *)
LEMMA BuildSteps2 ==
  ASSUME mode = "greenfield", NEW s, StepOK(s)
  PROVE  Records(s) = {} /\ \A f \in Files : f \notin Writes(s)
<1>1. mode \notin Existing
  BY DEF Existing
<1>2. s.do \notin {"add", "write", "recordFile", "recordIfPresent", "recordDir"}
  BY <1>1 DEF StepOK, RecordSteps
<1>3. s.do \in {"copy", "strip", "rename"} => s.at \notin Files
  BY Trees3 DEF StepOK, TreeSteps
<1> QED
  BY <1>2, <1>3, WhatStepsDo, RecordsNothing

LEMMA AdvanceInBuild ==
  ASSUME Inv, phase = "build", ~err.thrown, todo # <<>>, NEW s, s = Head(todo), s.do # "promote", Advance, Untouched,
         UNCHANGED <<session, manifest, backup, litter>>,
         disk' \in [Paths -> Contents],
         \A p \in Paths : disk'[p] = IF p = "staging" /\ Makes(s) THEN s.to ELSE disk[p]
  PROVE  Inv'
<1>1. TypeOK /\ BeforeInv /\ PhaseInv /\ ManifestInv /\ DiskInv
  BY Alive2 DEF Alive
<1>2. /\ UNCHANGED setupVars /\ before' = before /\ report' = report /\ exitCode' = exitCode
      /\ interrupted' = interrupted /\ edits' = edits
  BY DEF Untouched, endVars
<1>3. mode' = mode /\ manual' = manual /\ choice' = choice
  BY <1>2, Steady
<1>4. todo' = Tail(todo) /\ phase' = phase /\ err' = err
  BY DEF Advance
<1>5. todo' \in Seq(Step)
  BY <1>1, <1>4, TailOf DEF TypeOK
<1>6. TypeOK'
  BY <1>1, <1>2, <1>3, <1>4, <1>5 DEF TypeOK
<1>7. mode = "greenfield" /\ mode \notin Existing /\ session = "none" /\ litter = {}
  BY <1>1 DEF PhaseInv, Existing
<1>8. PhaseInv'
  BY <1>1, <1>2, <1>3, <1>4, <1>7 DEF PhaseInv, Existing
<1>9. BeforeInv' /\ ManifestInv' /\ \A p : Recorded(p)' <=> Recorded(p)
  BY <1>1, <1>2, SameBefore, SameManifest
<1>10. DiskInv'
  <2>1. disk'["target"] = disk["target"] /\ disk["target"] = before["target"]
    BY <1>1, Places DEF DiskInv
  <2>2. \A p \in Paths \ {"staging", "target"} : disk'[p] = before'[p]
    BY <1>1, <1>2 DEF DiskInv
  <2> QED
    BY <1>2, <1>3, <1>7, <2>1, <2>2 DEF DiskInv
<1>11. ProgramInv' /\ AfterInv'
  <2>1. StepOK(s) /\ s \in Step
    BY AtProgram
  <2>2. Records(s) = {} /\ \A f \in Files : f \notin Writes(s)
    BY <1>7, <2>1, BuildSteps2
  <2>3. s.do # "commit"
    BY StepsOfPhase DEF Running
  <2>4. \A f \in Files : disk'[f] = IF f \in Writes(s) THEN "new" ELSE disk[f]
    BY <2>2, Places
  <2>5. disk'[Tree] = IF Makes(s) THEN s.to ELSE disk[Tree]
    BY <1>7, Trees3, Places
  <2>6. "temp" \notin litter'
    BY <1>7
  <2> QED
    BY <1>2, <1>4, <1>9, <2>2, <2>3, <2>4, <2>5, <2>6, StepDone
<1>12. Alive'
  BY <1>4 DEF Alive
<1> QED
  BY <1>6, <1>8, <1>9, <1>10, <1>11, <1>12, StillAlive

(* An apply and a build write trees; an apply writes files, too.           *)
LEMMA WriteKeeps ==
  ASSUME Inv, Write
  PROVE  Inv'
<1>1. /\ Running /\ todo # <<>> /\ Head(todo).do \in {"write", "copy", "strip", "rename"} /\ Untouched
      /\ UNCHANGED <<session, manifest, backup>>
  BY DEF Write, Doing
<1>2. PICK s : s = Head(todo)
  OBVIOUS
<1>3. s \in Step /\ phase \in {"apply", "build"} /\ ~err.thrown /\ s.do \in {"write", "copy", "strip", "rename"}
  BY <1>1, <1>2, StepsOfPhase
<1>4. TypeOK /\ PhaseInv /\ ManifestInv
  BY <1>3, Alive2 DEF Alive
<1>5. StepOK(s) /\ Edited(s) = s.to
  BY <1>1, <1>2, <1>3, AtProgram, EditedNow
<1>6. At = s.at /\ s.at \in Paths /\ s.to \in Contents
  BY <1>2, <1>3 DEF At, Step
<1>7. (\A p : p \in Writes(s) <=> p = s.at) /\ Records(s) = {}
  BY <1>3, WhatStepsDo, RecordsNothing
<1>8. before' = before
  BY <1>1 DEF Untouched
<1>9. ManifestInv' /\ \A p : (Recorded(p)' <=> Recorded(p))
  BY <1>1, <1>4, <1>8, SameManifest
<1>10. CASE disk' = [disk EXCEPT ![At] = Edited(Head(todo))] /\ Advance /\ UNCHANGED litter
  <2>1. disk' \in [Paths -> Contents] /\ \A p \in Paths : disk'[p] = IF p = s.at THEN s.to ELSE disk[p]
    BY <1>2, <1>4, <1>5, <1>6, <1>10 DEF TypeOK
  <2>2. CASE phase = "apply"
    <3>1. "backup" \in litter /\ litter \subseteq {"backup", "temp"}
      BY <1>4, <2>2 DEF PhaseInv, TypeOK
    <3>2. s.at \in Files => s.to = "new"
      BY <1>3, <1>5, Trees3 DEF StepOK, TreeSteps
    <3>3. \A p \in Paths : disk'[p] = IF p \in Writes(s) THEN (IF p \in Files THEN "new" ELSE s.to) ELSE disk[p]
      BY <1>7, <2>1, <3>2
    <3> QED
      BY <1>1, <1>2, <1>3, <1>4, <1>7, <1>9, <1>10, <2>1, <2>2, <3>1, <3>3, AdvanceInApply DEF TypeOK
  <2>3. CASE phase = "build"
    <3>1. mode = "greenfield" /\ mode \notin Existing
      BY <1>4, <2>3 DEF PhaseInv, Existing
    <3>2. s.at = Tree /\ Tree = "staging"
      BY <1>3, <1>5, <3>1, Trees3 DEF StepOK, TreeSteps
    <3>3. Makes(s)
      BY <1>7, <3>2 DEF Makes
    <3>4. \A p \in Paths : disk'[p] = IF p = "staging" /\ Makes(s) THEN s.to ELSE disk[p]
      BY <2>1, <3>2, <3>3
    <3> QED
      BY <1>1, <1>2, <1>3, <1>10, <2>1, <2>3, <3>4, AdvanceInBuild
  <2> QED
    BY <1>3, <2>2, <2>3
<1>11. CASE disk' \in {disk, [disk EXCEPT ![At] = "torn"]} /\ Throw(FALSE) /\ Unwind
  <2>1. disk' \in [Paths -> Contents] /\ \A p \in Paths : p # s.at => disk'[p] = disk[p]
    BY <1>4, <1>6, <1>11 DEF TypeOK, Contents
  <2>2. CASE phase = "apply"
    <3>1. "backup" \in litter' /\ litter' \subseteq {"backup", "temp"}
      BY <1>4, <1>11, <2>2 DEF PhaseInv, TypeOK, Unwind
    <3>2. Covered(s.at)
      BY <1>1, <1>2, <1>3, <1>7, <2>2, CoveredNow
    <3>3. \A p \in Paths : Covered(p) \/ disk'[p] = disk[p]
      BY <2>1, <3>2
    <3>4. disk'["lockfile"] = disk["lockfile"]
      BY <1>3, <1>5, <2>1, Trees3, Places DEF StepOK, TreeSteps
    <3> QED
      BY <1>1, <1>3, <1>11, <2>1, <2>2, <3>1, <3>3, <3>4, ThrowInApply
  <2>3. CASE phase = "build"
    <3>1. mode = "greenfield" /\ mode \notin Existing /\ litter = {}
      BY <1>4, <2>3 DEF PhaseInv, Existing
    <3>2. s.at = Tree /\ Tree = "staging"
      BY <1>3, <1>5, <3>1, Trees3 DEF StepOK, TreeSteps
    <3>3. litter' = litter
      BY <1>11, <3>1 DEF Unwind
    <3> QED
      BY <1>1, <1>3, <1>11, <2>1, <2>3, <3>2, <3>3, ThrowOutside
  <2> QED
    BY <1>3, <2>2, <2>3
<1> QED
  BY <1>10, <1>11 DEF Write

(* A tool of the toolchain runs, in a build or after an apply.             *)
LEMMA RunToolKeeps ==
  ASSUME Inv, RunTool
  PROVE  Inv'
<1>1. /\ Running /\ todo # <<>> /\ Head(todo).do \in {"need", "tool"} /\ Untouched
      /\ disk' = disk /\ UNCHANGED <<session, manifest, backup, litter>>
  BY DEF RunTool, Doing, sessionVars
<1>2. PICK s : s = Head(todo)
  OBVIOUS
<1>3. phase \in {"after", "build"} /\ ~err.thrown /\ s.do \in {"need", "tool"}
  BY <1>1, <1>2, StepsOfPhase
<1>4. TypeOK /\ BeforeInv /\ PhaseInv /\ ManifestInv /\ DiskInv /\ AfterInv
  BY <1>3, Alive2 DEF Alive
<1>5. CASE Throw(Head(todo).do = "need")
  BY <1>1, <1>3, <1>4, <1>5, ThrowOutside DEF TypeOK
<1>6. CASE Advance /\ phase = "build"
  <2>1. Writes(s) = {}
    BY <1>3, WritesNothing
  <2> QED
    BY <1>1, <1>2, <1>3, <1>4, <1>6, <2>1, AdvanceInBuild DEF TypeOK, Makes
<1>7. CASE Advance /\ phase = "after"
  <2>1. /\ UNCHANGED setupVars /\ before' = before /\ report' = report /\ exitCode' = exitCode
        /\ interrupted' = interrupted /\ edits' = edits
    BY <1>1 DEF Untouched, endVars
  <2>2. mode' = mode /\ manual' = manual /\ choice' = choice /\ Planned' = Planned /\ Tree' = Tree
    BY <2>1, Steady
  <2>3. todo' = Tail(todo) /\ phase' = phase /\ err' = err
    BY <1>7 DEF Advance
  <2>4. /\ todo' \in Seq(Step) /\ Len(todo') = Len(todo) - 1 /\ Len(todo) \in Nat
        /\ \A i \in 1..Len(todo') : todo'[i] = todo[i + 1]
    BY <1>1, <1>4, <2>3, TailOf DEF TypeOK
  <2>5. TypeOK'
    BY <1>1, <1>4, <2>1, <2>2, <2>3, <2>4 DEF TypeOK
  <2>6. PhaseInv'
    BY <1>1, <1>4, <1>7, <2>1, <2>2, <2>3 DEF PhaseInv, Existing
  <2>7. BeforeInv' /\ ManifestInv' /\ \A p : (Recorded(p)' <=> Recorded(p)) /\ (Covered(p)' <=> Covered(p))
    BY <1>1, <1>4, <2>1, SameBefore, SameManifest
  <2>8. DiskInv'
    BY <1>1, <1>4, <1>7, <2>1, <2>2, <2>3, <2>7 DEF DiskInv
  <2>9. ProgramInv' /\ Alive'
    BY <1>7, <2>3 DEF ProgramInv, Alive
  <2>10. AfterInv'
    <3>1. ASSUME NEW i \in 1..Len(todo') PROVE todo'[i].do \in {"need", "tool"}
      <4>1. i + 1 \in 1..Len(todo)
        BY <2>4
      <4> QED
        BY <1>3, <1>4, <1>7, <2>4, <4>1 DEF AfterInv
    <3>4. session = "committed"
      BY <1>3, <1>4, <1>7 DEF PhaseInv, TypeOK
    <3>2. /\ "temp" \notin litter /\ \A f \in Planned : disk[f] = "new"
          /\ (disk[Tree] = "new" /\ Recorded(Tree)) \/ (mode = "existing-expo" /\ disk[Tree] = "users")
      BY <1>3, <1>4, <1>7, <3>4 DEF AfterInv
    <3>3. Recorded(Tree)' <=> Recorded(Tree)
      BY <1>1, <2>2 DEF Recorded
    <3> QED
      BY <1>1, <2>2, <2>3, <3>1, <3>2, <3>3, <3>4 DEF AfterInv
  <2> QED
    BY <2>5, <2>6, <2>7, <2>8, <2>9, <2>10, StillAlive
<1> QED
  BY <1>3, <1>5, <1>6, <1>7 DEF RunTool

(* The staging directory becomes the target: it holds a whole project.     *)
LEMMA PromoteKeeps ==
  ASSUME Inv, Promote
  PROVE  Inv'
<1>1. /\ Running /\ todo # <<>> /\ Head(todo).do = "promote" /\ Untouched
      /\ UNCHANGED <<session, manifest, backup, litter>>
  BY DEF Promote, Doing, sessionVars
<1>2. phase = "build" /\ ~err.thrown
  BY <1>1, StepsOfPhase
<1>3. TypeOK /\ BeforeInv /\ PhaseInv /\ ManifestInv /\ DiskInv
  BY <1>2, Alive2 DEF Alive
<1>4. mode = "greenfield" /\ mode \notin Existing /\ session = "none" /\ litter = {} /\ manifest = <<>>
  BY <1>2, <1>3 DEF PhaseInv, Existing
<1>5. CASE disk' = disk /\ Throw(FALSE)
  BY <1>1, <1>2, <1>3, <1>5, ThrowOutside DEF TypeOK
<1>6. CASE Vacant("target") /\ disk' = [disk EXCEPT !["target"] = disk["staging"], !["staging"] = "absent"] /\ Advance
  <2>1. /\ ProgramOK(Program) /\ TreeDone /\ FilesDone /\ Following
        /\ Done \in Nat /\ Done + 1 = Len(Program)
        /\ Len(todo) = Len(Program) - Done /\ Len(Program) \in Nat
        /\ Head(todo) = Program[Done + 1]
    BY <1>1, <1>2, AtProgram
  <2>2. PICK P, d : P = Program /\ d = Done
    OBVIOUS
  <2>3. Len(P) = d + 1 /\ d \in Nat /\ Len(todo) = 1 /\ P[d + 1].do = "promote"
    BY <1>1, <2>1, <2>2
  <2>4. /\ UNCHANGED setupVars /\ before' = before /\ report' = report /\ exitCode' = exitCode
        /\ interrupted' = interrupted /\ edits' = edits
    BY <1>1 DEF Untouched, endVars
  <2>5. mode' = mode /\ manual' = manual /\ choice' = choice /\ Program' = P /\ Tree' = Tree
    BY <2>2, <2>4, Steady
  <2>6. todo' = Tail(todo) /\ phase' = phase /\ err' = err
    BY <1>6 DEF Advance
  <2>7. todo' \in Seq(Step) /\ Len(todo') = 0 /\ todo' = <<>>
    <3>1. todo' \in Seq(Step) /\ Len(todo') = Len(todo) - 1
      BY <1>1, <1>3, <2>6, TailOf DEF TypeOK
    <3>2. Len(todo') = 0
      BY <2>3, <3>1
    <3> QED
      BY <3>1, <3>2
  <2>8. disk["staging"] = "new"
    <3>1. PICK j \in 1..Len(P) : Makes(P[j]) /\ P[j].to = "new" /\ \A k \in (j + 1)..Len(P) : ~Makes(P[k])
      BY <2>1, <2>2 DEF ProgramOK, Completes
    <3>2. ~Makes(P[d + 1])
      BY <2>3, WritesNothing DEF Makes
    <3>3. j \in 1..d /\ \A k \in (j + 1)..d : ~Makes(P[k])
      <4>1. j # d + 1
        BY <3>1, <3>2
      <4>2. j \in 1..d /\ \A k \in (j + 1)..d : k \in (j + 1)..Len(P)
        BY <2>3, <4>1
      <4> QED
        BY <3>1, <4>2
    <3>4. ~Left
      BY <1>4 DEF Left
    <3>5. disk[Tree] = "new"
      BY <2>1, <2>2, <3>1, <3>3, <3>4 DEF TreeDone
    <3> QED
      BY <1>4, <3>5, Trees3
  <2>9. /\ disk' \in [Paths -> Contents] /\ disk'["target"] = "new" /\ disk'["staging"] = "absent"
        /\ \A p \in Paths \ {"staging", "target"} : disk'[p] = disk[p]
    BY <1>3, <1>6, <2>8, Places DEF TypeOK, Contents
  <2>10. TypeOK'
    BY <1>1, <1>3, <2>4, <2>5, <2>6, <2>7, <2>9 DEF TypeOK
  <2>11. PhaseInv'
    BY <1>1, <1>2, <1>3, <1>4, <2>4, <2>5, <2>6 DEF PhaseInv, Existing
  <2>12. BeforeInv' /\ ManifestInv' /\ \A p : Recorded(p)' <=> Recorded(p)
    BY <1>1, <1>3, <2>4, SameBefore, SameManifest
  <2>13. DiskInv'
    <3>1. before["target"] \in {"absent", "empty"}
      BY <1>1, <1>2, <1>3, <1>6 DEF DiskInv, Vacant
    <3> QED
      BY <1>2, <1>3, <1>4, <2>4, <2>5, <2>6, <2>7, <2>9, <3>1 DEF DiskInv
  <2>14. Done' = Len(P)
    BY <2>3, <2>5, <2>7 DEF Done
  <2>15. Following'
    BY <2>3, <2>5, <2>7 DEF Following
  <2>16. FilesDone'
    <3>1. ASSUME NEW i \in 1..Len(P), NEW f \in Files PROVE f \notin Records(P[i]) /\ f \notin Writes(P[i])
      <4>1. StepOK(P[i])
        BY <2>1, <2>2 DEF ProgramOK, WellFormed
      <4> QED
        BY <1>4, <4>1, BuildSteps2
    <3> QED
      BY <2>5, <2>14, <3>1 DEF FilesDone
  <2>17. RecordsDone' /\ TempLeft'
    <3>1. manifest' = <<>> /\ litter' = {}
      BY <1>1, <1>4
    <3> QED
      BY <3>1 DEF RecordsDone, TempLeft
  <2>18. Lockfile'
    <3>1. disk'["lockfile"] = before'["lockfile"]
      BY <1>2, <1>3, <2>4, <2>9, Places DEF DiskInv
    <3> QED
      BY <3>1 DEF Lockfile
  <2>19. ProgramInv' /\ AfterInv' /\ Alive'
    BY <1>2, <2>6, <2>7, <2>9, <2>15, <2>16, <2>17, <2>18 DEF ProgramInv, AfterInv, Alive, Missing
  <2> QED
    BY <2>10, <2>11, <2>12, <2>13, <2>19, StillAlive
<1> QED
  BY <1>5, <1>6 DEF Promote

LEMMA PlannedFiles ==
  /\ Planned \subseteq Files
  /\ mode = "existing-expo" => /\ choice.installable => "package.json" \in Planned /\ "lockfile" \in Planned
                               /\ ~manual => "app.json" \in Planned
  /\ mode = "existing-monorepo-no-expo" => (~choice.declared => "workspace" \in Planned)
<1>1. CASE mode = "existing-expo"
  BY <1>1 DEF Planned, Files
<1>2. CASE mode = "existing-monorepo-no-expo"
  BY <1>2 DEF Planned, Files
<1>3. CASE mode # "existing-expo" /\ mode # "existing-monorepo-no-expo"
  BY <1>3 DEF Planned, Files
<1> QED
  BY <1>1, <1>2, <1>3

(* What is run after the commit.                                           *)
LEMMA AfterSteps ==
  AfterApply \in Seq(Step) /\ \A i \in 1..Len(AfterApply) : AfterApply[i].do \in {"need", "tool"}
<1>1. /\ ensureAvailable \in One /\ runInstall \in One /\ prebuildIos \in One
      /\ ensureAvailable[1] = St("need", "target", "new") /\ runInstall[1] = St("tool", "target", "new")
      /\ prebuildIos[1] = St("tool", "target", "new")
  BY Singles DEF ensureAvailable, runInstall, prebuildIos, Paths, Files, Trees, Contents
<1>2. PICK a, b, p : a = ensureAvailable /\ b = runInstall /\ p = prebuildIos
  OBVIOUS
<1>3. /\ a \in One /\ b \in One /\ p \in One
      /\ a[1].do = "need" /\ b[1].do = "tool" /\ p[1].do = "tool"
  BY <1>1, <1>2, StepFields
<1>4. PICK t : t = a \o b \o a \o p
  OBVIOUS
<1>5. /\ t \in Seq(Step) /\ Len(t) = 4
      /\ t[1] = a[1] /\ t[2] = b[1] /\ t[3] = a[1] /\ t[4] = p[1]
  <2>1. a \in One /\ b \in One /\ p \in One
    BY <1>3
  <2>2. PICK q : q = a \o b
    OBVIOUS
  <2>3. q \in Seq(Step) /\ Len(q) = 2 /\ q[1] = a[1] /\ q[2] = b[1]
    BY <2>1, <2>2, Row2
  <2>4. /\ q \o a \o p \in Seq(Step) /\ Len(q \o a \o p) = Len(q) + 2
        /\ (q \o a \o p)[Len(q) + 1] = a[1] /\ (q \o a \o p)[Len(q) + 2] = p[1]
        /\ \A i \in 1..Len(q) : (q \o a \o p)[i] = q[i]
    BY <2>1, <2>3, Then2
  <2>5. t = q \o a \o p
    BY <1>4, <2>2
  <2>6. /\ t \in Seq(Step) /\ Len(t) = Len(q) + 2
        /\ t[Len(q) + 1] = a[1] /\ t[Len(q) + 2] = p[1]
        /\ \A i \in 1..Len(q) : t[i] = q[i]
    BY <2>4, <2>5
  <2> QED
    BY <2>3, <2>6
<1>6. \A i \in 1..Len(t) : t[i].do \in {"need", "tool"}
  <2>1. \A i \in 1..4 : i = 1 \/ i = 2 \/ i = 3 \/ i = 4
    OBVIOUS
  <2> QED
    BY <1>3, <1>5, <2>1
<1>7. p \in Seq(Step) /\ \A i \in 1..Len(p) : p[i].do \in {"need", "tool"}
  <2>1. p \in Seq(Step) /\ Len(p) = 1
    BY <1>3 DEF One
  <2>2. \A i \in 1..1 : i = 1
    OBVIOUS
  <2> QED
    BY <1>3, <2>1, <2>2
<1>8. PICK e : e = <<>>
  OBVIOUS
<1>9. e \in Seq(Step) /\ \A i \in 1..Len(e) : e[i].do \in {"need", "tool"}
  BY <1>8, NothingFirst
<1>10. AfterApply = t \/ AfterApply = p \/ AfterApply = e
  BY <1>2, <1>4, <1>8 DEF AfterApply, Toolchain, When
<1> QED
  BY <1>5, <1>6, <1>7, <1>9, <1>10

(* What has been done when the commit is all that is left.                 *)
LEMMA AllDone ==
  ASSUME Inv, phase = "apply", ~err.thrown, todo # <<>>, Head(todo).do = "commit"
  PROVE  /\ \A f \in Planned : disk[f] = "new"
         /\ (disk[Tree] = "new" /\ Recorded(Tree)) \/ (mode = "existing-expo" /\ disk[Tree] = "users")
         /\ "temp" \notin litter
<1>1. /\ ProgramOK(Program) /\ TreeDone /\ FilesDone /\ TempLeft
      /\ Done \in Nat /\ Done + 1 = Len(Program)
      /\ Len(Program) \in Nat /\ Head(todo) = Program[Done + 1] /\ mode \in Existing
  BY AtProgram
<1>2. PICK P, d : P = Program /\ d = Done
  OBVIOUS
<1>3. Len(P) = d + 1 /\ d \in Nat /\ P[d + 1].do = "commit"
  BY <1>1, <1>2
<1>4. Writes(P[d + 1]) = {}
  BY <1>3, WritesNothing
<1>5. ASSUME NEW f \in Planned PROVE disk[f] = "new"
  <2>1. PICK j \in 1..Len(P) : f \in Writes(P[j])
    BY <1>1, <1>2 DEF ProgramOK, Plans
  <2>2. j \in 1..d
    BY <1>3, <1>4, <2>1
  <2> QED
    BY <1>1, <1>2, <2>1, <2>2, PlannedFiles DEF FilesDone
<1>6. "temp" \notin litter
  <2>1. SUFFICES ASSUME "temp" \in litter PROVE FALSE
    OBVIOUS
  <2>2. PICK j \in (d + 1)..Len(P) : P[j].do = "unstage"
    BY <1>1, <1>2, <2>1 DEF TempLeft
  <2>3. j = d + 1
    BY <1>3
  <2> QED
    BY <1>3, <2>2, <2>3
<1>7. CASE Left
  BY <1>5, <1>6, <1>7, Trees3 DEF Left
<1>8. CASE ~Left
  <2>1. PICK j \in 1..Len(P) : Makes(P[j]) /\ P[j].to = "new" /\ \A k \in (j + 1)..Len(P) : ~Makes(P[k])
    BY <1>1, <1>2 DEF ProgramOK, Completes
  <2>2. j # d + 1
    BY <1>4, <2>1 DEF Makes
  <2>3. j \in 1..d /\ \A k \in (j + 1)..d : k \in (j + 1)..Len(P)
    BY <1>3, <2>2
  <2>4. disk[Tree] = "new"
    BY <1>1, <1>2, <1>8, <2>1, <2>3 DEF TreeDone
  <2>5. PICK i \in 1..(j - 1) : Tree \in Records(P[i])
    BY <1>1, <1>2, <2>1 DEF ProgramOK, RecordsFirst, Makes
  <2>6. i \in 1..d
    BY <1>3, <2>3
  <2>7. Recorded(Tree)
    BY <1>1, <1>2, <1>8, <2>5, <2>6 DEF TreeDone
  <2> QED
    BY <1>5, <1>6, <2>4, <2>7
<1> QED
  BY <1>7, <1>8

LEMMA CommitKeeps ==
  ASSUME Inv, Commit
  PROVE  Inv'
<1>1. /\ Running /\ todo # <<>> /\ Head(todo).do = "commit" /\ Untouched
      /\ UNCHANGED <<disk, manifest, backup>> /\ session' = "committed" /\ phase' = "after"
  BY DEF Commit, Doing
<1>2. phase = "apply" /\ ~err.thrown
  BY <1>1, StepsOfPhase
<1>3. TypeOK /\ BeforeInv /\ PhaseInv /\ ManifestInv /\ DiskInv
  BY <1>2, Alive2 DEF Alive
<1>4. mode \in Existing /\ "backup" \in litter /\ litter \subseteq {"backup", "temp"} /\ err = NoError
  BY <1>2, <1>3 DEF PhaseInv, TypeOK
<1>5. /\ UNCHANGED setupVars /\ before' = before /\ report' = report /\ exitCode' = exitCode
      /\ interrupted' = interrupted /\ edits' = edits
  BY <1>1 DEF Untouched, endVars
<1>6. mode' = mode /\ manual' = manual /\ choice' = choice /\ Planned' = Planned /\ Tree' = Tree
  BY <1>5, Steady
<1>7. BeforeInv' /\ ManifestInv' /\ \A p : (Recorded(p)' <=> Recorded(p)) /\ (Covered(p)' <=> Covered(p))
  BY <1>1, <1>3, <1>5, SameBefore, SameManifest
<1>8. ProgramInv' /\ Alive'
  BY <1>1 DEF ProgramInv, Alive
<1>9. CASE litter' = litter \ {"backup"} /\ todo' = AfterApply /\ UNCHANGED err
  <2>1. TypeOK'
    BY <1>1, <1>3, <1>4, <1>5, <1>6, <1>9, AfterSteps DEF TypeOK, Phases
  <2>2. PhaseInv'
    BY <1>1, <1>3, <1>4, <1>5, <1>6, <1>9 DEF PhaseInv, Existing, NoError
  <2>3. DiskInv'
    BY <1>1, <1>2, <1>3, <1>4, <1>5, <1>6, <1>7, <1>9 DEF DiskInv
  <2>4. AfterInv'
    <3>1. /\ \A f \in Planned : disk[f] = "new"
          /\ (disk[Tree] = "new" /\ Recorded(Tree)) \/ (mode = "existing-expo" /\ disk[Tree] = "users")
          /\ "temp" \notin litter
      BY <1>1, <1>2, AllDone
    <3>2. Recorded(Tree)' <=> Recorded(Tree)
      BY <1>1, <1>6 DEF Recorded
    <3>3. \A i \in 1..Len(todo') : todo'[i].do \in {"need", "tool"}
      BY <1>9, AfterSteps
    <3> QED
      BY <1>1, <1>6, <1>9, <3>1, <3>2, <3>3 DEF AfterInv
  <2> QED
    BY <1>7, <1>8, <2>1, <2>2, <2>3, <2>4, StillAlive
<1>10. CASE todo' = <<>> /\ err' = RolledBack(TRUE) /\ UNCHANGED litter
  <2>1. err' \in Error /\ err'.thrown /\ err'.rolledBack /\ err'.rollbackError /\ ~err'.toolMissing
    BY <1>3, <1>4, <1>10, Counted DEF RolledBack, Error, NoError
  <2>2. todo' \in Seq(Step) /\ phase' \in Phases
    BY <1>1, <1>10, NothingFirst DEF Phases
  <2>3. TypeOK'
    BY <1>1, <1>3, <1>5, <1>6, <1>10, <2>1, <2>2 DEF TypeOK
  <2>4. PhaseInv'
    BY <1>1, <1>3, <1>4, <1>5, <1>6, <1>10, <2>1 DEF PhaseInv, Existing
  <2>5. DiskInv'
    BY <1>1, <1>2, <1>3, <1>4, <1>5, <1>6, <1>7, <2>1 DEF DiskInv
  <2>6. AfterInv'
    <3>1. /\ \A f \in Planned : disk[f] = "new"
          /\ (disk[Tree] = "new" /\ Recorded(Tree)) \/ (mode = "existing-expo" /\ disk[Tree] = "users")
      BY <1>1, <1>2, AllDone
    <3>2. Recorded(Tree)' <=> Recorded(Tree)
      BY <1>1, <1>6 DEF Recorded
    <3> QED
      BY <1>1, <1>6, <2>1, <3>1, <3>2 DEF AfterInv
  <2> QED
    BY <1>7, <1>8, <2>3, <2>4, <2>5, <2>6, StillAlive
<1> QED
  BY <1>9, <1>10 DEF Commit

-----------------------------------------------------------------------------
(* Rolling back.                                                           *)

LEMMA AllButLast ==
  ASSUME NEW q \in Seq(Entry), q # <<>>, NEW r, r = SubSeq(q, 1, Len(q) - 1)
  PROVE  /\ r \in Seq(Entry) /\ Len(q) \in Nat /\ Len(q) > 0 /\ Len(r) = Len(q) - 1
         /\ q[Len(q)] \in Entry /\ DOMAIN q = 1..Len(q) /\ DOMAIN r = 1..(Len(q) - 1)
         /\ \A i \in 1..(Len(q) - 1) : r[i] = q[i]
<1>1. Len(q) \in Nat /\ Len(q) > 0 /\ DOMAIN q = 1..Len(q) /\ q[Len(q)] \in Entry
  OBVIOUS
<1>2. PICK n \in Nat : n = Len(q) - 1
  <2>1. PICK m : m = Len(q)
    OBVIOUS
  <2>2. m - 1 \in Nat
    BY <1>1, <2>1
  <2> QED
    BY <2>1, <2>2
<1>3. r = SubSeq(q, 1, n) /\ n <= Len(q) /\ \A i \in 1..n : q[i] \in Entry
  BY <1>1, <1>2
<1>4. r \in Seq(Entry) /\ Len(r) = n /\ \A i \in 1..n : r[i] = q[i]
  BY <1>2, <1>3
<1>5. DOMAIN r = 1..n
  BY <1>4
<1> QED
  BY <1>1, <1>2, <1>4, <1>5

(* Restoring puts the last entry's path back, or leaves an error behind;   *)
(* the entries before it still cover theirs.                               *)
LEMMA RestoreEntryKeeps ==
  ASSUME Inv, RestoreEntry
  PROVE  Inv'
<1>1. /\ phase = "rollback" /\ manifest # <<>> /\ manifest' = SubSeq(manifest, 1, Len(manifest) - 1)
      /\ phase' = phase /\ todo' = todo /\ session' = session /\ backup' = backup /\ litter' = litter /\ Untouched
  BY DEF RestoreEntry
<1>2. TypeOK /\ BeforeInv /\ PhaseInv /\ ManifestInv /\ DiskInv
  BY <1>1, Alive2 DEF Alive
<1>3. mode \in Existing /\ session = "open" /\ err.thrown /\ err.rolledBack /\ ~err.toolMissing
  BY <1>1, <1>2 DEF PhaseInv
<1>4. /\ UNCHANGED setupVars /\ before' = before /\ report' = report /\ exitCode' = exitCode
      /\ interrupted' = interrupted /\ edits' = edits
  BY <1>1 DEF Untouched, endVars
<1>5. mode' = mode /\ manual' = manual /\ choice' = choice
  BY <1>4, Steady
<1>6. PICK n : n = Len(manifest)
  OBVIOUS
<1>7. PICK e : e = manifest[n]
  OBVIOUS
<1>8. /\ n \in Nat /\ n > 0 /\ e \in Entry /\ manifest' \in Seq(Entry) /\ Len(manifest') = n - 1
      /\ DOMAIN manifest = 1..n /\ DOMAIN manifest' = 1..(n - 1)
      /\ \A i \in 1..(n - 1) : manifest'[i] = manifest[i]
  <2>1. manifest \in Seq(Entry)
    BY <1>2 DEF TypeOK
  <2> QED
    BY <1>1, <1>6, <1>7, <2>1, AllButLast
<1>9. e.path \in Paths /\ e.kind \in {"file", "dir"} /\ e.existed \in BOOLEAN
  BY <1>8 DEF Entry
<1>10. /\ e.kind = "file" => e.path \in Files /\ backup[e.path] = before[e.path]
       /\ e.kind = "dir" => /\ e.path \in {"widget", "apps/mobile"}
                            /\ before[e.path] = (IF e.existed THEN "empty" ELSE "absent")
  BY <1>2, <1>7, <1>8 DEF ManifestInv
<1>11. ManifestInv'
  <2>1. ASSUME NEW i \in DOMAIN manifest' PROVE i \in DOMAIN manifest /\ manifest'[i] = manifest[i]
    BY <1>8
  <2> QED
    BY <1>1, <1>2, <1>4, <2>1 DEF ManifestInv
<1>12. ASSUME NEW p, Covered(p), p # e.path PROVE Covered(p)'
  <2>1. CASE Recorded(p)
    <3>1. PICK i \in 1..n : manifest[i].path = p
      BY <1>8, <2>1 DEF Recorded
    <3>2. i # n
      BY <1>7, <1>12, <3>1
    <3>3. i \in 1..(n - 1)
      BY <1>8, <3>1, <3>2
    <3> QED
      BY <1>8, <3>1, <3>3 DEF Covered, Recorded
  <2>2. CASE p = "lockfile" /\ before[p] = "absent"
    BY <1>4, <2>2 DEF Covered
  <2> QED
    BY <1>12, <2>1, <2>2 DEF Covered
<1>13. e.path \notin {"staging", "target"}
  BY <1>9, <1>10 DEF Files
<1>14. PICK b : b = before[e.path]
  OBVIOUS
<1>15. b \in Contents /\ b = IF e.kind = "file" THEN backup[e.path] ELSE IF e.existed THEN "empty" ELSE "absent"
  <2>1. b \in Contents
    BY <1>2, <1>9, <1>14 DEF TypeOK
  <2>2. CASE e.kind = "file"
    BY <1>10, <1>14, <2>1, <2>2
  <2>3. CASE e.kind = "dir"
    BY <1>10, <1>14, <2>1, <2>3
  <2> QED
    BY <1>9, <2>2, <2>3
<1>16. \/ disk' = [disk EXCEPT ![e.path] = b] /\ err' = err
       \/ disk' \in {disk, [disk EXCEPT ![e.path] = "torn"]} /\ err' = [err EXCEPT !.rollbackError = TRUE]
  BY <1>6, <1>7, <1>15 DEF RestoreEntry
<1>17. disk \in [Paths -> Contents] /\ err \in Error
  BY <1>2 DEF TypeOK
<1>24. PICK r : r = [err EXCEPT !.rollbackError = TRUE]
  OBVIOUS
<1>18. /\ disk' \in [Paths -> Contents]
       /\ \A p \in Paths : p # e.path => disk'[p] = disk[p]
       /\ (disk'[e.path] = b /\ err' = err) \/ err' = r
  <2>1. \/ disk' = [disk EXCEPT ![e.path] = b] /\ err' = err
        \/ disk' \in {disk, [disk EXCEPT ![e.path] = "torn"]} /\ err' = r
    BY <1>16, <1>24, Zenon
  <2>2. "torn" \in Contents
    BY DEF Contents
  <2>3. CASE disk' = [disk EXCEPT ![e.path] = b] /\ err' = err
    BY <1>9, <1>15, <1>17, <2>3
  <2>4. CASE disk' \in {disk, [disk EXCEPT ![e.path] = "torn"]} /\ err' = r
    BY <1>9, <1>17, <2>2, <2>4
  <2> QED
    BY <2>1, <2>3, <2>4
<1>19. /\ err' \in Error /\ err'.thrown /\ err'.rolledBack /\ ~err'.toolMissing /\ err'.restored = err.restored
       /\ err.rollbackError => err'.rollbackError
       /\ disk'[e.path] = b \/ err'.rollbackError
  <2>1. CASE err' = err /\ disk'[e.path] = b
    BY <1>3, <1>17, <2>1
  <2>2. CASE err' = r
    <3>1. r \in Error /\ r.thrown /\ r.rolledBack /\ r.rollbackError /\ ~r.toolMissing /\ r.restored = err.restored
      BY <1>3, <1>17, <1>24 DEF Error
    <3> QED
      BY <2>2, <3>1
  <2> QED
    BY <1>18, <2>1, <2>2
<1>20. TypeOK'
  BY <1>1, <1>2, <1>4, <1>5, <1>8, <1>18, <1>19 DEF TypeOK
<1>21. PhaseInv'
  BY <1>1, <1>2, <1>3, <1>4, <1>5, <1>19 DEF PhaseInv
<1>22. DiskInv'
  <2>1. disk'["staging"] = before'["staging"] /\ disk'["target"] = before'["target"]
    BY <1>2, <1>3, <1>4, <1>13, <1>18, Places DEF DiskInv
  <2>2. ASSUME NEW p \in Paths
        PROVE  \/ Covered(p)' \/ disk'[p] = before'[p]
               \/ err'.rollbackError /\ (p \in Files \/ before'[p] \in {"absent", "empty"})
    <3>1. CASE p = e.path
      BY <1>4, <1>9, <1>10, <1>14, <1>19, <3>1
    <3>2. CASE p # e.path
      <4>1. Covered(p) \/ disk[p] = before[p] \/ (err.rollbackError /\ (p \in Files \/ before[p] \in {"absent", "empty"}))
        BY <1>2, <1>3 DEF DiskInv
      <4> QED
        BY <1>4, <1>12, <1>18, <1>19, <3>2, <4>1
    <3> QED
      BY <3>1, <3>2
  <2> QED
    BY <1>1, <2>1, <2>2 DEF DiskInv
<1>23. BeforeInv' /\ ProgramInv' /\ Alive'
  BY <1>1, <1>2, <1>4, SameBefore DEF ProgramInv, Alive
<1>25. AfterInv'
  <2> SUFFICES ASSUME err'.restored = 0
               PROVE  disk'["lockfile"] = before'["lockfile"] /\ \A i \in DOMAIN manifest' : manifest'[i].kind # "file"
    BY <1>1 DEF AfterInv
  <2>1. disk["lockfile"] = before["lockfile"] /\ \A i \in DOMAIN manifest : manifest[i].kind # "file"
    BY <1>1, <1>3, <1>19, Alive2 DEF AfterInv, Alive
  <2>2. e.path # "lockfile"
    BY <1>7, <1>8, <1>9, <1>10, <2>1
  <2> QED
    BY <1>4, <1>8, <1>18, <2>1, <2>2, Places
<1> QED
  BY <1>11, <1>20, <1>21, <1>22, <1>23, <1>25, StillAlive

LEMMA FinishRollbackKeeps ==
  ASSUME Inv, FinishRollback
  PROVE  Inv'
<1>1. /\ phase = "rollback" /\ manifest = <<>> /\ session' = "rolledBack" /\ phase' = "after"
      /\ disk' = disk /\ todo' = todo /\ manifest' = manifest /\ backup' = backup /\ Untouched
  BY DEF FinishRollback
<1>2. TypeOK /\ BeforeInv /\ PhaseInv /\ ManifestInv /\ DiskInv
  BY <1>1, Alive2 DEF Alive
<1>3. mode \in Existing /\ session = "open" /\ err.thrown /\ err.rolledBack /\ ~err.toolMissing
  BY <1>1, <1>2 DEF PhaseInv
<1>4. /\ UNCHANGED setupVars /\ before' = before /\ report' = report /\ exitCode' = exitCode
      /\ interrupted' = interrupted /\ edits' = edits
  BY <1>1 DEF Untouched, endVars
<1>5. mode' = mode /\ manual' = manual /\ choice' = choice
  BY <1>4, Steady
<1>6. BeforeInv' /\ ManifestInv' /\ \A p : (Covered(p)' <=> Covered(p))
  BY <1>1, <1>2, <1>4, SameBefore, SameManifest
<1>7. err \in Error /\ litter \subseteq {"backup", "temp"}
  BY <1>2 DEF TypeOK
<1>8. /\ err' \in Error /\ err'.thrown /\ err'.rolledBack /\ ~err'.toolMissing /\ err'.restored = err.restored
      /\ err.rollbackError => err'.rollbackError
      /\ litter' \subseteq {"backup", "temp"}
      /\ ~err'.rollbackError => "backup" \notin litter'
  <2>1. CASE litter' = litter \ {"backup"} /\ err' = err
    BY <1>3, <1>7, <2>1
  <2>2. CASE litter' = litter /\ err' = [err EXCEPT !.rollbackError = TRUE]
    BY <1>3, <1>7, <2>2 DEF Error
  <2> QED
    BY <2>1, <2>2 DEF FinishRollback
<1>9. TypeOK'
  BY <1>1, <1>2, <1>4, <1>5, <1>8 DEF TypeOK, Phases
<1>10. PhaseInv'
  BY <1>1, <1>2, <1>3, <1>4, <1>5, <1>8 DEF PhaseInv
<1>11. DiskInv'
  BY <1>1, <1>2, <1>3, <1>4, <1>5, <1>6, <1>8 DEF DiskInv
<1>12. ProgramInv' /\ Alive'
  BY <1>1, <1>8 DEF ProgramInv, Alive
<1>13. AfterInv'
  <2>1. err.restored = 0 => disk["lockfile"] = before["lockfile"]
    BY <1>1, <1>3, Alive2 DEF AfterInv, Alive
  <2>2. DOMAIN manifest' = {}
    BY <1>1
  <2> QED
    BY <1>1, <1>4, <1>8, <2>1, <2>2 DEF AfterInv
<1> QED
  BY <1>6, <1>9, <1>10, <1>11, <1>12, <1>13, StillAlive

-----------------------------------------------------------------------------
(* Ending.                                                                 *)

(* The state left on disk is the one the process has had.                  *)
LEMMA LeftAsItIs ==
  ASSUME Inv, Alive, UNCHANGED diskVars, UNCHANGED sessionVars, err' = err
  PROVE  OriginalsKept' /\ disk'["target"] \in {before'["target"], "new"}
<1>1. OriginalsKept /\ disk["target"] \in {before["target"], "new"}
  BY Alive2, LiveKeeps
<1>2. disk' = disk /\ before' = before /\ backup' = backup /\ litter' = litter /\ session' = session
  BY DEF diskVars, sessionVars
<1> QED
  BY <1>1, <1>2 DEF OriginalsKept

(* A process that dies, or whose reader has gone, tells nothing.           *)
LEMMA EndSilently ==
  ASSUME Inv, Alive, phase' \in {"exited", "killed"}, report' = "none",
         exitCode' = RUNNING \/ (exitCode' = SUCCESS /\ ~err.thrown), phase' = "exited" => ~err.thrown,
         UNCHANGED <<setupVars, diskVars, sessionVars, todo, err, interrupted, edits>>
  PROVE  Inv'
<1>1. TypeOK /\ BeforeInv
  BY Alive2
<1>2. /\ mode' = mode /\ manual' = manual /\ choice' = choice /\ disk' = disk /\ before' = before /\ todo' = todo
      /\ session' = session /\ manifest' = manifest /\ backup' = backup /\ litter' = litter /\ err' = err
      /\ interrupted' = interrupted /\ edits' = edits
  BY DEF setupVars, diskVars, sessionVars
<1>3. TypeOK'
  BY <1>1, <1>2 DEF TypeOK, Phases, Reports
<1>4. BeforeInv' /\ ~Alive'
  BY <1>1, <1>2, SameBefore DEF Alive
<1>5. OriginalsKept' /\ disk'["target"] \in {before'["target"], "new"}
  BY LeftAsItIs
<1>6. AtomicPromotion'
  BY <1>5 DEF AtomicPromotion
<1>7. ReportsAreTrue'
  BY <1>2 DEF ReportsAreTrue, CodesAreKept, RUNNING, SUCCESS, USER_ERROR, ENV_ERROR, TEMPLATE_ERROR, INTERRUPTED
<1> QED
  BY <1>3, <1>4, <1>5, <1>6, <1>7 DEF Inv, EndInv

(* A run that ends before it has begun to write.                           *)
LEMMA EndEarly ==
  ASSUME Inv, phase \in {"start", "prepare"}, phase' = "exited",
         mode' \in Modes, manual' \in BOOLEAN, choice' \in Choices,
         \/ report' = "help" /\ exitCode' = SUCCESS
         \/ report' = "cancelled" /\ exitCode' = SUCCESS
         \/ report' \in {"usage", "refused", "dirNotEmpty"} /\ exitCode' = USER_ERROR
         \/ report' = "noTemplate" /\ exitCode' = TEMPLATE_ERROR
         \/ report' = "toolchain" /\ exitCode' = ENV_ERROR,
         disk' = disk, before' = before, UNCHANGED <<sessionVars, todo, err, interrupted, edits>>
  PROVE  Inv'
<1>1. TypeOK /\ BeforeInv /\ PhaseInv /\ Alive
  BY Alive2 DEF Alive
<1>2. /\ session' = session /\ manifest' = manifest /\ backup' = backup /\ litter' = litter
      /\ todo' = todo /\ err' = err /\ interrupted' = interrupted /\ edits' = edits
      /\ UNCHANGED diskVars /\ UNCHANGED sessionVars
  BY DEF diskVars, sessionVars
<1>3. disk = before /\ litter = {} /\ ~err.thrown /\ ~err.rolledBack /\ ~err.rollbackError /\ session = "none"
  BY <1>1 DEF PhaseInv, NoError
<1>4. report' \in Reports /\ exitCode' \in {SUCCESS, USER_ERROR, TEMPLATE_ERROR, ENV_ERROR}
  BY DEF Reports
<1>5. TypeOK'
  BY <1>1, <1>2, <1>4 DEF TypeOK, Phases
<1>6. BeforeInv' /\ ~Alive'
  BY <1>1, <1>2, SameBefore DEF Alive
<1>7. OriginalsKept' /\ disk'["target"] \in {before'["target"], "new"}
  BY <1>1, <1>2, LeftAsItIs
<1>8. report' \notin {"nothingLanded", "applied", "none", "rolledBack", "rollbackErrored", "stoppedRestored",
                      "stoppedBefore", "toolMissing", "postCommit"}
  OBVIOUS
<1>9. AtomicPromotion'
  BY <1>7, <1>8 DEF AtomicPromotion
<1>10. CodesAreKept'
  BY <1>2, <1>3 DEF CodesAreKept, SUCCESS, USER_ERROR, ENV_ERROR, TEMPLATE_ERROR, INTERRUPTED
<1>11. ReportsAreTrue'
  BY <1>2, <1>3, <1>8, <1>10 DEF ReportsAreTrue
<1> QED
  BY <1>5, <1>6, <1>7, <1>9, <1>11 DEF Inv, EndInv

(* The error that is reported is never one of the early ends.              *)
LEMMA ApplyReports ==
  /\ ApplyReport \in Reports \ {"none", "applied", "usage", "help", "noTemplate", "refused", "toolchain", "cancelled",
                                "dirNotEmpty", "nothingLanded"}
  /\ FailureCode \in {INTERRUPTED, ENV_ERROR} /\ (FailureCode = INTERRUPTED => interrupted)
<1>1. ApplyReport \in {"stoppedBefore", "stoppedRestored", "toolMissing", "rolledBack", "rollbackErrored", "postCommit"}
  BY DEF ApplyReport
<1>2. FailureCode \in {INTERRUPTED, ENV_ERROR} /\ (FailureCode = INTERRUPTED => interrupted)
  BY DEF FailureCode, INTERRUPTED, ENV_ERROR
<1> QED
  BY <1>1, <1>2 DEF Reports

LEMMA ReportApplyKeeps ==
  ASSUME Inv, ReportApply
  PROVE  Inv'
<1>1. /\ phase = "after" /\ (err.thrown \/ todo = <<>>)
      /\ mode' = mode /\ manual' = manual /\ choice' = choice /\ disk' = disk /\ before' = before /\ todo' = todo
      /\ session' = session /\ manifest' = manifest /\ backup' = backup /\ litter' = litter /\ err' = err
      /\ interrupted' = interrupted /\ edits' = edits
  BY DEF ReportApply, setupVars, diskVars, sessionVars
<1>2. TypeOK /\ BeforeInv /\ PhaseInv /\ ManifestInv /\ DiskInv /\ AfterInv /\ Alive
  BY <1>1, Alive2 DEF Alive
<1>3. /\ mode \in Existing /\ session \in {"none", "committed", "rolledBack"}
      /\ session = "none" => err.thrown /\ ~err.rolledBack /\ ~err.rollbackError /\ disk = before
      /\ session = "rolledBack" => manifest = <<>> /\ err.thrown /\ err.rolledBack
      /\ session = "committed" => (err.rolledBack <=> err.rollbackError) /\ (err.rolledBack => err.thrown)
      /\ err.toolMissing => session = "committed" /\ ~err.rolledBack
      /\ ~err.rollbackError => "backup" \notin litter
  BY <1>1, <1>2 DEF PhaseInv, TypeOK
<1>4. \/ err.thrown /\ phase' = "exited" /\ report' = ApplyReport /\ exitCode' = FailureCode
      \/ ~err.thrown /\ phase' = "exited" /\ report' = "applied" /\ exitCode' = SUCCESS
  BY DEF ReportApply, ExitWith
<1>5. /\ phase' = "exited" /\ report' \in Reports
      /\ report' \notin {"none", "usage", "help", "noTemplate", "refused", "toolchain", "cancelled", "dirNotEmpty", "nothingLanded"}
      /\ exitCode' \in {INTERRUPTED, ENV_ERROR, SUCCESS}
      /\ exitCode' = INTERRUPTED => interrupted /\ err.thrown
      /\ exitCode' = SUCCESS => report' = "applied" /\ ~err.thrown
      /\ report' = "applied" => ~err.thrown
  <2>1. CASE err.thrown /\ phase' = "exited" /\ report' = ApplyReport /\ exitCode' = FailureCode
    BY <2>1, ApplyReports DEF INTERRUPTED, ENV_ERROR, SUCCESS
  <2>2. CASE ~err.thrown /\ phase' = "exited" /\ report' = "applied" /\ exitCode' = SUCCESS
    BY <2>2 DEF Reports, INTERRUPTED, ENV_ERROR, SUCCESS
  <2> QED
    BY <1>4, <2>1, <2>2
<1>6. TypeOK'
  BY <1>1, <1>2, <1>5 DEF TypeOK, Phases
<1>7. BeforeInv' /\ ~Alive'
  BY <1>1, <1>2, <1>5, SameBefore DEF Alive
<1>8. OriginalsKept' /\ disk'["target"] \in {before'["target"], "new"}
  BY <1>1, <1>2, LeftAsItIs DEF diskVars, sessionVars
<1>9. AtomicPromotion'
  BY <1>5, <1>8 DEF AtomicPromotion
<1>10. CodesAreKept'
  BY <1>1, <1>5 DEF CodesAreKept, SUCCESS, USER_ERROR, ENV_ERROR, TEMPLATE_ERROR, INTERRUPTED
<1>11. ASSUME ~err.rollbackError, err.rolledBack, NEW p \in Paths
       PROVE  disk[p] = before[p] \/ (p = "lockfile" /\ before[p] = "absent")
  <2>1. manifest = <<>>
    BY <1>3, <1>11
  <2>2. ~Recorded(p)
    BY <2>1 DEF Recorded
  <2> QED
    BY <1>2, <1>3, <1>11, <2>2 DEF DiskInv, Covered
<1>12. ASSUME report' = "applied" PROVE session = "committed" /\ litter = {} /\ Missing("staging")
  <2>1. ~err.thrown /\ session = "committed" /\ ~err.rollbackError
    BY <1>3, <1>5, <1>12
  <2>2. litter = {}
    BY <1>1, <1>2, <1>3, <2>1 DEF TypeOK, AfterInv
  <2>3. disk["staging"] = "absent"
    BY <1>2, <1>3 DEF DiskInv, BeforeInv
  <2> QED
    BY <2>1, <2>2, <2>3 DEF Missing
<1>13. ASSUME session = "committed" PROVE Landed
  <2>1. /\ \A f \in Planned : disk[f] = "new"
        /\ disk[Tree] = "new" \/ (mode = "existing-expo" /\ disk[Tree] = "users")
    BY <1>1, <1>2, <1>13 DEF AfterInv
  <2>2. CASE mode = "existing-expo"
    BY <2>1, <2>2, Trees3, PlannedFiles DEF Landed
  <2>3. CASE mode = "existing-monorepo-no-expo"
    BY <2>1, <2>3, Trees3, PlannedFiles DEF Landed
  <2> QED
    BY <1>3, <2>2, <2>3 DEF Existing
<1>14. ASSUME ~err.rollbackError, session = "rolledBack", err.restored = 0 PROVE disk = before
  <2>1. ASSUME NEW p \in Paths PROVE disk[p] = before[p]
    <3>1. CASE p = "lockfile"
      BY <1>1, <1>2, <1>3, <1>14, <3>1 DEF AfterInv
    <3>2. CASE p # "lockfile"
      BY <1>3, <1>11, <1>14, <3>2
    <3> QED
      BY <3>1, <3>2
  <2>2. disk \in [Paths -> Contents] /\ before \in [Paths -> Contents]
    BY <1>2 DEF TypeOK
  <2> QED
    BY <2>1, <2>2
<1>15. ASSUME ~err.rollbackError, session = "rolledBack" PROVE Restored
  BY <1>3, <1>11, <1>15 DEF Restored
<1>16. ASSUME err.thrown, report' = ApplyReport
       PROVE  /\ err.rollbackError => report' = "rollbackErrored" \/ interrupted
              /\ report' = "rolledBack" => session = "rolledBack" /\ Restored
              /\ report' = "rollbackErrored" => err.rollbackError /\ session \in {"rolledBack", "committed"}
              /\ report' = "stoppedRestored" => (session = "rolledBack" /\ Restored) \/ err.rollbackError
              /\ report' = "stoppedBefore" => disk = before \/ session = "committed" \/ err.rollbackError
              /\ report' = "toolMissing" => session = "committed"
              /\ report' = "postCommit" => session = "committed" \/ (session = "none" /\ disk = before)
  <2>1. ~err.rolledBack => err.restored = 0
    BY <1>2 DEF PhaseInv
  <2>2. err.restored \in Nat /\ \A x \in {"thrown", "toolMissing", "rolledBack", "rollbackError"} : err[x] \in BOOLEAN
    BY <1>2 DEF TypeOK, Error
  <2>3. CASE interrupted
    <3>1. report' = IF err.restored > 0 THEN "stoppedRestored" ELSE "stoppedBefore"
      BY <1>16, <2>3 DEF ApplyReport
    <3>2. err.restored > 0 => (session = "rolledBack" /\ Restored) \/ err.rollbackError
      BY <1>3, <1>15, <2>1, <2>2
    <3>3. ~(err.restored > 0) => disk = before \/ session = "committed" \/ err.rollbackError
      BY <1>3, <1>14, <2>2
    <3> QED
      BY <2>3, <3>1, <3>2, <3>3
  <2>4. CASE ~interrupted /\ err.toolMissing
    BY <1>3, <1>16, <2>4 DEF ApplyReport
  <2>5. CASE ~interrupted /\ ~err.toolMissing /\ err.rolledBack
    <3>1. report' = IF err.rollbackError THEN "rollbackErrored" ELSE "rolledBack"
      BY <1>16, <2>5 DEF ApplyReport
    <3> QED
      BY <1>3, <1>15, <2>5, <3>1
  <2>6. CASE ~interrupted /\ ~err.toolMissing /\ ~err.rolledBack
    <3>1. report' = "postCommit"
      BY <1>16, <2>6 DEF ApplyReport
    <3> QED
      BY <1>2, <1>3, <2>6, <3>1 DEF PhaseInv
  <2> QED
    BY <2>2, <2>3, <2>4, <2>5, <2>6
<1>17. Landed' = Landed /\ Restored' = Restored /\ Missing("staging")' = Missing("staging")
  BY <1>1 DEF Landed, Restored, Missing
<1>18. ReportsAreTrue'
  <2>1. "backup" \in litter => err.rollbackError
    BY <1>3
  <2>2. CASE err.thrown /\ report' = ApplyReport
    BY <1>1, <1>5, <1>10, <1>13, <1>16, <1>17, <2>1, <2>2 DEF ReportsAreTrue
  <2>3. CASE ~err.thrown /\ report' = "applied"
    BY <1>1, <1>3, <1>10, <1>12, <1>13, <1>17, <2>1, <2>3 DEF ReportsAreTrue
  <2> QED
    BY <1>4, <2>2, <2>3
<1> QED
  BY <1>6, <1>7, <1>8, <1>9, <1>18 DEF Inv, EndInv

LEMMA ReportBuildKeeps ==
  ASSUME Inv, ReportBuild
  PROVE  Inv'
<1>1. /\ phase = "build" /\ (err.thrown \/ todo = <<>>)
      /\ mode' = mode /\ manual' = manual /\ choice' = choice /\ before' = before /\ todo' = todo
      /\ session' = session /\ manifest' = manifest /\ backup' = backup /\ litter' = litter /\ err' = err
      /\ interrupted' = interrupted /\ edits' = edits
  BY DEF ReportBuild, setupVars, sessionVars
<1>2. TypeOK /\ BeforeInv /\ PhaseInv /\ ManifestInv /\ DiskInv /\ ProgramInv /\ Alive
  BY <1>1, Alive2 DEF Alive
<1>3. mode = "greenfield" /\ session = "none" /\ litter = {} /\ ~err.rolledBack /\ ~err.rollbackError
  BY <1>1, <1>2 DEF PhaseInv
<1>4. \/ /\ err.thrown /\ phase' = "exited" /\ report' = "nothingLanded" /\ exitCode' = FailureCode
         /\ disk' \in {disk, [disk EXCEPT !["staging"] = "absent"]}
      \/ ~err.thrown /\ phase' = "exited" /\ report' = "applied" /\ exitCode' = SUCCESS /\ disk' = disk
  BY DEF ReportBuild, ExitWith
<1>5. /\ phase' = "exited" /\ report' \in {"nothingLanded", "applied"} /\ report' \in Reports
      /\ exitCode' \in {INTERRUPTED, ENV_ERROR, SUCCESS}
      /\ exitCode' = INTERRUPTED => interrupted /\ err.thrown
      /\ exitCode' = SUCCESS => report' = "applied" /\ ~err.thrown
      /\ report' = "applied" => ~err.thrown /\ disk' = disk
      /\ report' = "nothingLanded" => err.thrown
  <2>1. CASE err.thrown /\ phase' = "exited" /\ report' = "nothingLanded" /\ exitCode' = FailureCode
    BY <2>1, ApplyReports DEF Reports, INTERRUPTED, ENV_ERROR, SUCCESS
  <2>2. CASE ~err.thrown /\ phase' = "exited" /\ report' = "applied" /\ exitCode' = SUCCESS /\ disk' = disk
    BY <2>2 DEF Reports, INTERRUPTED, ENV_ERROR, SUCCESS
  <2> QED
    BY <1>4, <2>1, <2>2
<1>6. disk' \in [Paths -> Contents] /\ \A p \in Paths : disk'[p] = disk[p] \/ p = "staging"
  BY <1>2, <1>4 DEF TypeOK, Contents
<1>7. TypeOK'
  BY <1>1, <1>2, <1>5, <1>6 DEF TypeOK, Phases
<1>8. BeforeInv' /\ ~Alive'
  BY <1>1, <1>2, <1>5, SameBefore DEF Alive
<1>9. OriginalsKept'
  <2>1. ASSUME NEW p \in Paths PROVE disk'[p] = before[p] \/ before[p] \in {"absent", "empty"}
    BY <1>1, <1>2, <1>6 DEF DiskInv, BeforeInv
  <2> QED
    BY <1>1, <2>1 DEF OriginalsKept
<1>10. disk'["target"] = disk["target"] /\ disk["target"] \in {before["target"], "new"}
       /\ (err.thrown => disk["target"] = before["target"])
  BY <1>1, <1>2, <1>6, Places DEF DiskInv
<1>11. AtomicPromotion'
  BY <1>1, <1>5, <1>10 DEF AtomicPromotion
<1>12. CodesAreKept'
  BY <1>1, <1>5 DEF CodesAreKept, SUCCESS, USER_ERROR, ENV_ERROR, TEMPLATE_ERROR, INTERRUPTED
<1>13. report' = "applied" => disk' = disk /\ disk["target"] = "new" /\ disk["staging"] = "absent"
  BY <1>1, <1>2, <1>5 DEF ProgramInv, Missing
<1>14. ReportsAreTrue'
  <2>1. report' = "applied" => Missing("staging")' /\ Landed'
    BY <1>1, <1>3, <1>13 DEF Missing, Landed
  <2> QED
    BY <1>1, <1>3, <1>5, <1>12, <2>1 DEF ReportsAreTrue
<1> QED
  BY <1>7, <1>8, <1>9, <1>11, <1>14 DEF Inv, EndInv

-----------------------------------------------------------------------------
(* Starting.                                                               *)

LEMMA EarlyExitsKeep ==
  ASSUME Inv, Help \/ CommandLineFails \/ TemplateFails \/ YesFails \/ PreflightFails \/ Cancel
  PROVE  Inv'
<1>1. /\ phase \in {"start", "prepare"} /\ phase' = "exited"
      /\ UNCHANGED setupVars /\ UNCHANGED diskVars /\ UNCHANGED <<sessionVars, todo, err, interrupted, edits>>
      /\ \/ report' = "help" /\ exitCode' = SUCCESS
         \/ report' = "cancelled" /\ exitCode' = SUCCESS
         \/ report' = "usage" /\ exitCode' = USER_ERROR
         \/ report' = "noTemplate" /\ exitCode' = TEMPLATE_ERROR
         \/ report' = "toolchain" /\ exitCode' = ENV_ERROR
  BY DEF Help, CommandLineFails, TemplateFails, YesFails, PreflightFails, Cancel, ExitWith
<1>2. mode' \in Modes /\ manual' \in BOOLEAN /\ choice' \in Choices /\ disk' = disk /\ before' = before
  BY <1>1 DEF Inv, TypeOK, setupVars, diskVars
<1> QED
  BY <1>1, <1>2, EndEarly

LEMMA DetectKeeps ==
  ASSUME Inv, Detect
  PROVE  Inv'
<1>1. /\ phase = "start" /\ UNCHANGED <<choice, diskVars, sessionVars, todo, err, interrupted, edits>>
      /\ choice' = choice /\ disk' = disk /\ before' = before /\ session' = session /\ manifest' = manifest
      /\ backup' = backup /\ litter' = litter /\ todo' = todo /\ err' = err /\ interrupted' = interrupted /\ edits' = edits
  BY DEF Detect, diskVars, sessionVars
<1>2. TypeOK /\ BeforeInv /\ PhaseInv /\ ManifestInv
  BY <1>1, Alive2 DEF Alive
<1>3. mode' \in Modes /\ manual' \in BOOLEAN
  <2>1. PICK e \in Evidence : mode' = DetectMode(e)
    BY DEF Detect
  <2>2. DetectMode(e) \in Modes
    BY DEF DetectMode, Modes
  <2>3. manual' \in BOOLEAN
    BY DEF Detect
  <2> QED
    BY <2>1, <2>2, <2>3
<1>4. CASE phase' = "exited" /\ report' = "refused" /\ exitCode' = USER_ERROR
  BY <1>1, <1>2, <1>3, <1>4, EndEarly DEF TypeOK
<1>5. CASE mode' # "refuse" /\ phase' = "prepare" /\ report' = report /\ exitCode' = exitCode
  <2>1. TypeOK'
    BY <1>1, <1>2, <1>3, <1>5 DEF TypeOK, Phases
  <2>2. PhaseInv'
    BY <1>1, <1>2, <1>5 DEF PhaseInv
  <2>3. BeforeInv' /\ ManifestInv'
    BY <1>1, <1>2, SameBefore, SameManifest
  <2>4. DiskInv'
    BY <1>1, <1>2, <1>5 DEF DiskInv, PhaseInv
  <2>5. ProgramInv' /\ AfterInv' /\ Alive'
    BY <1>5 DEF ProgramInv, AfterInv, Alive
  <2> QED
    BY <2>1, <2>2, <2>3, <2>4, <2>5, StillAlive
<1> QED
  BY <1>4, <1>5 DEF Detect, ExitWith, endVars

(* A program starts with its first step; nothing has been done yet.        *)
LEMMA AtTheStart ==
  ASSUME mode' \in Modes, mode' # "refuse", choice' \in Choices, manual' \in BOOLEAN,
         todo' = Program', manifest' = <<>>, "temp" \notin litter', disk'["lockfile"] = before'["lockfile"]
  PROVE  todo' \in Seq(Step) /\ todo' # <<>> /\ ProgramInv'
<1>1. ProgramOK(Program)'
  <2>1. (mode \in Modes /\ mode # "refuse" /\ choice \in Choices /\ manual \in BOOLEAN)'
    OBVIOUS
  <2>2. ((mode \in Modes /\ mode # "refuse" /\ choice \in Choices /\ manual \in BOOLEAN) => ProgramOK(Program))'
    BY ProgramIsOK, PTL
  <2> QED
    BY <2>1, <2>2
<1>2. PICK P : P = Program'
  OBVIOUS
<1>3. P \in Seq(Step) /\ Len(P) > 0 /\ Len(P) \in Nat
  <2>1. P \in Seq(Step) /\ WellFormed(P)'
    BY <1>1, <1>2 DEF ProgramOK
  <2> QED
    BY <2>1 DEF WellFormed
<1>4. todo' \in Seq(Step) /\ todo' # <<>>
  BY <1>2, <1>3
<1>5. Done' = 0
  BY <1>2, <1>3 DEF Done
<1>6. Following'
  <2>1. \A i \in 1..Len(P) : P[i] = P[0 + i]
    BY <1>3
  <2> QED
    BY <1>2, <1>3, <1>5, <2>1 DEF Following
<1>7. ~\E i \in 1..0 : TRUE
  OBVIOUS
<1>8. FilesDone' /\ TreeDone' /\ TempLeft' /\ Lockfile'
  BY <1>5, <1>7 DEF FilesDone, TreeDone, TempLeft, Lockfile
<1>9. RecordsDone'
  <2>1. DOMAIN manifest' = {}
    OBVIOUS
  <2> QED
    BY <2>1 DEF RecordsDone
<1> QED
  BY <1>4, <1>6, <1>8, <1>9 DEF ProgramInv

LEMMA BeginBuildKeeps ==
  ASSUME Inv, BeginBuild
  PROVE  Inv'
<1>1. /\ phase = "prepare" /\ mode = "greenfield" /\ choice' \in GreenfieldChoices
      /\ mode' = mode /\ manual' = manual /\ before' = before
      /\ UNCHANGED <<sessionVars, err, interrupted, edits>>
      /\ session' = session /\ manifest' = manifest /\ backup' = backup /\ litter' = litter
      /\ err' = err /\ interrupted' = interrupted /\ edits' = edits
  BY DEF BeginBuild, sessionVars
<1>2. choice' \in Choices
  BY <1>1 DEF GreenfieldChoices
<1>3. TypeOK /\ BeforeInv /\ PhaseInv /\ ManifestInv
  BY <1>1, Alive2 DEF Alive
<1>4. session = "none" /\ manifest = <<>> /\ litter = {} /\ err = NoError /\ disk = before /\ mode \notin Existing
  BY <1>1, <1>3 DEF PhaseInv, Existing
<1>5. CASE phase' = "exited" /\ report' = "dirNotEmpty" /\ exitCode' = USER_ERROR /\ disk' = disk /\ todo' = todo
  BY <1>1, <1>2, <1>3, <1>5, EndEarly DEF TypeOK
<1>6. CASE /\ disk' = [disk EXCEPT !["staging"] = "empty"] /\ phase' = "build" /\ todo' = RunTasks(choice')
           /\ report' = report /\ exitCode' = exitCode
  <2>1. Program' = RunTasks(choice')
    BY <1>1 DEF Program
  <2>2. /\ disk' \in [Paths -> Contents] /\ \A p \in Paths \ {"staging"} : disk'[p] = disk[p]
    BY <1>3, <1>6, Places DEF TypeOK, Contents
  <2>3. todo' \in Seq(Step) /\ todo' # <<>> /\ ProgramInv'
    <3>1. manifest' = <<>> /\ "temp" \notin litter' /\ disk'["lockfile"] = before'["lockfile"]
      BY <1>1, <1>4, <2>2, Places
    <3>2. mode' \in Modes /\ mode' # "refuse" /\ manual' \in BOOLEAN
      BY <1>1, <1>3 DEF TypeOK
    <3>3. todo' = Program'
      BY <1>6, <2>1
    <3> QED
      BY <1>2, <3>1, <3>2, <3>3, AtTheStart
  <2>4. TypeOK'
    BY <1>1, <1>2, <1>3, <1>6, <2>2, <2>3 DEF TypeOK, Phases
  <2>5. PhaseInv'
    BY <1>1, <1>3, <1>4, <1>6 DEF PhaseInv, NoError
  <2>6. BeforeInv' /\ ManifestInv'
    BY <1>1, <1>3, SameBefore, SameManifest
  <2>7. DiskInv'
    BY <1>1, <1>4, <1>6, <2>2, Places DEF DiskInv
  <2>8. AfterInv' /\ Alive'
    BY <1>6 DEF AfterInv, Alive
  <2> QED
    BY <2>3, <2>4, <2>5, <2>6, <2>7, <2>8, StillAlive
<1> QED
  BY <1>5, <1>6 DEF BeginBuild, ExitWith, endVars

LEMMA BeginApplyKeeps ==
  ASSUME Inv, BeginApply
  PROVE  Inv'
<1>1. /\ phase = "prepare" /\ mode \in Existing
      /\ choice' \in IF mode = "existing-expo" THEN ExpoChoices ELSE MonorepoChoices
      /\ mode' = mode /\ manual' = manual /\ disk' = disk /\ before' = before /\ manifest' = manifest /\ backup' = backup
      /\ report' = report /\ exitCode' = exitCode /\ interrupted' = interrupted /\ edits' = edits
  BY DEF BeginApply, Existing, diskVars, endVars
<1>2. choice' \in Choices
  BY <1>1 DEF ExpoChoices, MonorepoChoices
<1>3. TypeOK /\ BeforeInv /\ PhaseInv /\ ManifestInv
  BY <1>1, Alive2 DEF Alive
<1>4. session = "none" /\ manifest = <<>> /\ litter = {} /\ err = NoError /\ disk = before
  BY <1>1, <1>3 DEF PhaseInv
<1>5. BeforeInv' /\ ManifestInv' /\ DiskInv'
  BY <1>1, <1>3, <1>4, SameBefore, SameManifest DEF DiskInv
<1>6. CASE /\ session' = "open" /\ litter' = {"backup"} /\ phase' = "apply" /\ err' = err
           /\ todo' = IF mode = "existing-expo" THEN ApplyToExisting(choice') ELSE ApplyMonorepo(choice')
  <2>1. todo' = Program'
    <3>1. CASE mode = "existing-expo"
      BY <1>1, <1>6, <3>1 DEF Program, ApplyToExisting, ApplyAppConfigPatch
    <3>2. CASE mode = "existing-monorepo-no-expo"
      BY <1>1, <1>6, <3>2 DEF Program
    <3> QED
      BY <1>1, <3>1, <3>2 DEF Existing
  <2>2. todo' \in Seq(Step) /\ todo' # <<>> /\ ProgramInv'
    <3>1. manifest' = <<>> /\ "temp" \notin litter' /\ disk'["lockfile"] = before'["lockfile"]
      BY <1>1, <1>4, <1>6
    <3>2. mode' \in Modes /\ mode' # "refuse" /\ manual' \in BOOLEAN
      BY <1>1, <1>3 DEF TypeOK, Existing
    <3> QED
      BY <1>2, <2>1, <3>1, <3>2, AtTheStart
  <2>3. TypeOK'
    BY <1>1, <1>2, <1>3, <1>6, <2>2 DEF TypeOK, Phases
  <2>4. PhaseInv'
    BY <1>1, <1>3, <1>4, <1>6 DEF PhaseInv, Existing
  <2>5. AfterInv' /\ Alive'
    BY <1>6 DEF AfterInv, Alive
  <2> QED
    BY <1>5, <2>2, <2>3, <2>4, <2>5, StillAlive
<1>7. CASE phase' = "after" /\ err' = [err EXCEPT !.thrown = TRUE] /\ session' = session /\ litter' = litter /\ todo' = todo
  <2>1. /\ err' \in Error /\ err'.thrown /\ ~err'.rolledBack /\ ~err'.rollbackError
        /\ ~err'.toolMissing /\ err'.restored = 0
    BY <1>4, <1>7 DEF NoError, Error
  <2>2. TypeOK'
    BY <1>1, <1>2, <1>3, <1>7, <2>1 DEF TypeOK, Phases
  <2>3. PhaseInv'
    BY <1>1, <1>3, <1>4, <1>7, <2>1 DEF PhaseInv, Existing
  <2>4. ProgramInv' /\ AfterInv' /\ Alive'
    BY <1>4, <1>7, <2>1 DEF ProgramInv, AfterInv, Alive
  <2> QED
    BY <1>5, <2>2, <2>3, <2>4, StillAlive
<1> QED
  BY <1>6, <1>7 DEF BeginApply

-----------------------------------------------------------------------------
(* What happens to the process.                                            *)

LEMMA SilentEndsKeep ==
  ASSUME Inv, PipeCloses \/ Kill
  PROVE  Inv'
<1>1. CASE PipeCloses
  <2>1. /\ phase = "prepare" \/ Running
        /\ phase' = "exited" /\ report' = "none" /\ exitCode' = SUCCESS
        /\ UNCHANGED <<setupVars, diskVars, sessionVars, todo, err, interrupted, edits>>
    BY <1>1 DEF PipeCloses, Awaiting, Doing, ExitWith
  <2>2. Alive
    BY <2>1 DEF Alive, Running
  <2>3. ~err.thrown
    BY <2>1, <2>2, Alive2 DEF PhaseInv, NoError, Running
  <2> QED
    BY <2>1, <2>2, <2>3, EndSilently
<1>2. CASE Kill
  <2>1. /\ Alive /\ phase' = "killed" /\ report' = report /\ exitCode' = exitCode
        /\ UNCHANGED <<setupVars, diskVars, sessionVars, todo, err, interrupted, edits>>
    BY <1>2 DEF Kill, endVars
  <2>2. report = "none" /\ exitCode = RUNNING
    BY <2>1, Alive2 DEF PhaseInv
  <2> QED
    BY <2>1, <2>2, EndSilently
<1> QED
  BY <1>1, <1>2

(* Around the run: nothing changes but, perhaps, one path that the user    *)
(* edits, which the run has not recorded and has not written.              *)
LEMMA AroundTheRun ==
  ASSUME Inv, Alive, UNCHANGED setupVars, UNCHANGED sessionVars, UNCHANGED endVars, phase' = phase, todo' = todo, err' = err,
         interrupted' \in BOOLEAN, edits' \in 0..MaxEdits,
         NEW p \in Editable, disk' \in [Paths -> Contents], before' \in [Paths -> Contents],
         \A q \in Paths : q # p => disk'[q] = disk[q] /\ before'[q] = before[q],
         \/ disk'[p] = disk[p] /\ before'[p] = before[p]
         \/ /\ disk[p] = before[p] /\ ~Recorded(p) /\ disk'[p] = before'[p]
            /\ before'[p] = IF p \in Files THEN "edited" ELSE "users"
  PROVE  Inv'
<1>1. TypeOK /\ BeforeInv /\ PhaseInv /\ ManifestInv /\ DiskInv /\ ProgramInv /\ AfterInv
  BY Alive2
<1>2. /\ session' = session /\ manifest' = manifest /\ backup' = backup /\ litter' = litter
      /\ report' = report /\ exitCode' = exitCode
      /\ mode' = mode /\ manual' = manual /\ choice' = choice
  BY DEF sessionVars, endVars, setupVars
<1>3. Program' = Program /\ Tree' = Tree /\ Planned' = Planned /\ \A s : Makes(s)' <=> Makes(s)
  BY Steady
<1>4. p \in Paths /\ p \notin {"staging", "lockfile"} /\ (p \notin Files => p \in Trees)
  BY Places DEF Editable
<1>5. \/ disk' = disk /\ before' = before
      \/ /\ disk[p] = before[p] /\ ~Recorded(p) /\ disk'[p] = before'[p]
         /\ before'[p] = IF p \in Files THEN "edited" ELSE "users"
  BY <1>1, <1>4 DEF TypeOK
<1>6. TypeOK'
  BY <1>1, <1>2 DEF TypeOK
<1>7. BeforeInv'
  <2>1. ASSUME NEW f \in Files PROVE before'[f] \in {"absent", "old", "edited"}
    BY <1>1, <1>4, <1>5, Places DEF BeforeInv
  <2>2. ASSUME NEW t \in Trees PROVE before'[t] \in {"absent", "empty", "users"}
    BY <1>1, <1>4, <1>5, Places DEF BeforeInv
  <2>3. before'["staging"] = "absent"
    BY <1>1, <1>4, Places DEF BeforeInv
  <2> QED
    BY <2>1, <2>2, <2>3 DEF BeforeInv
<1>8. \A q \in Paths : disk[q] = before[q] => disk'[q] = before'[q]
  BY <1>4, <1>5
<1>9. PhaseInv' /\ Alive'
  <2>1. disk = before => disk' = before'
    BY <1>1, <1>8 DEF TypeOK
  <2> QED
    BY <1>1, <1>2, <2>1 DEF PhaseInv, Alive
<1>10. \A q : Recorded(q)' <=> Recorded(q)
  BY <1>2 DEF Recorded
<1>11. ASSUME NEW q, Recorded(q) PROVE disk'[q] = disk[q] /\ before'[q] = before[q]
  <2>1. q \in Paths
    <3>1. PICK i \in DOMAIN manifest : manifest[i].path = q
      BY <1>11 DEF Recorded
    <3>2. manifest[i] \in Entry
      BY <1>1, <3>1 DEF TypeOK
    <3> QED
      BY <3>1, <3>2 DEF Entry
  <2> QED
    BY <1>4, <1>5, <1>11, <2>1
<1>12. \A q \in Paths : Covered(q)' <=> Covered(q)
  BY <1>4, <1>10, Places DEF Covered
<1>13. ManifestInv'
  <2>1. ASSUME NEW i \in DOMAIN manifest PROVE before'[manifest[i].path] = before[manifest[i].path]
    BY <1>11 DEF Recorded
  <2> QED
    BY <1>1, <1>2, <2>1 DEF ManifestInv
<1>14. \A f \in Files : disk[f] = "new" => disk'[f] = "new"
  BY <1>1, <1>4, <1>5, Places DEF BeforeInv
<1>15. DiskInv'
  <2>1. phase = "build" => \A q \in Paths \ {"staging", "target"} : disk'[q] = before'[q]
    BY <1>1, <1>8 DEF DiskInv
  <2>2. (phase = "build" /\ disk'["target"] # before'["target"]) =>
          before'["target"] \in {"absent", "empty"} /\ disk'["target"] = "new" /\ todo = <<>> /\ ~err.thrown
    BY <1>1, <1>5, <1>8, Places DEF DiskInv
  <2>3. mode \in Existing => disk'["staging"] = before'["staging"] /\ disk'["target"] = before'["target"]
    BY <1>1, <1>8, Places DEF DiskInv
  <2>4. ASSUME mode \in Existing, NEW q \in Paths
        PROVE  \/ Covered(q)' \/ disk'[q] = before'[q]
               \/ err.rollbackError /\ (q \in Files \/ before'[q] \in {"absent", "empty"})
    <3>1. \/ Covered(q) \/ disk[q] = before[q]
          \/ err.rollbackError /\ (q \in Files \/ before[q] \in {"absent", "empty"})
      BY <1>1, <2>4 DEF DiskInv
    <3>2. q # p \/ before'[q] = before[q] \/ disk[q] = before[q]
      BY <1>5
    <3> QED
      BY <1>8, <1>12, <3>1, <3>2
  <2> QED
    BY <1>2, <2>1, <2>2, <2>3, <2>4 DEF DiskInv
<1>16. Done' = Done /\ (Left => Left')
  <2>1. Done' = Done
    BY <1>3 DEF Done
  <2>2. disk["widget"] = "users" => disk'["widget"] = "users"
    BY <1>5, Places
  <2> QED
    BY <1>2, <2>1, <2>2 DEF Left
<1>17. ProgramInv'
  <2> SUFFICES ASSUME phase \in {"apply", "build"}, ~err.thrown PROVE ProgramInv'
    BY DEF ProgramInv
  <2>1. Following /\ FilesDone /\ RecordsDone /\ TempLeft /\ Lockfile
    BY <1>1 DEF ProgramInv
  <2>2. Following' /\ RecordsDone' /\ TempLeft'
    BY <1>2, <1>3, <1>16, <2>1 DEF Following, RecordsDone, TempLeft
  <2>3. FilesDone'
    <3>1. \A f \in Files : f \in Paths
      BY Places
    <3> QED
      BY <1>3, <1>12, <1>14, <1>16, <2>1, <3>1 DEF FilesDone
  <2>4. Lockfile'
    BY <1>3, <1>4, <1>10, <1>16, <2>1, Places DEF Lockfile
  <2>5. todo = <<>> => phase = "build" /\ disk'["target"] = "new" /\ disk'["staging"] = "absent"
    <3>1. todo = <<>> => phase = "build" /\ disk["target"] = "new" /\ disk["staging"] = "absent"
      BY <1>1 DEF ProgramInv, Missing
    <3>2. disk["target"] = "new" => disk'["target"] = "new"
      BY <1>1, <1>5, Places DEF BeforeInv
    <3> QED
      BY <1>4, <3>1, <3>2, Places
  <2>6. ASSUME todo # <<>> PROVE TreeDone'
    <3>1. ProgramOK(Program) /\ TreeDone /\ Done \in Nat /\ Done + 1 \in 1..Len(Program) /\ Len(Program) \in Nat
          /\ mode # "refuse"
      BY <2>6, AtProgram
    <3>2. CASE Left
      BY <1>16, <3>2 DEF TreeDone
    <3>3. CASE ~Left
      <4>1. PICK P, d : P = Program /\ d = Done
        OBVIOUS
      <4>2. ASSUME NEW i \in 1..d, Makes(P[i]), \A j \in (i + 1)..d : ~Makes(P[j])
            PROVE  disk'[Tree] = P[i].to
        <5>1. disk[Tree] = P[i].to
          BY <3>1, <3>3, <4>1, <4>2 DEF TreeDone
        <5>2. disk'[Tree] = disk[Tree]
          <6>1. CASE mode \in Existing
            <7>1. i \in 1..Len(P)
              BY <3>1, <4>1
            <7>2. PICK j \in 1..(i - 1) : Tree \in Records(P[j])
              BY <3>1, <4>1, <4>2, <6>1, <7>1 DEF ProgramOK, RecordsFirst, Makes
            <7>3. j \in 1..d
              BY <3>1, <4>1
            <7>4. Recorded(Tree)
              BY <3>1, <3>3, <4>1, <7>2, <7>3 DEF TreeDone
            <7> QED
              BY <1>11, <7>4
          <6>2. CASE mode \notin Existing
            <7>1. mode = "greenfield"
              BY <1>1, <3>1, <6>2 DEF Existing, TypeOK, Modes
            <7> QED
              BY <1>4, <7>1, Trees3, Places
          <6> QED
            BY <6>1, <6>2
        <5> QED
          BY <5>1, <5>2
      <4>3. \A i \in 1..d : Tree \in Records(P[i]) => Recorded(Tree)
        BY <3>1, <3>3, <4>1 DEF TreeDone
      <4> QED
        BY <1>3, <1>10, <1>16, <4>1, <4>2, <4>3 DEF TreeDone
    <3> QED
      BY <3>2, <3>3
  <2> QED
    BY <2>2, <2>3, <2>4, <2>5, <2>6 DEF ProgramInv, Missing
<1>18. AfterInv'
  <2>1. Planned \subseteq Files
    BY PlannedFiles
  <2>2. (disk[Tree] = "new" /\ Recorded(Tree)) => (disk'[Tree] = "new" /\ Recorded(Tree)')
    <3>1. Recorded(Tree)' <=> Recorded(Tree)
      BY <1>2, <1>3 DEF Recorded
    <3> QED
      BY <1>11, <3>1
  <2>3. disk[Tree] = "users" => disk'[Tree] = "users"
    BY <1>5, Trees3, Places
  <2>4. disk'["lockfile"] = disk["lockfile"] /\ before'["lockfile"] = before["lockfile"]
    BY <1>4, Places
  <2>5. ((phase = "after" /\ ~err.thrown) => (\A i \in 1..Len(todo) : todo[i].do \in {"need", "tool"}) /\ "temp" \notin litter)'
    BY <1>1, <1>2 DEF AfterInv
  <2>6. (phase = "after" /\ session = "committed") =>
          /\ \A f \in Planned : disk'[f] = "new"
          /\ (disk'[Tree] = "new" /\ Recorded(Tree)') \/ (mode = "existing-expo" /\ disk'[Tree] = "users")
    BY <1>1, <1>14, <2>1, <2>2, <2>3 DEF AfterInv
  <2>7. ((phase \in {"rollback", "after"} /\ err.rolledBack /\ err.restored = 0 /\ session # "committed") =>
          disk["lockfile"] = before["lockfile"] /\ \A i \in DOMAIN manifest : manifest[i].kind # "file")'
    BY <1>1, <1>2, <2>4 DEF AfterInv
  <2> QED
    BY <1>2, <1>3, <2>5, <2>6, <2>7 DEF AfterInv
<1> QED
  BY <1>6, <1>7, <1>9, <1>13, <1>15, <1>17, <1>18, StillAlive

LEMMA InterruptKeeps ==
  ASSUME Inv, Interrupt
  PROVE  Inv'
<1>1. /\ interrupted' = TRUE /\ phase' = phase /\ todo' = todo /\ err' = err /\ edits' = edits
      /\ UNCHANGED setupVars /\ UNCHANGED sessionVars /\ UNCHANGED endVars /\ disk' = disk /\ before' = before
      /\ (phase = "prepare" \/ Running)
  BY DEF Interrupt, diskVars, Awaiting, Doing
<1>2. Alive
  BY <1>1 DEF Alive, Running
<1>3. disk \in [Paths -> Contents] /\ before \in [Paths -> Contents] /\ edits \in 0..MaxEdits
  BY <1>2, Alive2 DEF TypeOK
<1>4. "app.json" \in Editable
  BY Places DEF Editable
<1> QED
  BY <1>1, <1>2, <1>3, <1>4, AroundTheRun

LEMMA UserEditsKeeps ==
  ASSUME Inv, NEW p \in Editable, UserEdits(p)
  PROVE  Inv'
<1>1. /\ Alive /\ edits < MaxEdits /\ ~Recorded(p) /\ disk[p] = before[p]
      /\ disk' = [disk EXCEPT ![p] = IF p \in Files THEN "edited" ELSE "users"]
      /\ before' = [before EXCEPT ![p] = disk'[p]] /\ edits' = edits + 1
      /\ UNCHANGED setupVars /\ UNCHANGED sessionVars /\ UNCHANGED endVars
      /\ phase' = phase /\ todo' = todo /\ err' = err /\ interrupted' = interrupted
  BY DEF UserEdits
<1>2. disk \in [Paths -> Contents] /\ before \in [Paths -> Contents] /\ edits \in 0..MaxEdits /\ interrupted \in BOOLEAN
  BY <1>1, Alive2 DEF TypeOK
<1>3. p \in Paths
  BY DEF Editable
<1>4. PICK v : v = IF p \in Files THEN "edited" ELSE "users"
  OBVIOUS
<1>5. v \in Contents
  BY <1>4 DEF Contents
<1>6. disk' = [disk EXCEPT ![p] = v] /\ disk'[p] = v
  BY <1>1, <1>2, <1>3, <1>4
<1>7. /\ disk' \in [Paths -> Contents] /\ before' \in [Paths -> Contents] /\ before'[p] = v
      /\ \A q \in Paths : q # p => disk'[q] = disk[q] /\ before'[q] = before[q]
  BY <1>1, <1>2, <1>3, <1>5, <1>6
<1>8. edits' \in 0..MaxEdits
  BY <1>1, <1>2, MaxEditsAssumption
<1> QED
  BY <1>1, <1>2, <1>4, <1>6, <1>7, <1>8, AroundTheRun

-----------------------------------------------------------------------------
(* The theorems.                                                           *)

LEMMA InvInit == Init => Inv
<1> SUFFICES ASSUME Init PROVE Inv
  OBVIOUS
<1>1. /\ disk \in Hosts /\ before = disk /\ mode = "refuse" /\ manual = TRUE /\ phase = "start" /\ todo = <<>>
      /\ choice = [installable |-> FALSE, installNow |-> FALSE, prefix |-> FALSE, declared |-> FALSE, tarball |-> FALSE]
      /\ session = "none" /\ manifest = <<>> /\ backup = [p \in Paths |-> "absent"] /\ litter = {}
      /\ err = NoError /\ interrupted = FALSE /\ report = "none" /\ exitCode = RUNNING /\ edits = 0
  BY DEF Init
<1>2. disk \in [Paths -> Contents] /\ Host(disk)
  BY <1>1, HostsAssumption
<1>3. TypeOK
  <2>1. mode \in Modes /\ manual \in BOOLEAN /\ phase \in Phases /\ report \in Reports
    BY <1>1 DEF Modes, Phases, Reports
  <2>2. choice \in Choices /\ err \in Error
    BY <1>1 DEF Choices, Error, NoError
  <2>3. backup \in [Paths -> Contents]
    BY <1>1 DEF Contents
  <2>4. todo \in Seq(Step) /\ manifest \in Seq(Entry)
    BY <1>1
  <2>5. edits \in 0..MaxEdits
    BY <1>1, MaxEditsAssumption
  <2> QED
    BY <1>1, <1>2, <2>1, <2>2, <2>3, <2>4, <2>5 DEF TypeOK
<1>4. BeforeInv
  BY <1>1, <1>2 DEF BeforeInv, Host
<1>5. PhaseInv
  BY <1>1 DEF PhaseInv, NoError
<1>6. ManifestInv
  <2>1. DOMAIN manifest = {}
    BY <1>1
  <2> QED
    BY <2>1 DEF ManifestInv
<1>7. DiskInv
  BY <1>1 DEF DiskInv
<1>8. ProgramInv /\ AfterInv /\ Alive
  BY <1>1 DEF ProgramInv, AfterInv, Alive
<1> QED
  BY <1>3, <1>4, <1>5, <1>6, <1>7, <1>8 DEF Inv, LiveInv

LEMMA InvNext == Inv /\ [Next]_vars => Inv'
<1> SUFFICES ASSUME Inv, [Next]_vars PROVE Inv'
  OBVIOUS
<1>1. CASE UNCHANGED vars
  <2>1. UNCHANGED setupVars /\ UNCHANGED diskVars /\ UNCHANGED sessionVars /\ UNCHANGED endVars
        /\ phase' = phase /\ todo' = todo /\ err' = err /\ interrupted' = interrupted /\ edits' = edits
    BY <1>1 DEF vars
  <2>2. CASE Alive
    <3>1. disk \in [Paths -> Contents] /\ before \in [Paths -> Contents] /\ edits \in 0..MaxEdits /\ interrupted \in BOOLEAN
      BY <2>2, Alive2 DEF TypeOK
    <3>2. disk' = disk /\ before' = before /\ "app.json" \in Editable
      BY <2>1, Places DEF diskVars, Editable
    <3> QED
      BY <2>1, <2>2, <3>1, <3>2, AroundTheRun
  <2>3. CASE ~Alive
    <3>1. TypeOK' /\ BeforeInv' /\ EndInv' /\ ~Alive'
      <4>1. TypeOK /\ BeforeInv /\ EndInv
        BY <2>3 DEF Inv
      <4>2. /\ mode' = mode /\ manual' = manual /\ choice' = choice /\ disk' = disk /\ before' = before
            /\ session' = session /\ manifest' = manifest /\ backup' = backup /\ litter' = litter
            /\ report' = report /\ exitCode' = exitCode
        BY <2>1 DEF setupVars, diskVars, sessionVars, endVars
      <4>3. TypeOK' /\ BeforeInv' /\ ~Alive'
        BY <2>1, <2>3, <4>1, <4>2, SameBefore DEF TypeOK, Alive
      <4>4. OriginalsKept' /\ AtomicPromotion'
        BY <2>1, <4>1, <4>2 DEF EndInv, OriginalsKept, AtomicPromotion
      <4>6. /\ Landed' = Landed /\ Restored' = Restored /\ Missing("staging")' = Missing("staging")
            /\ CodesAreKept' = CodesAreKept
        BY <2>1, <4>2 DEF Landed, Restored, Missing, CodesAreKept
      <4>5. ReportsAreTrue'
        BY <2>1, <4>1, <4>2, <4>6 DEF EndInv, ReportsAreTrue
      <4> QED
        BY <4>3, <4>4, <4>5 DEF EndInv
    <3> QED
      BY <3>1 DEF Inv
  <2> QED
    BY <2>2, <2>3
<1>2. CASE Begins
  BY <1>2, EarlyExitsKeep, DetectKeeps, BeginBuildKeeps, BeginApplyKeeps DEF Begins
<1>3. CASE Steps
  BY <1>3, RecordFileKeeps, RecordDirKeeps, StageKeeps, DecideKeeps, UnstageKeeps, WriteKeeps, AddPackagesKeeps,
     RunToolKeeps, PromoteKeeps, CommitKeeps DEF Steps
<1>4. CASE Ends
  BY <1>4, RestoreEntryKeeps, FinishRollbackKeeps, ReportApplyKeeps, ReportBuildKeeps DEF Ends
<1>5. CASE Happens
  BY <1>5, InterruptKeeps, SilentEndsKeep, UserEditsKeeps DEF Happens
<1> QED
  BY <1>1, <1>2, <1>3, <1>4, <1>5 DEF Next

(* In every state of every run the invariant says what the run's           *)
(* properties ask for.                                                     *)
LEMMA InvGives ==
  ASSUME Inv
  PROVE  TypeOK /\ OriginalsKept /\ AtomicPromotion /\ ReportsAreTrue
<1>1. CASE Alive
  <2>1. TypeOK /\ BeforeInv /\ PhaseInv /\ LiveInv
    BY <1>1, Alive2
  <2>2. OriginalsKept /\ disk["target"] \in {before["target"], "new"}
    BY <1>1, <2>1, LiveKeeps
  <2>3. report = "none" /\ exitCode = RUNNING
    BY <2>1 DEF PhaseInv
  <2>4. AtomicPromotion
    BY <2>2, <2>3 DEF AtomicPromotion
  <2>5. ReportsAreTrue
    BY <1>1, <2>3 DEF Alive, ReportsAreTrue, CodesAreKept, RUNNING, SUCCESS, USER_ERROR, ENV_ERROR, TEMPLATE_ERROR, INTERRUPTED
  <2> QED
    BY <2>1, <2>2, <2>4, <2>5
<1>2. CASE ~Alive
  BY <1>2 DEF Inv, EndInv
<1> QED
  BY <1>1, <1>2

LEMMA Invariant == Spec => []Inv
BY InvInit, InvNext, PTL DEF Spec

(* Every variable of a run has its type: the manifest is a sequence of     *)
(* entries, the error a record, the code one of those of flags.mjs.        *)
THEOREM TypeCorrect == Spec => []TypeOK
BY Invariant, InvGives, PTL

(* Whatever fails, and whenever the process is killed: what the user had   *)
(* is on disk or in the backup until the commit or a failed restore, and a *)
(* directory with files of the user's is not written into (recordFile,     *)
(* recordDir, rollback in backup.mjs; widgetCopyDecision; promoteStaging). *)
THEOREM OriginalsAreKept == Spec => []OriginalsKept
BY Invariant, InvGives, PTL

(* The target holds what it held or a whole project, and what it held when *)
(* the build is said to have failed (promoteStaging in scaffold.mjs).      *)
THEOREM PromotionIsAtomic == Spec => []AtomicPromotion
BY Invariant, InvGives, PTL

(* The exit codes mean what --help says of them, and a run that ends       *)
(* before it begins has written nothing (flags.mjs:205-215).               *)
THEOREM CodesMeanWhatTheySay == Spec => []CodesAreKept
<1>1. Inv => CodesAreKept
  BY InvGives DEF ReportsAreTrue
<1> QED
  BY <1>1, Invariant, PTL

(* What the user is told is what happened to the disk, of every run on     *)
(* every disk, with the exceptions that ReportsAreTrue spells out (rollback,*)
(* commit, renderApplyError, copy.mjs:163-204).                            *)
THEOREM ReportsTrue == Spec => []ReportsAreTrue
BY Invariant, InvGives, PTL
=============================================================================
