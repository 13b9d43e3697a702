---------------------------- MODULE ReleaseGate ----------------------------
(***************************************************************************)
(* The gate of stable releases: verify_release_gate.py, which asks git for *)
(* what has changed since the reviewed commit, and release_gate.py, which  *)
(* judges the review record and that list. The release workflow runs it on *)
(* a clean checkout of the commit it builds, so the working tree and the   *)
(* commit are one here, and no tree can hold a record of its own commit.   *)
(*                                                                         *)
(* A tree has the version files, each a version and the rest of its text,  *)
(* one file of code, one of the release-status documents, and a record. A  *)
(* file may be absent. git reports a file that was moved to a new name     *)
(* under that name only.                                                   *)
(***************************************************************************)
EXTENDS Naturals, Sequences

CONSTANTS
    VersionFiles,   \* _VERSION_FILES; one of them names the package's version
    Pyproject,
    Texts,          \* what a file may say
    MaxCommits      \* bound

Prerelease == "1.0.0rc1"    \* a direct prerelease of the stable version
Stable == "1.0.0"
Missing == "missing"

ASSUME GateAssumption ==
    /\ Pyproject \in VersionFiles
    /\ {"code", "docs", "review"} \cap VersionFiles = {}
    /\ Missing \notin Texts
    /\ MaxCommits \in Nat \ {0}

VARIABLES
    commits,        \* the commits: their trees and their ancestors
    released        \* history: the commits that were released

gateVars == <<commits, released>>

NoRecord == [commit |-> 0, approved |-> FALSE]
Records == [commit : 0 .. MaxCommits, approved : BOOLEAN]

Trees == [version : [VersionFiles -> {Prerelease, Stable}], rest : [VersionFiles -> Texts],
          code : Texts \cup {Missing}, docs : Texts \cup {Missing}, review : Records]

Tree(i) == commits[i].tree

GateTypeOK ==
    /\ \A i \in DOMAIN commits : Tree(i) \in Trees /\ commits[i].anc \subseteq 1 .. i
    /\ released \subseteq DOMAIN commits

\* The history begins with a prerelease.
GateInit ==
    /\ \E x \in Texts, d \in Texts \cup {Missing} :
          commits = <<[tree |-> [version |-> [f \in VersionFiles |-> Prerelease],
                                 rest |-> [f \in VersionFiles |-> x], code |-> x,
                                 docs |-> d, review |-> NoRecord],
                       anc |-> {1}]>>
    /\ released = {}

\* A commit on another, the merge of several, or the first of another history, with
\* a record of an earlier commit, of whatever history, or none.
Commit(parents, tree) ==
    /\ Len(commits) < MaxCommits
    /\ tree.review = NoRecord \/ tree.review.commit \in DOMAIN commits
    /\ LET anc == {Len(commits) + 1} \cup UNION {commits[p].anc : p \in parents}
       IN  commits' = Append(commits, [tree |-> tree, anc |-> anc])
    /\ UNCHANGED released

-----------------------------------------------------------------------------
\* git diff --name-only
Moved(a, b) == a.code # Missing /\ b.code = Missing /\ a.docs = Missing /\ b.docs = a.code

Changed(a, b) ==
    {f \in VersionFiles : a.version[f] # b.version[f] \/ a.rest[f] # b.rest[f]}
        \cup (IF a.code # b.code /\ ~ Moved(a, b) THEN {"code"} ELSE {})
        \cup (IF a.docs # b.docs THEN {"docs"} ELSE {})
        \cup (IF a.review # b.review THEN {"review"} ELSE {})

\* Mutant: the version files may change in any way.
VersionFilesChange(a, b) == VersionFiles \subseteq Changed(a, b)

\* _validate_version_only_promotion: every version file of the reviewed tree with
\* its prerelease replaced by the stable version, and nothing else.
VersionOnly(a, b) ==
    /\ a.version[Pyproject] = Prerelease
    /\ VersionFiles \subseteq Changed(a, b)
    /\ \A f \in VersionFiles :
          a.version[f] = Prerelease /\ b.version[f] = Stable /\ b.rest[f] = a.rest[f]

\* allowed_promotion_files
Permitted == VersionFiles \cup {"docs", "review"}

\* _promotion_diff: there is a record, what it names is an ancestor, and the
\* versions are what has changed since. No tree names its own commit.
Promotes(i) ==
    LET r == Tree(i).review
    IN  /\ r # NoRecord
        /\ r.commit \in commits[i].anc
        /\ VersionOnly(Tree(r.commit), Tree(i))

\* verify_release_gate: the record is in order, and the diff is one of a promotion.
Approves(i) ==
    LET changed == Changed(Tree(Tree(i).review.commit), Tree(i))
    IN  /\ Tree(i).review.approved
        /\ changed \subseteq Permitted
        /\ "review" \in changed

\* main: a prerelease needs no review.
Passes(i) == Tree(i).version[Pyproject] = Stable => Promotes(i) /\ Approves(i)

Release(i) ==
    /\ Passes(i)
    /\ released' = released \cup {i}
    /\ UNCHANGED commits

GateNext ==
    \/ \E parents \in SUBSET DOMAIN commits, t \in Trees : Commit(parents, t)
    \/ \E i \in DOMAIN commits : Release(i)

GateSpec == GateInit /\ [][GateNext]_gateVars

-----------------------------------------------------------------------------
\* What a stable release is built from is what an ancestor of it was when it was
\* reviewed and approved, but for the version number, the record and the release
\* documents: no code that was not reviewed is in it, also not in a version file.
\* (Reviewed code may be missing, if its file was moved over a document.)
ReleaseWasReviewed ==
    \A i \in released : Tree(i).version[Pyproject] = Stable =>
        \E j \in commits[i].anc \ {i} :
            /\ Tree(i).review = [commit |-> j, approved |-> TRUE]
            /\ Tree(i).code \in {Tree(j).code, Missing}
            /\ \A f \in VersionFiles : Tree(i).version[f] = Stable
                                       /\ Tree(i).rest[f] = Tree(j).rest[f]
=============================================================================
