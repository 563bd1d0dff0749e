------------------------------ MODULE TestImage ------------------------------
(***************************************************************************)
(* A directory of test suites and its three readers: "tests validate"      *)
(* (internal/validate), "tests publish" (internal/image/build.go), which   *)
(* packs it into an image and pushes it, and "run", which executes it from *)
(* disk or from the image it pulls (pkg/engine, internal/engine/test,      *)
(* internal/image/traverse.go).  Each has its own idea of what a suite and *)
(* a case file are.  Meanwhile others push to the same tag.                *)
(*                                                                         *)
(* An image is the directory it holds, and its digest is the image itself: *)
(* contents are told apart by their digests.                               *)
(***************************************************************************)
EXTENDS Naturals, FiniteSets

CONSTANTS
    Names,       \* the entries of a tests directory
    FileNames,   \* the names of files, without extension and whiteout prefix
    EarlyNames,  \* those that sort before the prefix .wh.
    Trees,       \* the tests directories: functions from Names to Entry
    Selves,      \* what a tests directory may be as a suite: a set of Entry
    Others       \* an image somebody else pushes

(* What is in a cases directory: a file (or a link to one, or a directory) *)
(* with a name and an extension (".yml" stands for those that are packed   *)
(* and never run); the name may have the whiteout prefix .wh., and the     *)
(* content match the schema.                                               *)
File == [name : FileNames, ext : {".yaml", ".yml", "other"}, type : {"regular", "link", "dir"},
         whiteout : BOOLEAN, valid : BOOLEAN]

(* An entry of a tests directory: a directory, one whose name begins with  *)
(* a dot, something else, or nothing.  Its cases entry may be a directory, *)
(* a link to one, a file, or missing.                                      *)
Entry == [kind : {"dir", "hidden", "file", "none"},
          cases : {"dir", "link", "file", "absent"}, files : SUBSET File]

NoEntry == [kind |-> "none", cases |-> "absent", files |-> {}]
NoImage == [n \in Names |-> NoEntry]

(* In a directory every name occurs once. *)
FullName(f) == <<f.whiteout, f.name, f.ext>>
NamedApart(e) == \A f, g \in e.files : FullName(f) = FullName(g) => f = g

ASSUME TestImageAssumption ==
    /\ IsFiniteSet(Names)
    /\ EarlyNames \subseteq FileNames
    /\ Trees \subseteq [Names -> Entry]
    /\ Selves \subseteq Entry
    /\ Others \in [Names -> Entry] /\ Others # NoImage
    /\ \A t \in Trees \cup {Others} : \A n \in Names : NamedApart(t[n])
    /\ \A e \in Selves : NamedApart(e)

VARIABLES
    tree,        \* the tests directory
    own,         \* the directory itself, looked at as a suite
    checked,     \* tests validate: its verdict, and the files it looked at
    publisher,   \* where tests publish is
    found,       \* findTestDirs' result
    layer,       \* the temporary layer file, NoImage when there is none
    registry,    \* the images in the registry
    tag,         \* the one the tag names, or NoImage
    digestFile,  \* the digest on file, or NoImage
    runner,      \* where run --remote is
    img,         \* the image it has pulled
    temp,        \* the extracted directory, NoImage when there is none
    digest,      \* report.Remote.Digest
    executed     \* the case files it has executed

vars == <<tree, own, checked, publisher, found, layer, registry, tag, digestFile,
          runner, img, temp, digest, executed>>
publish == <<publisher, found, layer>>
run == <<runner, img, temp, digest, executed>>

TypeOK ==
    /\ tree \in Trees
    /\ own \in Entry
    /\ checked.verdict \in {"none", "ok", "invalid", "error"}
    /\ checked.files \subseteq (Names \cup {"."}) \X File
    /\ publisher \in {"find", "layer", "push", "digest", "ok", "error"}
    /\ found \subseteq Names
    /\ registry \subseteq [Names -> Entry]
    /\ tag \in registry \cup {NoImage}
    /\ runner \in {"pull", "extract", "digest", "run", "done", "error"}
    /\ \A t \in {layer, digestFile, img, temp, digest} : t \in [Names -> Entry]
    /\ executed \subseteq Names \X File

Init ==
    /\ tree \in Trees
    /\ own \in Selves
    /\ checked = [verdict |-> "none", files |-> {}]
    /\ publisher = "find" /\ found = {} /\ layer = NoImage
    /\ registry = {} /\ tag = NoImage /\ digestFile = NoImage
    /\ runner = "pull" /\ img = NoImage /\ temp = NoImage /\ digest = NoImage
    /\ executed = {}
-----------------------------------------------------------------------------
(* run *)

(* runLocal: every directory that is not hidden is a suite. *)
RunSuites(t) == {n \in Names : t[n].kind = "dir"}

(* forEach: what is not a directory and ends in .yaml is a case file; a    *)
(* link is followed.  Without a cases directory there are none.            *)
CaseFiles(e) ==
    IF e.cases \in {"dir", "link"}
    THEN {f \in e.files : f.type # "dir" /\ f.ext = ".yaml"}
    ELSE {}

CasesOf(t, suites) == UNION {{n} \X CaseFiles(t[n]) : n \in suites}

(* The case files a run of directory t executes. *)
RunCases(t) == CasesOf(t, RunSuites(t))
-----------------------------------------------------------------------------
(* tests validate *)

(* Mutant: a link to a cases directory does not count. *)
IsSuiteDirItself(e) == e.kind = "dir" /\ e.cases = "dir"

(* isSuiteDir, of a directory that is not hidden. *)
IsSuiteDir(e) == e.kind = "dir" /\ e.cases \in {"dir", "link"}

(* findSuiteDirs, and the files validate looks at: those of the directory  *)
(* itself when it is a suite, else those of the suites in it.              *)
SuiteDirs == {n \in Names : IsSuiteDir(tree[n])}
ValidateFiles ==
    IF IsSuiteDir(own) THEN {"."} \X CaseFiles(own) ELSE CasesOf(tree, SuiteDirs)

(* Validator.Dir, and the exit status of the command.  Reading may fail,   *)
(* and finding no suite is an error.                                       *)
Validate ==
    /\ checked.verdict = "none"
    /\ \/ checked' = [verdict |-> "error", files |-> {}]
       \/ /\ IsSuiteDir(own) \/ SuiteDirs # {}
          /\ checked' = [verdict |-> IF \A c \in ValidateFiles : c[2].valid THEN "ok" ELSE "invalid",
                         files |-> ValidateFiles]
    /\ UNCHANGED <<tree, own, publish, registry, tag, digestFile, run>>
-----------------------------------------------------------------------------
(* tests publish *)

(* findTestDirs: the child directories, not hidden, where os.Stat finds    *)
(* something called cases; none is an error.                               *)
TestDirs == {n \in Names : tree[n].kind = "dir" /\ tree[n].cases # "absent"}

FindTestDirs ==
    /\ publisher = "find"
    /\ \/ TestDirs # {} /\ found' = TestDirs /\ publisher' = "layer"
       \/ found' = {} /\ publisher' = "error"
    /\ UNCHANGED <<tree, own, checked, layer, registry, tag, digestFile, run>>

(* Mutant: whatever is not a directory is packed. *)
PacksLinks(f) == f.type # "dir" /\ f.ext \in {".yaml", ".yml"}

(* includeLayerEntry and isYAMLPath, of an entry of a cases directory. *)
IncludeLayerEntry(f) == f.type = "regular" /\ f.ext \in {".yaml", ".yml"}

(* addDirToTar: a cases entry that is no directory is left out.  The walk  *)
(* does not follow links.                                                  *)
Packed(e) ==
    IF e.cases = "dir"
    THEN [kind |-> "dir", cases |-> "dir", files |-> {f \in e.files : IncludeLayerEntry(f)}]
    ELSE [kind |-> "dir", cases |-> "absent", files |-> {}]

(* Mutant: the layer has the suites only. *)
OnlySuites(t, dirs) == [n \in dirs |-> Packed(t[n])]

(* The image's root: the suites found, and nothing else. *)
Layer(t, dirs) == [n \in Names |-> IF n \in dirs THEN Packed(t[n]) ELSE NoEntry]

(* Mutant: a layer that could not be written is left on disk. *)
HalfWritten == Layer(tree, found)

(* writeTestLayer removes the file when writing fails. *)
LayerAfterError == NoImage

WriteTestLayer ==
    /\ publisher = "layer"
    /\ \/ layer' = Layer(tree, found) /\ publisher' = "push"
       \/ layer' = LayerAfterError /\ publisher' = "error"
    /\ UNCHANGED <<tree, own, checked, found, registry, tag, digestFile, run>>

(* remote.Write, and the removal of the layer file when Build returns.     *)
(* The push may fail, and a push that reports an error may have succeeded. *)
Push ==
    /\ publisher = "push"
    /\ layer' = NoImage
    /\ \/ registry' = registry \cup {layer} /\ tag' = layer /\ publisher' \in {"digest", "error"}
       \/ UNCHANGED <<registry, tag>> /\ publisher' = "error"
    /\ UNCHANGED <<tree, own, checked, found, digestFile, run>>

(* Mutant: the digest of the tag, asked of the registry after the push. *)
DigestOfTag == tag

(* The digest of the image that was built. *)
BuiltDigest == Layer(tree, found)

(* writeDigest, when the user asked for it. *)
WriteDigest ==
    /\ publisher = "digest"
    /\ \/ digestFile' = BuiltDigest /\ publisher' = "ok"
       \/ UNCHANGED digestFile /\ publisher' \in {"ok", "error"}
    /\ UNCHANGED <<tree, own, checked, found, layer, registry, tag, run>>

(* Somebody else publishes under the same tag. *)
OthersPush ==
    /\ tag # Others
    /\ registry' = registry \cup {Others} /\ tag' = Others
    /\ UNCHANGED <<tree, own, checked, publish, digestFile, run>>
-----------------------------------------------------------------------------
(* run --remote, with the tag or the digest on file as its reference *)

Pull ==
    /\ runner = "pull"
    /\ \/ img' \in ({tag, digestFile} \cap registry) /\ runner' = "extract"
       \/ UNCHANGED img /\ runner' = "error"
    /\ UNCHANGED <<tree, own, checked, publish, registry, tag, digestFile, temp, digest, executed>>

(* mutate.Extract: a whiteout .wh.X that is no directory hides X when it   *)
(* comes first in the layer, which WalkDir filled in lexical order.        *)
Hides(w, f) ==
    /\ w.whiteout /\ w.type # "dir"
    /\ w.name = f.name /\ w.ext = f.ext
    /\ f.name \notin EarlyNames
Hidden(f, files) == \E w \in files : Hides(w, f)

(* extract writes the directories, regular files and links mutate.Extract  *)
(* gives it; names with the whiteout prefix are skipped.                   *)
Extracted(t) ==
    [n \in Names |-> [t[n] EXCEPT !.files = {f \in @ : ~f.whiteout /\ ~Hidden(f, @)}]]

Extract ==
    /\ runner = "extract"
    /\ \/ temp' = Extracted(img) /\ runner' = "digest"
       \/ UNCHANGED temp /\ runner' = "error"
    /\ UNCHANGED <<tree, own, checked, publish, registry, tag, digestFile, img, digest, executed>>

(* Mutant: the report names what the tag names when the run begins. *)
DigestOfReference == tag

(* img.Digest *)
ImageDigest == img

(* Traverse removes the directory when an error or the run itself ends it. *)
GetDigest ==
    /\ runner = "digest"
    /\ \/ digest' = ImageDigest /\ runner' = "run" /\ UNCHANGED temp
       \/ UNCHANGED digest /\ runner' = "error" /\ temp' = NoImage
    /\ UNCHANGED <<tree, own, checked, publish, registry, tag, digestFile, img, executed>>

RunLocal ==
    /\ runner = "run"
    /\ executed' = RunCases(temp)
    /\ temp' = NoImage
    /\ runner' = "done"
    /\ UNCHANGED <<tree, own, checked, publish, registry, tag, digestFile, img, digest>>

Done ==
    /\ publisher \in {"ok", "error"} /\ runner \in {"done", "error"}
    /\ UNCHANGED vars

Next ==
    \/ Validate
    \/ FindTestDirs \/ WriteTestLayer \/ Push \/ WriteDigest
    \/ OthersPush
    \/ Pull \/ Extract \/ GetDigest \/ RunLocal
    \/ Done

Spec == Init /\ [][Next]_vars
-----------------------------------------------------------------------------
(* Publishing loses no regular case file and adds none: a run of the       *)
(* published image executes exactly what a run of the directory on disk    *)
(* executes, except for links, whiteout names, and the files a regular     *)
(* whiteout name beside them hides.                                        *)
RoundTrip ==
    runner = "done" /\ img # Others =>
        executed = {c \in RunCases(tree) :
                       /\ tree[c[1]].cases = "dir"
                       /\ c[2].type = "regular" /\ ~c[2].whiteout
                       /\ ~\E w \in tree[c[1]].files : w.type = "regular" /\ Hides(w, c[2])}

(* publish writes the digest "so a pipeline can pin a later run to the     *)
(* exact image it published" (publish/command.go, help text).  Whoever     *)
(* moves the tag, and whatever fails, the digest on file can be pulled and *)
(* is the image built here; and a report names the image whose cases were  *)
(* executed.                                                               *)
DigestPins ==
    /\ digestFile # NoImage => digestFile \in registry /\ digestFile = Layer(tree, TestDirs)
    /\ runner = "done" => executed = RunCases(Extracted(digest))

(* A directory that validates has no case file a run would execute, on     *)
(* disk or from the image, that was not looked at and found valid; unless  *)
(* the directory is itself a suite, which run does not treat as one.       *)
ValidatedIsRun ==
    checked.verdict = "ok" /\ ~IsSuiteDir(own) =>
        \A c \in RunCases(tree) \cup (IF img = Others THEN {} ELSE executed) :
            c \in checked.files /\ c[2].valid

(* Neither the temporary layer nor the extracted directory outlives its    *)
(* command, on any path.                                                   *)
ScratchRemoved ==
    /\ publisher \in {"ok", "error"} => layer = NoImage
    /\ runner \in {"done", "error"} => temp = NoImage
=============================================================================
