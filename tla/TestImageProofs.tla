--------------------------- MODULE TestImageProofs ---------------------------
(***************************************************************************)
(* The three readers of a tests directory, proved for every directory and  *)
(* every interleaving of validate, publish, run and whoever else pushes.   *)
(***************************************************************************)
EXTENDS TestImage, TLAPS

(* What a run of the published image executes: the regular case files of   *)
(* the cases directories that carry no whiteout name, unless a regular     *)
(* whiteout beside them hides them.                                        *)
WhitedOut(f, files) == \E w \in files : w.type = "regular" /\ Hides(w, f)
Portable(t) ==
    {c \in RunCases(t) : /\ t[c[1]].cases = "dir" /\ c[2].type = "regular" /\ ~c[2].whiteout
                         /\ ~WhitedOut(c[2], t[c[1]].files)}

(* Of the files of a cases directory, those that are there again when its  *)
(* image is extracted.                                                     *)
Shipped(files) ==
    {f \in files : /\ IncludeLayerEntry(f) /\ ~f.whiteout
                   /\ ~Hidden(f, {g \in files : IncludeLayerEntry(g)})}

(* The image publish builds from the directory. *)
Built == Layer(tree, TestDirs)

(* publish: what was found is what there is, the layer file is there while *)
(* it is pushed, and a digest is written of an image the registry has.     *)
PublishInv ==
    /\ publisher \in {"layer", "push", "digest", "ok"} => found = TestDirs
    /\ layer = IF publisher = "push" THEN Built ELSE NoImage
    /\ publisher = "digest" => Built \in registry
    /\ digestFile # NoImage => digestFile \in registry /\ digestFile = Built

(* The registry has what publish built here and what others pushed. *)
RegistryInv == registry \subseteq {Built, Others}

(* run: the extracted directory is there between extract and the end, and  *)
(* what was executed came from the image that was pulled.                  *)
RunInv ==
    /\ runner \in {"extract", "digest", "run", "done"} => img \in registry
    /\ temp = IF runner \in {"digest", "run"} THEN Extracted(img) ELSE NoImage
    /\ runner \in {"run", "done"} => digest = img
    /\ executed = IF runner = "done" THEN RunCases(Extracted(img)) ELSE {}

(* validate: a directory is ok when every file it looked at is valid. *)
CheckedInv ==
    checked.verdict = "ok" =>
        checked.files = ValidateFiles /\ \A c \in ValidateFiles : c[2].valid

Inv == TypeOK /\ PublishInv /\ RegistryInv /\ RunInv /\ CheckedInv
-----------------------------------------------------------------------------
(* The operators the model is built from. *)

(* A run's case files, one by one: suite and file (forEach, runLocal). *)
LEMMA CasesOfMember ==
    ASSUME NEW t, NEW S, NEW c
    PROVE  c \in CasesOf(t, S) <=> \E n \in S : \E f \in CaseFiles(t[n]) : c = <<n, f>>
BY DEF CasesOf

(* The case files of a suite are among its files (forEach). *)
LEMMA CaseFilesType ==
    ASSUME NEW e \in Entry
    PROVE  CaseFiles(e) \subseteq e.files /\ CaseFiles(e) \subseteq File
BY DEF CaseFiles, Entry

(* The cases a run of a directory executes are files of its entries. *)
LEMMA RunCasesType ==
    ASSUME NEW t \in [Names -> Entry]
    PROVE  RunCases(t) \subseteq Names \X File
<1> SUFFICES ASSUME NEW c \in RunCases(t) PROVE c \in Names \X File
  OBVIOUS
<1>1. PICK n \in RunSuites(t) : \E f \in CaseFiles(t[n]) : c = <<n, f>>
  BY CasesOfMember DEF RunCases
<1>2. n \in Names /\ t[n] \in Entry
  BY DEF RunSuites
<1> QED BY <1>1, <1>2, CaseFilesType

(* No image at all is an empty directory. *)
LEMMA NoImageType == NoImage \in [Names -> Entry]
<1>1. NoEntry \in Entry
  BY DEF NoEntry, Entry
<1> QED BY <1>1 DEF NoImage

(* addDirToTar makes a directory entry of a suite. *)
LEMMA PackedType ==
    ASSUME NEW e \in Entry
    PROVE  Packed(e) \in Entry
<1>1. e.files \subseteq File
  BY DEF Entry
<1>2. {f \in e.files : IncludeLayerEntry(f)} \in SUBSET File
  BY <1>1
<1> QED BY <1>2 DEF Packed, Entry

(* The layer holds a directory. *)
LEMMA LayerType ==
    ASSUME NEW t \in [Names -> Entry], NEW D
    PROVE  Layer(t, D) \in [Names -> Entry]
<1>1. NoEntry \in Entry
  BY DEF NoEntry, Entry
<1> QED BY <1>1, PackedType DEF Layer

(* An extracted entry is the image's without its whiteout names and what   *)
(* they hide (mutate.Extract, extract).                                    *)
LEMMA ExtractedEntry ==
    ASSUME NEW t \in [Names -> Entry], NEW n \in Names
    PROVE  /\ Extracted(t)[n] \in Entry
           /\ Extracted(t)[n].kind = t[n].kind
           /\ Extracted(t)[n].cases = t[n].cases
           /\ Extracted(t)[n].files = {f \in t[n].files : ~f.whiteout /\ ~Hidden(f, t[n].files)}
<1> DEFINE fs == {f \in t[n].files : ~f.whiteout /\ ~Hidden(f, t[n].files)}
<1>1. t[n] \in Entry
  OBVIOUS
<1>2. Extracted(t)[n] = [t[n] EXCEPT !.files = fs]
  BY DEF Extracted
<1>3. fs \in SUBSET File
  BY <1>1 DEF Entry
<1> HIDE DEF fs
<1>4. /\ [t[n] EXCEPT !.files = fs] \in Entry
      /\ [t[n] EXCEPT !.files = fs].kind = t[n].kind
      /\ [t[n] EXCEPT !.files = fs].cases = t[n].cases
      /\ [t[n] EXCEPT !.files = fs].files = fs
  BY <1>1, <1>3 DEF Entry
<1> QED BY <1>2, <1>4 DEF fs

(* An extracted image is a directory. *)
LEMMA ExtractedType ==
    ASSUME NEW t \in [Names -> Entry]
    PROVE  Extracted(t) \in [Names -> Entry]
<1>1. Extracted(t) = [n \in Names |-> Extracted(t)[n]]
  BY DEF Extracted
<1> QED BY <1>1, ExtractedEntry

(* A packed whiteout hides a case file exactly if a regular one does:      *)
(* includeLayerEntry packs every regular file with the case's extension.   *)
LEMMA PackedWhiteouts ==
    ASSUME NEW files, NEW f, f.ext = ".yaml"
    PROVE  Hidden(f, {g \in files : IncludeLayerEntry(g)}) <=> WhitedOut(f, files)
<1>1. ASSUME NEW w \in files, Hides(w, f)
      PROVE  IncludeLayerEntry(w) <=> w.type = "regular"
  BY <1>1 DEF Hides, IncludeLayerEntry
<1> QED BY <1>1 DEF Hidden, WhitedOut

(* What is extracted from the image of a directory: its test directories   *)
(* with those files of their cases directories that are packed, carry no   *)
(* whiteout name and are not hidden by one (findTestDirs, addDirToTar and  *)
(* extract in a row).                                                      *)
LEMMA ShippedEntry ==
    ASSUME NEW t \in [Names -> Entry], NEW D \in SUBSET Names, NEW n \in Names
    PROVE  LET e == Extracted(Layer(t, D))[n]
           IN  /\ e.kind = "dir" <=> n \in D
               /\ n \in D => /\ e.cases = "dir" <=> t[n].cases = "dir"
                             /\ e.cases # "link"
                             /\ t[n].cases = "dir" => e.files = Shipped(t[n].files)
<1> DEFINE l == Layer(t, D)
           e == Extracted(l)[n]
<1>0. l \in [Names -> Entry]
  BY LayerType
<1>1. l[n] = IF n \in D THEN Packed(t[n]) ELSE NoEntry
  BY DEF Layer
<1> HIDE DEF l
<1>2. /\ e.kind = l[n].kind /\ e.cases = l[n].cases
      /\ e.files = {f \in l[n].files : ~f.whiteout /\ ~Hidden(f, l[n].files)}
  BY <1>0, ExtractedEntry
<1> HIDE DEF e
<1>3. CASE n \notin D
  BY <1>1, <1>2, <1>3 DEF NoEntry, e, l
<1>4. CASE n \in D /\ t[n].cases = "dir"
  <2>1. /\ l[n].kind = "dir" /\ l[n].cases = "dir"
        /\ l[n].files = {f \in t[n].files : IncludeLayerEntry(f)}
    BY <1>1, <1>4 DEF Packed
  <2>2. e.files = Shipped(t[n].files)
    BY <2>1, <1>2 DEF Shipped
  <2> QED BY <1>4, <2>1, <2>2, <1>2 DEF e, l
<1>5. CASE n \in D /\ t[n].cases # "dir"
  <2>1. l[n].kind = "dir" /\ l[n].cases = "absent"
    BY <1>1, <1>5 DEF Packed
  <2> QED BY <1>5, <2>1, <1>2 DEF e, l
<1> QED BY <1>3, <1>4, <1>5

(* Publishing neither loses nor adds a portable case file: what a run of   *)
(* the image executes are the portable cases of the directory.             *)
LEMMA ShippedCases ==
    ASSUME tree \in [Names -> Entry]
    PROVE  RunCases(Extracted(Built)) = Portable(tree)
<1> DEFINE x == Extracted(Built)
<1>0. TestDirs \in SUBSET Names
  BY DEF TestDirs
<1>1. ASSUME NEW n \in Names
      PROVE  /\ x[n].kind = "dir" <=> n \in TestDirs
             /\ n \in TestDirs => /\ x[n].cases = "dir" <=> tree[n].cases = "dir"
                                  /\ x[n].cases # "link"
                                  /\ tree[n].cases = "dir" => x[n].files = Shipped(tree[n].files)
  BY <1>0, ShippedEntry DEF Built
<1> HIDE DEF x
<1>2. ASSUME NEW n \in RunSuites(x), NEW f \in CaseFiles(x[n])
      PROVE  <<n, f>> \in Portable(tree)
  <2>1. n \in Names /\ n \in TestDirs
    BY <1>1 DEF RunSuites
  <2>2. x[n].cases \in {"dir", "link"} /\ f \in x[n].files /\ f.type # "dir" /\ f.ext = ".yaml"
    BY DEF CaseFiles
  <2>3. tree[n].cases = "dir" /\ f \in Shipped(tree[n].files)
    BY <2>1, <2>2, <1>1
  <2>4. f \in CaseFiles(tree[n]) /\ f.type = "regular" /\ ~f.whiteout
    BY <2>2, <2>3 DEF CaseFiles, IncludeLayerEntry, Shipped
  <2>5. n \in RunSuites(tree)
    BY <2>1 DEF TestDirs, RunSuites
  <2>6. <<n, f>> \in RunCases(tree)
    BY <2>4, <2>5, CasesOfMember DEF RunCases
  <2>7. ~WhitedOut(f, tree[n].files)
    BY <2>2, <2>3, PackedWhiteouts DEF Shipped
  <2> QED BY <2>3, <2>4, <2>6, <2>7 DEF Portable
<1>3. ASSUME NEW n \in RunSuites(tree), NEW f \in CaseFiles(tree[n]),
             tree[n].cases = "dir", f.type = "regular", ~f.whiteout,
             ~WhitedOut(f, tree[n].files)
      PROVE  <<n, f>> \in RunCases(x)
  <2>1. n \in Names /\ n \in TestDirs
    BY <1>3 DEF RunSuites, TestDirs
  <2>2. f \in tree[n].files /\ f.ext = ".yaml" /\ f.type # "dir"
    BY <1>3 DEF CaseFiles
  <2>3. IncludeLayerEntry(f)
    BY <1>3, <2>2 DEF IncludeLayerEntry
  <2>4. f \in Shipped(tree[n].files)
    BY <2>2, <2>3, <1>3, PackedWhiteouts DEF Shipped
  <2>5. x[n].kind = "dir" /\ x[n].cases = "dir" /\ f \in x[n].files
    BY <2>1, <2>4, <1>1, <1>3
  <2>6. f \in CaseFiles(x[n]) /\ n \in RunSuites(x)
    BY <2>1, <2>2, <2>5 DEF CaseFiles, RunSuites
  <2> QED BY <2>6, CasesOfMember DEF RunCases
<1>4. ASSUME NEW c \in RunCases(x) PROVE c \in Portable(tree)
  <2>1. PICK n \in RunSuites(x) : \E f \in CaseFiles(x[n]) : c = <<n, f>>
    BY CasesOfMember DEF RunCases
  <2> QED BY <2>1, <1>2
<1>5. ASSUME NEW c \in Portable(tree) PROVE c \in RunCases(x)
  <2>1. /\ c \in RunCases(tree) /\ tree[c[1]].cases = "dir"
        /\ c[2].type = "regular" /\ ~c[2].whiteout
        /\ ~WhitedOut(c[2], tree[c[1]].files)
    BY DEF Portable
  <2>2. PICK n \in RunSuites(tree) : \E f \in CaseFiles(tree[n]) : c = <<n, f>>
    BY <2>1, CasesOfMember DEF RunCases
  <2> QED BY <2>1, <2>2, <1>3
<1> QED BY <1>4, <1>5 DEF x

(* A directory that is not itself a suite: validate looks at every case    *)
(* file a run of it executes (findSuiteDirs, isSuiteDir and forEach).      *)
LEMMA ValidateSeesRun ==
    ASSUME ~IsSuiteDir(own)
    PROVE  RunCases(tree) \subseteq ValidateFiles
<1> SUFFICES ASSUME NEW c \in RunCases(tree) PROVE c \in CasesOf(tree, SuiteDirs)
  BY DEF ValidateFiles
<1>1. PICK n \in RunSuites(tree) : \E f \in CaseFiles(tree[n]) : c = <<n, f>>
  BY CasesOfMember DEF RunCases
<1>2. n \in SuiteDirs
  BY <1>1 DEF CaseFiles, RunSuites, SuiteDirs, IsSuiteDir
<1> QED BY <1>1, <1>2, CasesOfMember
-----------------------------------------------------------------------------
(* The inductive invariant. *)

(* The files validate looks at are files of the directory. *)
LEMMA ValidateFilesType ==
    ASSUME TypeOK
    PROVE  ValidateFiles \subseteq (Names \cup {"."}) \X File
<1>0. tree \in [Names -> Entry] /\ own \in Entry
  BY TestImageAssumption DEF TypeOK
<1>1. CASE IsSuiteDir(own)
  BY <1>0, <1>1, CaseFilesType DEF ValidateFiles
<1>2. CASE ~IsSuiteDir(own)
  <2> SUFFICES ASSUME NEW c \in CasesOf(tree, SuiteDirs) PROVE c \in Names \X File
    BY <1>2 DEF ValidateFiles
  <2>1. PICK n \in SuiteDirs : \E f \in CaseFiles(tree[n]) : c = <<n, f>>
    BY CasesOfMember
  <2>2. n \in Names /\ tree[n] \in Entry
    BY <1>0 DEF SuiteDirs
  <2> QED BY <2>1, <2>2, CaseFilesType
<1> QED BY <1>1, <1>2

(* What is built is a directory. *)
LEMMA BuiltType == ASSUME TypeOK PROVE Built \in [Names -> Entry]
BY TestImageAssumption, LayerType DEF TypeOK, Built

(* Nothing has been built, pulled or executed when the commands start. *)
LEMMA InitInv == Init => Inv
<1> SUFFICES ASSUME Init PROVE Inv
  OBVIOUS
<1> USE DEF Init
<1>1. TypeOK
  BY TestImageAssumption, NoImageType DEF TypeOK
<1>2. PublishInv /\ RegistryInv /\ RunInv /\ CheckedInv
  BY DEF PublishInv, RegistryInv, RunInv, CheckedInv
<1> QED BY <1>1, <1>2 DEF Inv

(* tests validate changes its own verdict and nothing else. *)
LEMMA ValidateInv == Inv /\ Validate => Inv'
<1> SUFFICES ASSUME Inv, Validate PROVE Inv'
  OBVIOUS
<1> USE DEF Inv, Validate, publish, run
<1>1. TypeOK'
  <2>1. CASE checked' = [verdict |-> "error", files |-> {}]
    BY <2>1 DEF TypeOK
  <2>2. CASE checked' = [verdict |-> IF \A c \in ValidateFiles : c[2].valid THEN "ok" ELSE "invalid",
                         files |-> ValidateFiles]
    BY <2>2, ValidateFilesType DEF TypeOK
  <2> QED BY <2>1, <2>2
<1>2. PublishInv' /\ RegistryInv' /\ RunInv'
  BY DEF PublishInv, RegistryInv, RunInv, Built, TestDirs
<1>3. CheckedInv'
  <2>1. ValidateFiles' = ValidateFiles
    BY DEF ValidateFiles, SuiteDirs
  <2> QED BY <2>1 DEF CheckedInv
<1> QED BY <1>1, <1>2, <1>3

(* findTestDirs finds the test directories or none. *)
LEMMA FindTestDirsInv == Inv /\ FindTestDirs => Inv'
<1> SUFFICES ASSUME Inv, FindTestDirs PROVE Inv'
  OBVIOUS
<1> USE DEF Inv, FindTestDirs, run
<1>1. TypeOK'
  BY DEF TypeOK, TestDirs
<1>2. PublishInv' /\ RegistryInv' /\ RunInv'
  BY DEF PublishInv, RegistryInv, RunInv, Built, TestDirs
<1>3. CheckedInv'
  BY DEF CheckedInv, ValidateFiles, SuiteDirs
<1> QED BY <1>1, <1>2, <1>3

(* writeTestLayer leaves a layer file of what was found, or none. *)
LEMMA WriteTestLayerInv == Inv /\ WriteTestLayer => Inv'
<1> SUFFICES ASSUME Inv, WriteTestLayer PROVE Inv'
  OBVIOUS
<1> USE DEF Inv, WriteTestLayer, LayerAfterError, run
<1>1. Layer(tree, found) = Built
  BY DEF PublishInv, Built
<1>2. TypeOK'
  BY <1>1, BuiltType, NoImageType DEF TypeOK
<1>3. PublishInv' /\ RegistryInv' /\ RunInv'
  BY <1>1 DEF PublishInv, RegistryInv, RunInv, Built, TestDirs
<1>4. CheckedInv'
  BY DEF CheckedInv, ValidateFiles, SuiteDirs
<1> QED BY <1>2, <1>3, <1>4

(* remote.Write puts the built image in the registry or fails; the layer   *)
(* file is gone either way.                                                *)
LEMMA PushInv == Inv /\ Push => Inv'
<1> SUFFICES ASSUME Inv, Push PROVE Inv'
  OBVIOUS
<1> USE DEF Inv, Push, run
<1>1. layer = Built /\ Built \in [Names -> Entry]
  BY BuiltType DEF PublishInv
<1>2. Built' = Built
  BY DEF Built, TestDirs
<1>3. TypeOK'
  BY <1>1, NoImageType DEF TypeOK
<1>4. PublishInv'
  BY <1>1, <1>2 DEF PublishInv, TestDirs
<1>5. RegistryInv'
  BY <1>1, <1>2 DEF RegistryInv
<1>6. RunInv'
  BY DEF RunInv
<1>7. CheckedInv'
  BY DEF CheckedInv, ValidateFiles, SuiteDirs
<1> QED BY <1>3, <1>4, <1>5, <1>6, <1>7

(* writeDigest writes the digest of the image that is in the registry. *)
LEMMA WriteDigestInv == Inv /\ WriteDigest => Inv'
<1> SUFFICES ASSUME Inv, WriteDigest PROVE Inv'
  OBVIOUS
<1> USE DEF Inv, WriteDigest, run
<1>1. BuiltDigest = Built /\ Built \in [Names -> Entry]
  BY BuiltType DEF PublishInv, BuiltDigest, Built
<1>2. Built' = Built
  BY DEF Built, TestDirs
<1>3. TypeOK'
  BY <1>1 DEF TypeOK
<1>4. PublishInv'
  BY <1>1, <1>2 DEF PublishInv, TestDirs
<1>5. RegistryInv' /\ RunInv'
  BY <1>2 DEF RegistryInv, RunInv
<1>6. CheckedInv'
  BY DEF CheckedInv, ValidateFiles, SuiteDirs
<1> QED BY <1>3, <1>4, <1>5, <1>6

(* Another push moves the tag and removes no image. *)
LEMMA OthersPushInv == Inv /\ OthersPush => Inv'
<1> SUFFICES ASSUME Inv, OthersPush PROVE Inv'
  OBVIOUS
<1> USE DEF Inv, OthersPush, publish, run
<1>1. Built' = Built
  BY DEF Built, TestDirs
<1>2. TypeOK'
  BY TestImageAssumption DEF TypeOK
<1>3. PublishInv'
  BY <1>1 DEF PublishInv, TestDirs
<1>4. RegistryInv' /\ RunInv'
  BY <1>1 DEF RegistryInv, RunInv
<1>5. CheckedInv'
  BY DEF CheckedInv, ValidateFiles, SuiteDirs
<1> QED BY <1>2, <1>3, <1>4, <1>5

(* run --remote: what is pulled, extracted, named and executed is one and  *)
(* the same image, and the extracted directory goes with the run.          *)
LEMMA RunnerInv == Inv /\ (Pull \/ Extract \/ GetDigest \/ RunLocal) => Inv'
<1> SUFFICES ASSUME Inv, Pull \/ Extract \/ GetDigest \/ RunLocal PROVE Inv'
  OBVIOUS
<1> USE DEF Inv, publish
<1>0. UNCHANGED <<tree, own, checked, publish, registry, tag, digestFile>>
  BY DEF Pull, Extract, GetDigest, RunLocal
<1>1. PublishInv' /\ RegistryInv'
  BY <1>0 DEF PublishInv, RegistryInv, Built, TestDirs
<1>2. CheckedInv'
  BY <1>0 DEF CheckedInv, ValidateFiles, SuiteDirs
<1>3. img \in [Names -> Entry] /\ Extracted(img) \in [Names -> Entry]
  BY ExtractedType DEF TypeOK
<1>4. TypeOK'
  <2>1. CASE Pull
    BY <1>0, <2>1 DEF TypeOK, Pull
  <2>2. CASE Extract
    BY <1>0, <2>2, <1>3 DEF TypeOK, Extract
  <2>3. CASE GetDigest
    BY <1>0, <2>3, NoImageType DEF TypeOK, GetDigest, ImageDigest
  <2>4. CASE RunLocal
    <3>1. executed' \subseteq Names \X File
      BY <2>4, RunCasesType DEF TypeOK, RunLocal
    <3> QED BY <1>0, <2>4, <3>1, NoImageType DEF TypeOK, RunLocal
  <2> QED BY <2>1, <2>2, <2>3, <2>4
<1>5. RunInv'
  <2>1. CASE Pull
    BY <2>1 DEF RunInv, Pull
  <2>2. CASE Extract
    BY <2>2 DEF RunInv, Extract
  <2>3. CASE GetDigest
    BY <2>3 DEF RunInv, GetDigest, ImageDigest
  <2>4. CASE RunLocal
    BY <2>4 DEF RunInv, RunLocal
  <2> QED BY <2>1, <2>2, <2>3, <2>4
<1> QED BY <1>1, <1>2, <1>4, <1>5

(* Stuttering changes nothing the invariant reads. *)
LEMMA StutterInv == Inv /\ UNCHANGED vars => Inv'
BY DEF Inv, TypeOK, PublishInv, RegistryInv, RunInv, CheckedInv, Built, TestDirs,
       ValidateFiles, SuiteDirs, vars

(* Every step of a command or of somebody else keeps the invariant. *)
LEMMA NextInv == Inv /\ [Next]_vars => Inv'
BY ValidateInv, FindTestDirsInv, WriteTestLayerInv, PushInv, WriteDigestInv, OthersPushInv,
   RunnerInv, StutterInv DEF Next, Done

(* The invariant holds throughout. *)
THEOREM Invariance == Spec => []Inv
<1>1. Inv /\ [Next]_vars => Inv'
  BY NextInv
<1> QED BY InitInv, <1>1, PTL DEF Spec
-----------------------------------------------------------------------------
(* Every variable keeps its type, in every tests directory and whoever     *)
(* pushes (internal/validate, internal/image, pkg/engine).                 *)
THEOREM TypeCorrect == Spec => []TypeOK
<1>1. Inv => TypeOK
  BY DEF Inv
<1> QED BY Invariance, <1>1, PTL

(* Build and Traverse remove what they put on disk: no layer file outlives *)
(* publish and no extracted directory outlives run, on any path.           *)
THEOREM ScratchIsRemoved == Spec => []ScratchRemoved
<1>1. Inv => ScratchRemoved
  BY DEF Inv, PublishInv, RunInv, ScratchRemoved
<1> QED BY Invariance, <1>1, PTL

(* writeDigest pins: for every directory and every push of others, the     *)
(* digest on file names an image that is in the registry and was built     *)
(* here, and a report's digest names what was executed.                    *)
THEOREM DigestIsPinned == Spec => []DigestPins
<1>1. Inv => DigestPins
  BY DEF Inv, PublishInv, RunInv, DigestPins, Built
<1> QED BY Invariance, <1>1, PTL

(* An image that is not somebody else's is the one built here. *)
LEMMA OwnImage ==
    ASSUME Inv, runner = "done", img # Others
    PROVE  executed = Portable(tree)
<1>1. img = Built
  BY DEF Inv, RunInv, RegistryInv
<1>2. tree \in [Names -> Entry]
  BY TestImageAssumption DEF Inv, TypeOK
<1> QED BY <1>1, <1>2, ShippedCases DEF Inv, RunInv

(* Publishing and running from the registry executes exactly the portable  *)
(* cases a run from disk executes, for every tests directory and whatever  *)
(* whiteout names are in it: findTestDirs and includeLayerEntry agree with *)
(* runLocal and forEach on them.                                           *)
THEOREM RoundTrips == Spec => []RoundTrip
<1>1. Inv => RoundTrip
  BY OwnImage DEF RoundTrip, Portable, WhitedOut
<1> QED BY Invariance, <1>1, PTL

(* A directory that tests validate accepts, and that is no suite itself,   *)
(* has no case a run executes, from disk or from its image, that validate  *)
(* did not look at and find valid.                                         *)
THEOREM ValidatedIsWhatRuns == Spec => []ValidatedIsRun
<1>1. Inv => ValidatedIsRun
  <2> SUFFICES ASSUME Inv, checked.verdict = "ok", ~IsSuiteDir(own),
                      NEW c \in RunCases(tree) \cup (IF img = Others THEN {} ELSE executed)
               PROVE  c \in checked.files /\ c[2].valid
    BY DEF ValidatedIsRun
  <2>1. c \in RunCases(tree)
    <3>1. CASE img # Others /\ runner = "done"
      BY <3>1, OwnImage DEF Portable
    <3>2. CASE runner # "done"
      BY <3>2 DEF Inv, RunInv
    <3> QED BY <3>1, <3>2
  <2>2. c \in ValidateFiles
    BY <2>1, ValidateSeesRun
  <2> QED BY <2>2 DEF Inv, CheckedInv
<1> QED BY Invariance, <1>1, PTL
=============================================================================
