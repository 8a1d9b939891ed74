--------------------------- MODULE RebuildProofs ----------------------------
(***************************************************************************)
(* What TLAPS proves about the two ways to run the generator, for any set  *)
(* of files and any number of edits, removals and deaths: first the build  *)
(* script (Rebuild), then either driver (MacroBuild).                      *)
(***************************************************************************)
EXTENDS MacroBuild, TLAPS

(* What the run takes the text of a file to be; a file that was not listed *)
(* counts as absent.                                                       *)
TextRead(f) == IF f \in DOMAIN read THEN read[f] ELSE Absent

Scanned == script \in {"reading", "writing_rs", "writing_ts"} \/ succeeded

(* A file that was read, or not listed, and has not changed since the run  *)
(* started has the text that the run knows.                                *)
ReadIsCurrent ==
    Scanned => \A f \in Files \ (todo \cup dirty) : source[f] = TextRead(f)

(* Nothing is left to read when the outputs are written.                   *)
ScanIsComplete == (script \in {"writing_rs", "writing_ts"} \/ succeeded) => todo = {}

(* An output that was written, and has not changed since the run started,  *)
(* is rendered from what was read.                                         *)
RustIsRendered ==
    (script = "writing_ts" \/ succeeded) =>
        "generated_rs" \in dirty \/ rs = RenderGeneratedRs(read)

IndexIsRendered ==
    succeeded /\ ~ rustOnly =>
        /\ "index_ts" \in watched
        /\ "index_ts" \in dirty \/ ts = RenderIndex(read)

(* With rust_only there is no index.ts to write.                           *)
RustOnlyStops == script = "writing_ts" => ~ rustOnly

(* cargo is told of src_dir before anything is read.                       *)
SourcesAreWatched == (script # "idle" \/ succeeded) => "src_dir" \in watched

IInv ==
    /\ TypeOK
    /\ ReadIsCurrent
    /\ ScanIsComplete
    /\ RustIsRendered
    /\ IndexIsRendered
    /\ RustOnlyStops
    /\ SourcesAreWatched

-----------------------------------------------------------------------------
(* The initial states are type correct.                                    *)
LEMMA InitTyped == Init => TypeOK
<1> SUFFICES ASSUME Init PROVE TypeOK
  OBVIOUS
<1>1. source \in [Files -> Text]
  BY DEF Init, Text
<1>2. DOMAIN read = {}
  BY SMT DEF Init
<1>3. /\ rustOnly \in BOOLEAN
      /\ script = "idle"
      /\ succeeded \in BOOLEAN
  BY DEF Init
<1>4. todo \subseteq Files /\ watched \subseteq {} /\ dirty \subseteq {}
  BY DEF Init
<1>5. disturbances \in 0 .. MaxDisturbances /\ reruns \in 0 .. 3
  BY BoundAssumption DEF Init
<1> QED
  BY <1>1, <1>2, <1>3, <1>4, <1>5 DEF TypeOK

(* Every step keeps the types.                                             *)
LEMMA TypeKept == TypeOK /\ [Next]_vars => TypeOK'
<1> SUFFICES ASSUME TypeOK, [Next]_vars PROVE TypeOK'
  OBVIOUS
<1> USE DEF TypeOK
<1>1. CASE Start
  <2>1. reruns' \in 0 .. 3
    BY <1>1 DEF Start
  <2>2. /\ script' = "collecting"
        /\ succeeded' \in BOOLEAN
        /\ ~ succeeded'
    BY <1>1 DEF Start
  <2>3. dirty' = {} /\ watched' = {"src_dir"}
    BY <1>1 DEF Start
  <2> QED
    BY <1>1, <2>1, <2>2, <2>3 DEF Start, files, scan
<1>2. CASE CollectRsFiles
  BY <1>2 DEF CollectRsFiles, Listing, Present, files, cargo
<1>3. ASSUME NEW f \in Files, ReadFile(f) PROVE TypeOK'
  BY <1>3 DEF ReadFile, files, cargo
<1>4. CASE ParseTraits
  BY <1>4 DEF ParseTraits, files, scan, cargo
<1>5. CASE WriteGeneratedRs
  BY <1>5 DEF WriteGeneratedRs, scan
<1>6. CASE WriteIndex
  BY <1>6 DEF WriteIndex, IndexWritten, scan
<1>7. ASSUME NEW f \in Files, NEW text \in Text, Edit(f, text) PROVE TypeOK'
  BY <1>7, BoundAssumption DEF Edit, Disturbed, scan
<1>8. ASSUME NEW path \in {"generated_rs", "index_ts"},
             NEW text \in {Missing, Foreign}, Tamper(path, text)
      PROVE  TypeOK'
  BY <1>8, BoundAssumption DEF Tamper, Disturbed, scan
<1>9. CASE Die
  BY <1>9, BoundAssumption DEF Die, Disturbed, scan, cargo
<1>10. CASE UNCHANGED vars
  BY <1>10 DEF vars, files, scan, cargo
<1>11. CASE RenderPanics
  BY <1>11 DEF RenderPanics, files, scan, cargo
<1> QED
  BY <1>1, <1>2, <1>3, <1>4, <1>5, <1>6, <1>7, <1>8, <1>9, <1>10, <1>11
  DEF Next, Run, Environment

(* Type correctness: the variables keep their types, a scan never reads    *)
(* _generated.rs, and cargo knows of no success while a script runs.       *)
THEOREM TypeCorrect == Spec => []TypeOK
BY InitTyped, TypeKept, PTL DEF Spec

-----------------------------------------------------------------------------
(* What is rendered depends on the texts that files really have only.      *)
LEMMA RenderedAlike ==
    ASSUME DOMAIN read \subseteq Files, DOMAIN source = Files,
           \A f \in Files : source[f] = TextRead(f)
    PROVE  /\ RenderGeneratedRs(read) = RenderGeneratedRs(source)
           /\ RenderIndex(read) = RenderIndex(source)
<1>1. Absent \notin Good
  BY DEF Absent, Good
<1>2. GoodFiles(read) = GoodFiles(source)
  BY <1>1 DEF GoodFiles, TextRead
<1>3. \A f \in GoodFiles(read) : read[f] = source[f]
  BY DEF GoodFiles, TextRead
<1> QED
  BY <1>2, <1>3 DEF RenderGeneratedRs, RenderIndex

(* The inductive invariant is kept by every step.                          *)
LEMMA InvariantKept == IInv /\ TypeOK' /\ [Next]_vars => IInv'
<1> SUFFICES ASSUME IInv, TypeOK', [Next]_vars PROVE IInv'
  OBVIOUS
<1> USE DEF IInv, TypeOK, Scanned, RustOnlyStops
<1>1. CASE Start
  BY <1>1 DEF Start, files, scan, ReadIsCurrent, ScanIsComplete, RustIsRendered,
              IndexIsRendered, SourcesAreWatched
<1>2. CASE CollectRsFiles
  <2>1. DOMAIN read' = {}
    BY <1>2, SMT DEF CollectRsFiles
  <2>2. ReadIsCurrent'
    BY <1>2, <2>1 DEF CollectRsFiles, Listing, Present, files, cargo,
                      ReadIsCurrent, TextRead
  <2> QED
    BY <1>2, <2>2 DEF CollectRsFiles, files, cargo, ScanIsComplete,
                      RustIsRendered, IndexIsRendered, SourcesAreWatched
<1>3. ASSUME NEW f \in Files, ReadFile(f) PROVE IInv'
  <2>1. ReadIsCurrent'
    <3> SUFFICES ASSUME NEW g \in Files \ (todo' \cup dirty')
                 PROVE  source[g] = TextRead(g)'
      BY <1>3 DEF ReadFile, files, ReadIsCurrent
    <3>1. CASE g = f
      BY <1>3, <3>1 DEF ReadFile, TextRead
    <3>2. CASE g # f
      <4>1. source[g] = TextRead(g)
        BY <1>3, <3>2 DEF ReadFile, cargo, ReadIsCurrent
      <4> QED
        BY <1>3, <3>2, <4>1 DEF ReadFile, TextRead
    <3> QED
      BY <3>1, <3>2
  <2> QED
    BY <1>3, <2>1 DEF ReadFile, files, cargo, ScanIsComplete,
                      RustIsRendered, IndexIsRendered, SourcesAreWatched
<1>4. CASE ParseTraits
  BY <1>4 DEF ParseTraits, files, scan, cargo, ReadIsCurrent, TextRead,
              ScanIsComplete, RustIsRendered, IndexIsRendered, SourcesAreWatched
<1>5. CASE WriteGeneratedRs
  <2>1. ReadIsCurrent' /\ ScanIsComplete'
    BY <1>5 DEF WriteGeneratedRs, scan, ReadIsCurrent, TextRead, ScanIsComplete
  <2>2. RustIsRendered' /\ IndexIsRendered' /\ SourcesAreWatched'
    BY <1>5 DEF WriteGeneratedRs, scan, RenderGeneratedRs, GoodFiles,
                RustIsRendered, IndexIsRendered, SourcesAreWatched
  <2>3. RustOnlyStops'
    BY <1>5 DEF WriteGeneratedRs
  <2> QED
    BY <2>1, <2>2, <2>3
<1>6. CASE WriteIndex
  <2>1. ReadIsCurrent' /\ ScanIsComplete'
    BY <1>6 DEF WriteIndex, IndexWritten, scan, ReadIsCurrent, TextRead,
                ScanIsComplete
  <2>2. RustIsRendered' /\ IndexIsRendered' /\ SourcesAreWatched'
    BY <1>6 DEF WriteIndex, IndexWritten, scan, RenderGeneratedRs, RenderIndex,
                GoodFiles, RustIsRendered, IndexIsRendered, SourcesAreWatched
  <2>3. RustOnlyStops'
    BY <1>6 DEF WriteIndex, IndexWritten
  <2> QED
    BY <2>1, <2>2, <2>3
<1>7. ASSUME NEW f \in Files, NEW text \in Text, Edit(f, text) PROVE IInv'
  <2>1. ReadIsCurrent'
    BY <1>7 DEF Edit, scan, ReadIsCurrent, TextRead
  <2> QED
    BY <1>7, <2>1 DEF Edit, scan, RenderGeneratedRs, RenderIndex, GoodFiles,
                      ScanIsComplete, RustIsRendered, IndexIsRendered,
                      SourcesAreWatched
<1>8. ASSUME NEW path \in {"generated_rs", "index_ts"},
             NEW text \in {Missing, Foreign}, Tamper(path, text)
      PROVE  IInv'
  <2>1. ReadIsCurrent'
    BY <1>8 DEF Tamper, scan, ReadIsCurrent, TextRead
  <2> QED
    BY <1>8, <2>1 DEF Tamper, scan, RenderGeneratedRs, RenderIndex, GoodFiles,
                      ScanIsComplete, RustIsRendered, IndexIsRendered,
                      SourcesAreWatched
<1>9. CASE Die
  BY <1>9 DEF Die, scan, cargo, ReadIsCurrent, ScanIsComplete, RustIsRendered,
              IndexIsRendered, SourcesAreWatched
<1>10. CASE UNCHANGED vars
  BY <1>10 DEF vars, files, scan, cargo, ReadIsCurrent, TextRead, ScanIsComplete,
               RustIsRendered, IndexIsRendered, SourcesAreWatched,
               RenderGeneratedRs, RenderIndex, GoodFiles
<1>11. CASE RenderPanics
  BY <1>11 DEF RenderPanics, files, scan, cargo, ReadIsCurrent, TextRead,
               ScanIsComplete, RustIsRendered, IndexIsRendered, SourcesAreWatched,
               RenderGeneratedRs, RenderIndex, GoodFiles
<1> QED
  BY <1>1, <1>2, <1>3, <1>4, <1>5, <1>6, <1>7, <1>8, <1>9, <1>10, <1>11
  DEF Next, Run, Environment

(* The inductive invariant gives the property: with no watched path dirty, *)
(* the run knows the present text of every file, and both outputs are      *)
(* rendered from those texts.                                              *)
LEMMA InvariantSuffices == IInv => FreshMeansCurrent
<1> SUFFICES ASSUME IInv, script = "idle", ~ Stale
             PROVE  /\ rs = RenderGeneratedRs(source)
                    /\ rustOnly \/ ts = RenderIndex(source)
  BY DEF FreshMeansCurrent
<1> USE DEF IInv
<1>1. succeeded /\ dirty \cap WatchedPaths = {}
  BY DEF Stale
<1>2. Files \cup {"generated_rs"} \subseteq WatchedPaths
  BY <1>1 DEF SourcesAreWatched, WatchedPaths
<1>3. \A f \in Files : source[f] = TextRead(f)
  BY <1>1, <1>2 DEF ReadIsCurrent, ScanIsComplete, Scanned
<1>4. /\ RenderGeneratedRs(read) = RenderGeneratedRs(source)
      /\ RenderIndex(read) = RenderIndex(source)
  BY <1>3, RenderedAlike DEF TypeOK
<1>5. rs = RenderGeneratedRs(source)
  BY <1>1, <1>2, <1>4 DEF RustIsRendered
<1>6. ASSUME ~ rustOnly PROVE ts = RenderIndex(source)
  BY <1>1, <1>4, <1>6 DEF IndexIsRendered, WatchedPaths
<1> QED
  BY <1>5, <1>6

(* The inductive invariant holds at the start.                             *)
LEMMA InitInvariant == Init => IInv
BY InitTyped DEF Init, IInv, Scanned, ReadIsCurrent, ScanIsComplete,
   RustIsRendered, IndexIsRendered, RustOnlyStops, SourcesAreWatched

(* When cargo considers the build script fresh, _generated.rs and index.ts *)
(* are what the present sources render to, whatever was edited, removed or *)
(* killed, and whenever.                                                   *)
THEOREM FreshCorrect == Spec => []FreshMeansCurrent
<1>1. Spec => []IInv
  BY InitInvariant, TypeCorrect, InvariantKept, PTL DEF Spec
<1> QED
  BY <1>1, InvariantSuffices, PTL

-----------------------------------------------------------------------------
(* The second invariant: what is known of the runs that started after the  *)
(* last disturbance, of which reruns is the number.                        *)
OutputsAreCurrent ==
    /\ rs = RenderGeneratedRs(source)
    /\ rustOnly \/ ts = RenderIndex(source)

(* No source changes under such a run.                                     *)
SourcesAreClean == reruns >= 1 => dirty \cap Files = {}

RustIsWritten ==
    reruns >= 1 /\ script = "writing_ts" => rs = RenderGeneratedRs(source)

(* The first of them leaves both outputs as they should be.                *)
FirstRunWrites ==
    reruns >= 1 /\ script = "idle" /\ ~ SourceRejected =>
        succeeded /\ OutputsAreCurrent

(* The second finds them so, and writes nothing.                           *)
SecondRunIsIdle ==
    reruns >= 2 /\ ~ SourceRejected => dirty = {} /\ OutputsAreCurrent

(* With rust_only cargo does not look at index.ts.                         *)
IndexIsUnwatched == rustOnly => "index_ts" \notin watched

SInv ==
    /\ IInv
    /\ SourcesAreClean
    /\ RustIsWritten
    /\ FirstRunWrites
    /\ SecondRunIsIdle
    /\ IndexIsUnwatched
    /\ SettlesInTwo

(* A rendered output is not a missing one.                                 *)
LEMMA RenderedExists ==
    \A texts : RenderGeneratedRs(texts) # Missing /\ RenderIndex(texts) # Missing
<1> TAKE texts
<1>1. /\ DOMAIN RenderGeneratedRs(texts) = {"rust"}
      /\ DOMAIN RenderIndex(texts) = {"index"}
      /\ DOMAIN Missing = {"missing"}
  BY DEF RenderGeneratedRs, RenderIndex, Missing
<1> QED
  BY <1>1

(* After a second undisturbed run cargo has nothing to do.                 *)
LEMMA FreshAfterTwo ==
    SInv /\ script = "idle" /\ reruns >= 2 /\ ~ SourceRejected => ~ Stale
<1> SUFFICES ASSUME SInv, script = "idle", reruns >= 2, ~ SourceRejected
             PROVE  ~ Stale
  OBVIOUS
<1>1. reruns >= 1
  BY DEF SInv, IInv, TypeOK
<1>2. succeeded /\ dirty = {} /\ OutputsAreCurrent
  BY <1>1 DEF SInv, FirstRunWrites, SecondRunIsIdle
<1>3. rs # Missing /\ ("index_ts" \in watched => ts # Missing)
  BY <1>2, RenderedExists DEF SInv, IndexIsUnwatched, OutputsAreCurrent
<1> QED
  BY <1>2, <1>3 DEF Stale

(* An undisturbed run that has read every file has read the present texts. *)
LEMMA ReadAlike ==
    ASSUME SInv, reruns >= 1, todo = {}, Scanned
    PROVE  /\ RenderGeneratedRs(read) = RenderGeneratedRs(source)
           /\ RenderIndex(read) = RenderIndex(source)
           /\ (\E f \in DOMAIN read : read[f] = Rejected) => SourceRejected
           /\ TyPanics /\ ~ rustOnly => SourceRejected
<1>1. \A f \in Files : source[f] = TextRead(f)
  BY DEF SInv, IInv, SourcesAreClean, ReadIsCurrent
<1>2. DOMAIN read \subseteq Files /\ DOMAIN source = Files
  BY DEF SInv, IInv, TypeOK
<1>3. /\ (\E f \in DOMAIN read : read[f] = Rejected) => SourceRejected
      /\ TyPanics /\ ~ rustOnly => SourceRejected
  BY <1>1, <1>2 DEF TextRead, SourceRejected, TyPanics
<1> QED
  BY <1>1, <1>2, <1>3, RenderedAlike

(* The second invariant is kept by every step.                             *)
LEMMA SettlingKept == SInv /\ IInv' /\ [Next]_vars => SInv'
<1> SUFFICES ASSUME SInv, IInv', [Next]_vars PROVE SInv'
  OBVIOUS
<1>0. reruns \in 0 .. 3 /\ reruns' \in 0 .. 3
  BY DEF SInv, IInv, TypeOK
<1> USE DEF SInv
<1>1. CASE Start
  <2>1. SourceRejected' = SourceRejected /\ OutputsAreCurrent' = OutputsAreCurrent
    BY <1>1 DEF Start, files, SourceRejected, OutputsAreCurrent
  <2>2. ~ SourceRejected => reruns < 2
    BY <1>0, <1>1, FreshAfterTwo DEF Start
  <2>3. SettlesInTwo' /\ SecondRunIsIdle'
    BY <1>0, <1>1, <2>1, <2>2 DEF Start, SettlesInTwo, SecondRunIsIdle, FirstRunWrites
  <2> QED
    BY <1>1, <2>3 DEF Start, SourcesAreClean, RustIsWritten, FirstRunWrites,
                      IndexIsUnwatched
<1>2. ASSUME NEW f \in Files, ReadFile(f) PROVE SInv'
  <2>1. /\ SourceRejected' = SourceRejected
        /\ OutputsAreCurrent' = OutputsAreCurrent
        /\ reruns' = reruns /\ dirty' = dirty /\ watched' = watched
        /\ script' = "reading" /\ rustOnly' = rustOnly
    BY <1>2 DEF ReadFile, files, cargo, SourceRejected, OutputsAreCurrent
  <2> QED
    BY <2>1 DEF SourcesAreClean, RustIsWritten, FirstRunWrites,
                SecondRunIsIdle, IndexIsUnwatched, SettlesInTwo
<1>3. CASE CollectRsFiles
  <2>1. /\ SourceRejected' = SourceRejected
        /\ OutputsAreCurrent' = OutputsAreCurrent
        /\ reruns' = reruns /\ dirty' = dirty /\ watched' = watched
        /\ script' = "reading" /\ rustOnly' = rustOnly
    BY <1>3 DEF CollectRsFiles, files, cargo, SourceRejected, OutputsAreCurrent
  <2> QED
    BY <2>1 DEF SourcesAreClean, RustIsWritten, FirstRunWrites,
                SecondRunIsIdle, IndexIsUnwatched, SettlesInTwo
<1>4. CASE ParseTraits
  <2>1. /\ SourceRejected' = SourceRejected
        /\ OutputsAreCurrent' = OutputsAreCurrent
        /\ reruns' = reruns /\ dirty' = dirty /\ watched' = watched
        /\ rustOnly' = rustOnly /\ script' \in {"idle", "writing_rs"}
    BY <1>4 DEF ParseTraits, files, cargo, SourceRejected, OutputsAreCurrent
  <2>2. reruns >= 1 /\ script' = "idle" => SourceRejected
    BY <1>4, ReadAlike DEF ParseTraits, Scanned
  <2> QED
    BY <2>1, <2>2 DEF SourcesAreClean, RustIsWritten, FirstRunWrites,
                      SecondRunIsIdle, IndexIsUnwatched, SettlesInTwo
<1>5. CASE WriteGeneratedRs
  <2>1. /\ SourceRejected' = SourceRejected
        /\ RenderGeneratedRs(source)' = RenderGeneratedRs(source)
        /\ RenderIndex(source)' = RenderIndex(source)
    BY <1>5 DEF WriteGeneratedRs, SourceRejected, RenderGeneratedRs, RenderIndex,
                GoodFiles
  <2>2. todo = {} /\ Scanned
    BY <1>5 DEF WriteGeneratedRs, IInv, ScanIsComplete, Scanned
  <2>3. reruns >= 1 => rs' = RenderGeneratedRs(source)
    BY <1>5, <2>2, ReadAlike DEF WriteGeneratedRs
  <2>4. SourcesAreClean' /\ RustIsWritten' /\ IndexIsUnwatched' /\ SettlesInTwo'
    BY <1>5, <2>1, <2>3, FilesAssumption
    DEF WriteGeneratedRs, SourcesAreClean, RustIsWritten, IndexIsUnwatched,
        SettlesInTwo
  <2>5. FirstRunWrites'
    BY <1>5, <2>1, <2>3 DEF WriteGeneratedRs, FirstRunWrites, OutputsAreCurrent
  <2>6. SecondRunIsIdle'
    BY <1>0, <1>5, <2>1, <2>3 DEF WriteGeneratedRs, SecondRunIsIdle, OutputsAreCurrent
  <2> QED
    BY <2>4, <2>5, <2>6
<1>6. CASE WriteIndex
  <2>1. /\ SourceRejected' = SourceRejected
        /\ RenderGeneratedRs(source)' = RenderGeneratedRs(source)
        /\ RenderIndex(source)' = RenderIndex(source)
    BY <1>6 DEF WriteIndex, IndexWritten, SourceRejected, RenderGeneratedRs,
                RenderIndex, GoodFiles
  <2>2. todo = {} /\ Scanned
    BY <1>6 DEF WriteIndex, IndexWritten, IInv, ScanIsComplete, Scanned
  <2>3. reruns >= 1 => rs = RenderGeneratedRs(source) /\ ts' = RenderIndex(source)
    BY <1>6, <2>2, ReadAlike DEF WriteIndex, IndexWritten, RustIsWritten
  <2>4. SourcesAreClean' /\ RustIsWritten' /\ SettlesInTwo'
    BY <1>6, <2>1, <2>3, FilesAssumption
    DEF WriteIndex, IndexWritten, SourcesAreClean, RustIsWritten, SettlesInTwo
  <2>5. FirstRunWrites'
    BY <1>6, <2>1, <2>3
    DEF WriteIndex, IndexWritten, FirstRunWrites, OutputsAreCurrent
  <2>6. ~ rustOnly /\ rustOnly' = rustOnly
    BY <1>6 DEF WriteIndex, IndexWritten, IInv, RustOnlyStops
  <2>7. SecondRunIsIdle'
    BY <1>0, <1>6, <2>1, <2>3, <2>6
    DEF WriteIndex, IndexWritten, SecondRunIsIdle, OutputsAreCurrent
  <2>8. IndexIsUnwatched'
    BY <2>6 DEF IndexIsUnwatched
  <2> QED
    BY <2>4, <2>5, <2>7, <2>8
<1>7. CASE Environment
  <2>1. reruns' = 0 /\ rustOnly' = rustOnly /\ watched' = watched
    BY <1>7 DEF Environment, Edit, Tamper, Die, Disturbed, cargo
  <2> QED
    BY <2>1 DEF SourcesAreClean, RustIsWritten, FirstRunWrites,
                SecondRunIsIdle, IndexIsUnwatched, SettlesInTwo
<1>8. CASE UNCHANGED vars
  <2>1. /\ SourceRejected' = SourceRejected
        /\ RenderGeneratedRs(source)' = RenderGeneratedRs(source)
        /\ OutputsAreCurrent' = OutputsAreCurrent
    BY <1>8 DEF vars, files, SourceRejected, OutputsAreCurrent,
                RenderGeneratedRs, RenderIndex, GoodFiles
  <2> QED
    BY <1>8, <2>1 DEF vars, files, cargo, SourcesAreClean, RustIsWritten,
                      FirstRunWrites, SecondRunIsIdle, IndexIsUnwatched, SettlesInTwo
<1>9. CASE RenderPanics
  <2>1. /\ SourceRejected' = SourceRejected
        /\ OutputsAreCurrent' = OutputsAreCurrent
        /\ reruns' = reruns /\ dirty' = dirty /\ watched' = watched
        /\ rustOnly' = rustOnly /\ script' = "idle"
    BY <1>9 DEF RenderPanics, files, cargo, SourceRejected, OutputsAreCurrent
  <2>2. reruns >= 1 => SourceRejected
    BY <1>9, ReadAlike
    DEF RenderPanics, Scanned, IInv, ScanIsComplete, RustOnlyStops
  <2> QED
    BY <2>1, <2>2 DEF SourcesAreClean, RustIsWritten, FirstRunWrites,
                      SecondRunIsIdle, IndexIsUnwatched, SettlesInTwo
<1> QED
  BY <1>1, <1>2, <1>3, <1>4, <1>5, <1>6, <1>7, <1>8, <1>9 DEF Next, Run

(* After the last disturbance the build script runs at most twice, so that *)
(* the outputs that it watches never keep it running.                      *)
THEOREM SettlesCorrect == Spec => []SettlesInTwo
<1>1. Init => SInv
  BY InitInvariant DEF Init, SInv, SourcesAreClean, RustIsWritten, FirstRunWrites,
                       SecondRunIsIdle, IndexIsUnwatched, SettlesInTwo
<1>2. Spec => []IInv
  BY InitInvariant, TypeCorrect, InvariantKept, PTL DEF Spec
<1>3. Spec => []SInv
  BY <1>1, <1>2, SettlingKept, PTL DEF Spec
<1>4. SInv => SettlesInTwo
  BY DEF SInv
<1> QED
  BY <1>3, <1>4, PTL

-----------------------------------------------------------------------------
(* Both drivers.  What holds of the build script is cited from above.      *)

Expanded == script \in {"reading", "writing_rs", "writing_ts"} \/ cached

IndexAsLeft == rustOnly \/ ts \in {RenderIndex(read), Missing, Foreign}

(* A crate in the cache comes from an expansion that went to its end.      *)
CachedIsComplete ==
    /\ cached => script = "idle"
    /\ cached \/ script \in {"writing_rs", "writing_ts"} => todo = {}

(* What the expansion knows of every file is the text that the file has,   *)
(* unless the file has changed since.                                      *)
ExpandedIsCurrent ==
    Expanded => \A f \in Files \ (todo \cup dirty) : source[f] = TextRead(f)

(* What was spliced and written is rendered from those texts.              *)
SplicedIsRendered ==
    /\ cached => expansion = RenderGeneratedRs(read)
    /\ cached \/ script = "writing_rs" => IndexAsLeft

(* After the last disturbance one expansion is enough.                     *)
ExpandsOnce ==
    /\ reruns >= 1 => dirty \cap Files = {}
    /\ reruns >= 1 /\ script = "idle" => cached \/ SourceRejected
    /\ SourceRejected \/ reruns <= 1

ExpansionInv ==
    /\ ~ succeeded
    /\ CachedIsComplete
    /\ ExpandedIsCurrent
    /\ SplicedIsRendered
    /\ ExpandsOnce

BuildInv ==
    /\ TypeOK
    /\ driver \in {"build_script", "macro"}
    /\ driver = "build_script" => SInv
    /\ driver = "macro" => ExpansionInv

-----------------------------------------------------------------------------
(* Neither driver has run at the start.                                    *)
LEMMA InitBuild == BuildInit => BuildInv
  <1> SUFFICES ASSUME BuildInit PROVE BuildInv
    OBVIOUS
  <1>1. Init /\ cached = FALSE /\ driver \in {"build_script", "macro"}
    BY DEF BuildInit
  <1>2. TypeOK /\ SInv
    BY <1>1, InitTyped, InitInvariant
       DEF Init, SInv, SourcesAreClean, RustIsWritten, FirstRunWrites,
           SecondRunIsIdle, IndexIsUnwatched, SettlesInTwo
  <1>3. ExpansionInv
    BY <1>1
       DEF Init, ExpansionInv, CachedIsComplete, ExpandedIsCurrent, Expanded,
           SplicedIsRendered, ExpandsOnce
  <1>. QED  BY <1>1, <1>2, <1>3 DEF BuildInv

(* With a build script every step is one of Rebuild's.                     *)
LEMMA ScriptStep ==
    ASSUME [BuildNext]_buildVars, driver = "build_script"
    PROVE  [Next]_vars /\ driver' = driver
  BY DEF BuildNext, BuildRun, ScriptRun, Scan, Expand, ExpandTraits, ExpandIndex,
         Splice, BuildEnvironment, buildVars, macroVars, Next, Run

LEMMA ScriptKept ==
    ASSUME BuildInv, [BuildNext]_buildVars, driver = "build_script"
    PROVE  BuildInv'
  <1>1. TypeOK' /\ SInv'
    BY ScriptStep, TypeKept, InvariantKept, SettlingKept DEF BuildInv, SInv
  <1>. QED  BY <1>1, ScriptStep DEF BuildInv

(* A crate that runs the generator in its build script behaves as Rebuild  *)
(* says, though the macro lists and reads with the same scan_workspace     *)
(* (pipeline.rs:71-120): what the macro does beside it is out of reach,    *)
(* and the crate does not change its driver.                               *)
THEOREM ScriptConforms ==
    BuildSpec /\ driver = "build_script" => Init /\ [][Next]_vars
  <1>1. BuildInit => Init
    BY DEF BuildInit
  <1>2. driver = "build_script" /\ [BuildNext]_buildVars
            => [Next]_vars /\ (driver = "build_script")'
    BY ScriptStep
  <1>. QED  BY <1>1, <1>2, PTL DEF BuildSpec

-----------------------------------------------------------------------------
(* rustc expands the macro anew: a second time only if a trait panics.     *)
LEMMA ExpandKept ==
    ASSUME TypeOK, ExpansionInv, Expand
    PROVE  TypeOK' /\ ExpansionInv'
  <1>1. /\ script = "idle" /\ CrateStale /\ script' = "collecting"
        /\ cached' = FALSE /\ dirty' = {} /\ UNCHANGED <<source, rustOnly, succeeded>>
        /\ reruns' = IF reruns < 3 THEN reruns + 1 ELSE 3
    BY DEF Expand, files
  <1>2. TypeOK'
    BY <1>1 DEF Expand, TypeOK, files, scan, ExpansionInv
  <1>3. ~ succeeded' /\ CachedIsComplete' /\ ExpandedIsCurrent' /\ SplicedIsRendered'
    BY <1>1 DEF ExpansionInv, CachedIsComplete, ExpandedIsCurrent, Expanded,
       SplicedIsRendered
  <1>4. reruns >= 1 => SourceRejected
    BY <1>1 DEF ExpansionInv, ExpandsOnce, CrateStale, Tracked, TypeOK
  <1>5. SourceRejected' = SourceRejected
    BY <1>1 DEF SourceRejected
  <1>6. ExpandsOnce'
    BY <1>1, <1>4, <1>5 DEF ExpandsOnce, TypeOK
  <1>. QED  BY <1>2, <1>3, <1>6 DEF ExpansionInv

(* The scan lists and reads, as under the build script.                    *)
LEMMA ScanKept ==
    ASSUME TypeOK, ExpansionInv, Scan
    PROVE  TypeOK' /\ ExpansionInv'
  <1>1. /\ script \in {"collecting", "reading"} /\ script' = "reading"
        /\ UNCHANGED <<source, ts, rustOnly, succeeded, dirty, reruns, cached>>
    BY DEF Scan, CollectRsFiles, ReadFile, files, cargo, macroVars
  <1>2. TypeOK'
    BY TypeKept DEF Scan, Next, Run
  <1>3. ~ cached
    BY <1>1 DEF ExpansionInv, CachedIsComplete
  <1>4. ExpandedIsCurrent'
    <2>1. CASE CollectRsFiles
      <3>1. DOMAIN read' = {} /\ todo' = Present
        BY <2>1 DEF CollectRsFiles, Listing
      <3>. QED  BY <1>1, <3>1 DEF ExpandedIsCurrent, TextRead, Present
    <2>2. ASSUME NEW f \in Files, ReadFile(f) PROVE ExpandedIsCurrent'
      <3> SUFFICES ASSUME NEW g \in Files \ (todo' \cup dirty')
                   PROVE  source[g] = TextRead(g)'
        BY <1>1 DEF ExpandedIsCurrent
      <3>1. CASE g = f
        BY <2>2, <3>1 DEF ReadFile, TextRead
      <3>2. CASE g # f
        <4>1. source[g] = TextRead(g)
          BY <1>1, <2>2, <3>2
             DEF ReadFile, ExpansionInv, ExpandedIsCurrent, Expanded
        <4>. QED  BY <2>2, <3>2, <4>1 DEF ReadFile, TextRead
      <3>. QED  BY <3>1, <3>2
    <2>. QED  BY <2>1, <2>2 DEF Scan
  <1>5. ~ succeeded' /\ CachedIsComplete' /\ SplicedIsRendered'
    BY <1>1, <1>3 DEF ExpansionInv, CachedIsComplete, SplicedIsRendered
  <1>6. ExpandsOnce'
    BY <1>1 DEF ExpansionInv, ExpandsOnce, SourceRejected
  <1>. QED  BY <1>2, <1>4, <1>5, <1>6 DEF ExpansionInv

(* An expansion that nothing disturbs panics at what is in the sources.    *)
LEMMA TraitsKept ==
    ASSUME TypeOK, ExpansionInv, ExpandTraits
    PROVE  TypeOK' /\ ExpansionInv'
  <1>1. /\ script = "reading" /\ todo = {}
        /\ UNCHANGED <<source, ts, rustOnly, todo, read, watched, succeeded, dirty,
                       disturbances, reruns, cached, expansion>>
        /\ \/ /\ \E f \in DOMAIN read : read[f] = Rejected \/ (read[f] = BadTy /\ ~ rustOnly)
              /\ script' = "idle"
           \/ rustOnly /\ script' = "writing_rs"
           \/ script' = "writing_ts"
    BY DEF ExpandTraits, TyPanics, files, scan, cargo, macroVars
  <1>2. TypeOK'
    BY <1>1 DEF TypeOK, ExpansionInv
  <1>3. ~ cached
    BY <1>1 DEF ExpansionInv, CachedIsComplete
  <1>4. ~ succeeded' /\ CachedIsComplete' /\ ExpandedIsCurrent'
    BY <1>1, <1>3 DEF ExpansionInv, CachedIsComplete, ExpandedIsCurrent, Expanded,
       TextRead
  <1>5. SplicedIsRendered'
    BY <1>1, <1>3 DEF SplicedIsRendered, IndexAsLeft
  <1>6. SourceRejected' = SourceRejected
    BY <1>1 DEF SourceRejected
  <1>7. ASSUME reruns >= 1, NEW f \in DOMAIN read,
               read[f] = Rejected \/ (read[f] = BadTy /\ ~ rustOnly)
        PROVE  SourceRejected
    <2>1. f \in Files \ (todo \cup dirty)
      BY <1>1, <1>7 DEF TypeOK, ExpansionInv, ExpandsOnce
    <2>. QED
      BY <1>1, <1>7, <2>1
         DEF ExpansionInv, ExpandedIsCurrent, Expanded, TextRead, SourceRejected
  <1>8. ExpandsOnce'
    BY <1>1, <1>6, <1>7 DEF ExpansionInv, ExpandsOnce
  <1>. QED  BY <1>2, <1>4, <1>5, <1>8 DEF ExpansionInv

(* index.ts is written from what was read.                                 *)
LEMMA IndexKept ==
    ASSUME TypeOK, ExpansionInv, ExpandIndex
    PROVE  TypeOK' /\ ExpansionInv'
  <1>1. /\ script = "writing_ts" /\ script' = "writing_rs"
        /\ UNCHANGED <<source, rustOnly, todo, read, watched, succeeded,
                       disturbances, reruns, cached, expansion>>
        /\ ts' = RenderIndex(read)
        /\ dirty' = dirty \/ dirty' = dirty \cup {"index_ts"}
    BY DEF ExpandIndex, scan, macroVars
  <1>2. TypeOK'
    BY <1>1 DEF TypeOK, ExpansionInv
  <1>3. ~ cached
    BY <1>1 DEF ExpansionInv, CachedIsComplete
  <1>4. ~ succeeded' /\ CachedIsComplete' /\ ExpandedIsCurrent'
    BY <1>1, <1>3 DEF ExpansionInv, CachedIsComplete, ExpandedIsCurrent, Expanded,
       TextRead
  <1>5. RenderIndex(read)' = RenderIndex(read)
    BY <1>1 DEF RenderIndex, GoodFiles
  <1>6. SplicedIsRendered'
    BY <1>1, <1>3, <1>5 DEF SplicedIsRendered, IndexAsLeft
  <1>7. ExpandsOnce'
    BY <1>1, FilesAssumption DEF ExpansionInv, ExpandsOnce, SourceRejected
  <1>. QED  BY <1>2, <1>4, <1>6, <1>7 DEF ExpansionInv

(* The crate is compiled with the Rust half of what was read.              *)
LEMMA SpliceKept ==
    ASSUME TypeOK, ExpansionInv, Splice
    PROVE  TypeOK' /\ ExpansionInv'
  <1>1. /\ script = "writing_rs" /\ script' = "idle" /\ cached' = TRUE
        /\ expansion' = RenderGeneratedRs(read)
        /\ UNCHANGED <<source, ts, rustOnly, todo, read, watched, succeeded, dirty,
                       disturbances, reruns>>
    BY DEF Splice, files, scan, cargo
  <1>2. TypeOK'
    BY <1>1 DEF TypeOK, ExpansionInv
  <1>3. ~ succeeded' /\ CachedIsComplete' /\ ExpandedIsCurrent'
    BY <1>1 DEF ExpansionInv, CachedIsComplete, ExpandedIsCurrent, Expanded, TextRead
  <1>4. /\ RenderIndex(read)' = RenderIndex(read)
        /\ RenderGeneratedRs(read)' = RenderGeneratedRs(read)
    BY <1>1 DEF RenderIndex, RenderGeneratedRs, GoodFiles
  <1>5. SplicedIsRendered'
    BY <1>1, <1>4 DEF ExpansionInv, SplicedIsRendered, IndexAsLeft
  <1>6. ExpandsOnce'
    BY <1>1 DEF ExpansionInv, ExpandsOnce, SourceRejected
  <1>. QED  BY <1>2, <1>3, <1>5, <1>6 DEF ExpansionInv

(* What changes from outside is dirty, and starts the count of runs anew.  *)
LEMMA DisturbanceKept ==
    ASSUME TypeOK, ExpansionInv, BuildEnvironment, driver = "macro"
    PROVE  TypeOK' /\ ExpansionInv'
  <1>1. TypeOK'
    BY TypeKept DEF BuildEnvironment, Next
  <1> DEFINE NothingHidden ==
          /\ UNCHANGED <<rustOnly, todo, read, succeeded>>
          /\ reruns' = 0
          /\ script' = script \/ (script # "idle" /\ script' = "idle")
          /\ ts' = ts \/ ts' \in {Missing, Foreign}
          /\ dirty \subseteq dirty'
          /\ \A f \in Files : f \in dirty' \/ source'[f] = source[f]
  <1>2. NothingHidden
    <2>1. ASSUME NEW f \in Files, NEW text \in Text, Edit(f, text)
          PROVE  NothingHidden
      BY <2>1 DEF Edit, Disturbed, scan, TypeOK
    <2>2. ASSUME NEW path \in {"generated_rs", "index_ts"},
                 NEW text \in {Missing, Foreign}, Tamper(path, text)
          PROVE  NothingHidden
      BY <2>2 DEF Tamper, Disturbed, scan
    <2>3. CASE Die
      BY <2>3 DEF Die, Disturbed, scan, cargo
    <2>. QED  BY <2>1, <2>2, <2>3 DEF BuildEnvironment, Environment
  <1>3. UNCHANGED <<cached, expansion>>
    BY DEF BuildEnvironment, macroVars
  <1> HIDE DEF NothingHidden
  <1>4. /\ RenderIndex(read)' = RenderIndex(read)
        /\ RenderGeneratedRs(read)' = RenderGeneratedRs(read)
    BY <1>2 DEF NothingHidden, RenderIndex, RenderGeneratedRs, GoodFiles
  <1>5. ~ succeeded' /\ CachedIsComplete'
    BY <1>2, <1>3 DEF NothingHidden, ExpansionInv, CachedIsComplete
  <1>6. ExpandedIsCurrent'
    <2>1. Expanded' => Expanded
      BY <1>2, <1>3 DEF NothingHidden, Expanded
    <2> SUFFICES ASSUME Expanded, NEW f \in Files \ (todo' \cup dirty')
                 PROVE  source'[f] = TextRead(f)'
      BY <2>1 DEF ExpandedIsCurrent
    <2>2. source[f] = TextRead(f) /\ source'[f] = source[f]
      BY <1>2 DEF NothingHidden, ExpansionInv, ExpandedIsCurrent
    <2>. QED  BY <1>2, <2>2 DEF NothingHidden, TextRead
  <1>7. SplicedIsRendered'
    <2>1. cached' \/ script' = "writing_rs" => IndexAsLeft
      BY <1>2, <1>3 DEF NothingHidden, ExpansionInv, SplicedIsRendered
    <2>2. IndexAsLeft => IndexAsLeft'
      BY <1>2, <1>4 DEF NothingHidden, IndexAsLeft
    <2>. QED
      BY <1>3, <1>4, <2>1, <2>2 DEF ExpansionInv, SplicedIsRendered
  <1>8. ExpandsOnce'
    BY <1>2 DEF NothingHidden, ExpandsOnce
  <1>. QED  BY <1>1, <1>5, <1>6, <1>7, <1>8 DEF ExpansionInv

(* With the macro every step keeps the invariant.                          *)
LEMMA MacroKept ==
    ASSUME BuildInv, [BuildNext]_buildVars, driver = "macro"
    PROVE  BuildInv'
  <1> USE DEF BuildInv
  <1>1. driver' = driver
    BY DEF BuildNext, BuildRun, ScriptRun, Scan, Expand, ExpandTraits, ExpandIndex,
           Splice, BuildEnvironment, buildVars, macroVars
  <1>2. CASE UNCHANGED buildVars
    <2>1. TypeOK'
      BY <1>2, TypeKept DEF buildVars
    <2>2. ExpansionInv'
      BY <1>2
         DEF buildVars, vars, files, scan, cargo, macroVars, ExpansionInv,
             CachedIsComplete, ExpandedIsCurrent, Expanded, TextRead,
             SplicedIsRendered, IndexAsLeft, RenderIndex, RenderGeneratedRs,
             GoodFiles, ExpandsOnce, SourceRejected
    <2>. QED  BY <1>1, <2>1, <2>2
  <1>3. CASE Scan
    BY <1>1, <1>3, ScanKept
  <1>4. CASE Expand
    BY <1>1, <1>4, ExpandKept
  <1>5. CASE ExpandTraits
    BY <1>1, <1>5, TraitsKept
  <1>6. CASE ExpandIndex
    BY <1>1, <1>6, IndexKept
  <1>7. CASE Splice
    BY <1>1, <1>7, SpliceKept
  <1>8. CASE BuildEnvironment
    BY <1>1, <1>8, DisturbanceKept
  <1>9. ~ ScriptRun
    BY DEF ScriptRun
  <1>. QED
    BY <1>2, <1>3, <1>4, <1>5, <1>6, <1>7, <1>8, <1>9 DEF BuildNext, BuildRun

(* The invariant of both drivers is inductive.                             *)
LEMMA BuildInvariant == BuildSpec => []BuildInv
  <1>1. BuildInv /\ [BuildNext]_buildVars => BuildInv'
    BY ScriptKept, MacroKept DEF BuildInv
  <1>. QED  BY <1>1, InitBuild, PTL DEF BuildSpec

-----------------------------------------------------------------------------
(* Type correctness under either driver: the variables keep their types,   *)
(* and cargo knows of no success while a generator runs.                   *)
THEOREM BuildTypeCorrect == BuildSpec => []TypeOK
  <1>1. BuildInv => TypeOK
    BY DEF BuildInv
  <1>. QED  BY <1>1, BuildInvariant, PTL

(* The macro's crate in rustc's cache, and the index.ts beside it, are     *)
(* those of the present sources, whenever rustc finds no tracked file      *)
(* changed and no file was added (expand_include_generated and the         *)
(* include_bytes! it emits).                                               *)
THEOREM ExpansionCorrect == BuildSpec => []CachedMeansCurrent
  <1>1. BuildInv => CachedMeansCurrent
    <2> SUFFICES ASSUME BuildInv, driver = "macro", script = "idle", ~ CrateStale,
                        Present \subseteq DOMAIN read
                 PROVE  /\ expansion = RenderGeneratedRs(source)
                        /\ rustOnly \/ ts \in {RenderIndex(source), Missing, Foreign}
      BY DEF CachedMeansCurrent
    <2>1. TypeOK /\ ExpansionInv /\ cached /\ dirty \cap DOMAIN read = {}
      BY DEF BuildInv, CrateStale, Tracked
    <2>2. todo = {} /\ DOMAIN read \subseteq Files /\ DOMAIN source = Files
      BY <2>1 DEF ExpansionInv, CachedIsComplete, TypeOK
    <2>3. ASSUME NEW f \in Files PROVE source[f] = TextRead(f)
      <3>1. CASE f \in DOMAIN read
        BY <2>1, <2>2, <3>1 DEF ExpansionInv, ExpandedIsCurrent, Expanded
      <3>2. CASE f \notin DOMAIN read
        BY <3>2 DEF Present, TextRead
      <3>. QED  BY <3>1, <3>2
    <2>4. /\ RenderGeneratedRs(read) = RenderGeneratedRs(source)
          /\ RenderIndex(read) = RenderIndex(source)
      BY <2>2, <2>3, RenderedAlike
    <2>. QED
      BY <2>1, <2>4 DEF ExpansionInv, SplicedIsRendered, IndexAsLeft
  <1>. QED  BY <1>1, BuildInvariant, PTL

(* Neither driver keeps itself running: after the last disturbance the     *)
(* build script runs twice at most and the macro is expanded once at most, *)
(* whatever they write, unless the sources make the generator panic.       *)
THEOREM BuildSettles == BuildSpec => []SettlesSoon
  <1>1. BuildInv => SettlesSoon
    <2> SUFFICES ASSUME BuildInv PROVE SettlesSoon
      OBVIOUS
    <2>1. CASE driver = "build_script"
      BY <2>1 DEF BuildInv, SInv, SettlesInTwo, SettlesSoon
    <2>2. CASE driver = "macro"
      BY <2>2 DEF BuildInv, ExpansionInv, ExpandsOnce, SettlesSoon
    <2>. QED  BY <2>1, <2>2 DEF BuildInv
  <1>. QED  BY <1>1, BuildInvariant, PTL
=============================================================================
