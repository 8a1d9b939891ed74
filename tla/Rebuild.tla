------------------------------ MODULE Rebuild -------------------------------
(***************************************************************************)
(* draad_codegen::generate as a cargo build script: it scans src_dir,      *)
(* writes _generated.rs and index.ts, and tells cargo which paths to watch *)
(* while it writes two of them itself.  Sources and outputs change at any  *)
(* time, during a run too, and a run may die at any point.                 *)
(*                                                                         *)
(* Cargo (external) compares the mtimes of the watched paths with the      *)
(* start of the last run that succeeded; dirty is the set of paths that    *)
(* changed since the last run started.                                     *)
(***************************************************************************)
EXTENDS Naturals, FiniteSets

CONSTANTS
    Files,           \* source files that src_dir may have
    RustParts,       \* what a file contributes to _generated.rs
    TyParts,         \* what else it contributes to index.ts
    MaxDisturbances  \* bound on edits, removals and deaths

ASSUME FilesAssumption ==
    IsFiniteSet(Files) /\ {"generated_rs", "index_ts"} \cap Files = {}
ASSUME BoundAssumption == MaxDisturbances \in Nat

VARIABLES
    source,       \* the text of every file
    rs,           \* _generated.rs, which lies in src_dir
    ts,           \* index.ts
    rustOnly,     \* Config.rust_only
    script,       \* what the build script is about to do
    todo,         \* listed files that are still to be read
    read,         \* the texts that it read
    watched,      \* the rerun-if-changed directives that it printed
    succeeded,    \* whether the last run did
    dirty,        \* paths that changed since the last run started
    disturbances, \* count of them
    reruns        \* runs started since the last disturbance, up to 3

files == <<source, rs, ts>>
cargo == <<watched, succeeded, dirty>>
scan == <<todo, read>>
vars == <<files, rustOnly, script, scan, cargo, disturbances, reruns>>

Good == [kind : {"good"}, rust : RustParts, ty : TyParts]
Absent == [kind |-> "absent"]
(* read_to_string or syn::parse_file fails.                                *)
Unparsable == [kind |-> "unparsable"]
(* It parses, but the generator panics at a trait in it, before anything   *)
(* is written; or it has nothing but a #[ty] item, of which _generated.rs  *)
(* has no trace and at which the generator panics to render index.ts.      *)
Rejected == [kind |-> "rejected"]
BadTy == [kind |-> "bad_ty"]
Text == Good \cup {Absent, Unparsable, Rejected, BadTy}

Missing == [missing |-> TRUE]
Foreign == [foreign |-> TRUE]

GoodFiles(texts) == {f \in DOMAIN texts : texts[f] \in Good}

RenderGeneratedRs(texts) == [rust |-> [f \in GoodFiles(texts) |-> texts[f].rust]]
RenderIndex(texts) == [index |-> [f \in GoodFiles(texts) |-> texts[f]]]

TypeOK ==
    /\ source \in [Files -> Text]
    /\ rustOnly \in BOOLEAN
    /\ script \in {"idle", "collecting", "reading", "writing_rs", "writing_ts"}
    /\ todo \subseteq Files
    /\ DOMAIN read \subseteq Files \ todo
    /\ watched \subseteq {"src_dir", "generated_rs", "index_ts"}
    /\ succeeded \in BOOLEAN
    /\ succeeded => script = "idle"
    /\ dirty \subseteq Files \cup {"generated_rs", "index_ts"}
    /\ disturbances \in 0 .. MaxDisturbances
    /\ reruns \in 0 .. 3

Init ==
    /\ source \in [Files -> Good \cup {Absent}]
    /\ rs \in {Missing, Foreign}
    /\ ts \in {Missing, Foreign}
    /\ rustOnly \in BOOLEAN
    /\ script = "idle"
    /\ todo = {}
    /\ read = << >>
    /\ watched = {}
    /\ succeeded = FALSE
    /\ dirty = {}
    /\ disturbances = 0
    /\ reruns = 0

-----------------------------------------------------------------------------
(* What cargo watches: a directory with all that is in it, and paths of    *)
(* which a missing one counts as modified.                                 *)
WatchedPaths ==
    watched \cup IF "src_dir" \in watched THEN Files \cup {"generated_rs"} ELSE {}

Stale ==
    \/ ~ succeeded
    \/ dirty \cap WatchedPaths # {}
    \/ "generated_rs" \in watched /\ rs = Missing
    \/ "index_ts" \in watched /\ ts = Missing

(* cargo build; the script prints its input directive.                     *)
Start ==
    /\ script = "idle"
    /\ Stale
    /\ script' = "collecting"
    /\ succeeded' = FALSE
    /\ dirty' = {}
    /\ watched' = {"src_dir"}
    /\ reruns' = IF reruns < 3 THEN reruns + 1 ELSE 3
    /\ UNCHANGED <<files, rustOnly, scan, disturbances>>

Present == {f \in Files : source[f] # Absent}

(* Fault: the stem of the generated file is not skipped.                   *)
ListingUnfiltered == Present \cup IF rs = Missing THEN {} ELSE {"generated_rs"}

(* The files that the scanner will read.                                   *)
Listing == Present

CollectRsFiles ==
    /\ script = "collecting"
    /\ script' = "reading"
    /\ todo' = Listing
    /\ read' = << >>
    /\ UNCHANGED <<files, rustOnly, cargo, disturbances, reruns>>

ReadFile(f) ==
    /\ script = "reading"
    /\ f \in todo
    /\ todo' = todo \ {f}
    /\ read' = [g \in DOMAIN read \cup {f} |-> IF g = f THEN source[f] ELSE read[g]]
    /\ UNCHANGED <<files, rustOnly, script, cargo, disturbances, reruns>>

(* The deferred traits are parsed, or one of them panics.                  *)
ParseTraits ==
    /\ script = "reading"
    /\ todo = {}
    /\ script' = IF \E f \in DOMAIN read : read[f] = Rejected
                   THEN "idle" ELSE "writing_rs"
    /\ UNCHANGED <<files, rustOnly, scan, cargo, disturbances, reruns>>

WriteGeneratedRs ==
    /\ script = "writing_rs"
    /\ rs' = RenderGeneratedRs(read)
    /\ dirty' = IF rs' = rs THEN dirty ELSE dirty \cup {"generated_rs"}
    /\ watched' = watched \cup {"generated_rs"}
    /\ script' = IF rustOnly THEN "idle" ELSE "writing_ts"
    /\ succeeded' = rustOnly
    /\ UNCHANGED <<source, ts, rustOnly, scan, disturbances, reruns>>

(* emit_ty_decl panics while index.ts is rendered; _generated.rs stays.    *)
TyPanics == \E f \in DOMAIN read : read[f] = BadTy

RenderPanics ==
    /\ script = "writing_ts"
    /\ TyPanics
    /\ script' = "idle"
    /\ UNCHANGED <<files, rustOnly, scan, cargo, disturbances, reruns>>

IndexWritten ==
    /\ script = "writing_ts"
    /\ ~ TyPanics
    /\ watched' = watched \cup {"index_ts"}
    /\ script' = "idle"
    /\ succeeded' = TRUE
    /\ UNCHANGED <<source, rs, rustOnly, scan, disturbances, reruns>>

(* Fault: the file is written without a look at what it has.               *)
WriteIndexAlways ==
    /\ IndexWritten
    /\ ts' = RenderIndex(read)
    /\ dirty' = dirty \cup {"index_ts"}

(* Fault: a file that exists is left as it is.                             *)
WriteIndexIfMissing ==
    /\ IndexWritten
    /\ ts' = IF ts = Missing THEN RenderIndex(read) ELSE ts
    /\ dirty' = IF ts' = ts THEN dirty ELSE dirty \cup {"index_ts"}

(* Skips the write if the file already matches.                            *)
WriteIndex ==
    /\ IndexWritten
    /\ ts' = RenderIndex(read)
    /\ dirty' = IF ts' = ts THEN dirty ELSE dirty \cup {"index_ts"}

-----------------------------------------------------------------------------
Disturbed ==
    /\ disturbances < MaxDisturbances
    /\ disturbances' = disturbances + 1
    /\ reruns' = 0

(* A source file is written (with the same text, perhaps), or removed.     *)
Edit(f, text) ==
    /\ Disturbed
    /\ source' = [source EXCEPT ![f] = text]
    /\ dirty' = dirty \cup {f}
    /\ UNCHANGED <<rs, ts, rustOnly, script, scan, watched, succeeded>>

(* An output is removed, or overwritten by something else.                 *)
Tamper(path, text) ==
    /\ Disturbed
    /\ \/ path = "generated_rs" /\ rs' = text /\ UNCHANGED ts
       \/ path = "index_ts" /\ ts' = text /\ UNCHANGED rs
    /\ dirty' = dirty \cup {path}
    /\ UNCHANGED <<source, rustOnly, script, scan, watched, succeeded>>

(* The run is killed or an io::Error ends it; a file that was being        *)
(* written may stay incomplete.                                            *)
Die ==
    /\ Disturbed
    /\ script # "idle"
    /\ script' = "idle"
    /\ \/ UNCHANGED <<rs, ts>>
       \/ /\ script = "writing_rs"
          /\ rs # RenderGeneratedRs(read)
          /\ rs' = Foreign
          /\ UNCHANGED ts
       \/ /\ script = "writing_ts"
          /\ ~ TyPanics
          /\ ts # RenderIndex(read)
          /\ ts' = Foreign
          /\ UNCHANGED rs
    /\ UNCHANGED <<source, rustOnly, scan, cargo>>

Run ==
    \/ Start
    \/ CollectRsFiles
    \/ \E f \in Files : ReadFile(f)
    \/ ParseTraits
    \/ WriteGeneratedRs
    \/ RenderPanics
    \/ WriteIndex

Environment ==
    \/ \E f \in Files, text \in Text : Edit(f, text)
    \/ \E path \in {"generated_rs", "index_ts"}, text \in {Missing, Foreign} :
          Tamper(path, text)
    \/ Die

Next == Run \/ Environment

(* The developer builds again as long as cargo finds something to do, and  *)
(* a running script goes on.                                               *)
Spec == Init /\ [][Next]_vars /\ WF_vars(Run)

-----------------------------------------------------------------------------
(* When cargo considers the build script fresh, both outputs are what the  *)
(* sources of this moment render to (pipeline.rs:71-120): no edit during a *)
(* run, no dead run and no lost output goes unnoticed.                     *)
FreshMeansCurrent ==
    script = "idle" /\ ~ Stale =>
        /\ rs = RenderGeneratedRs(source)
        /\ rustOnly \/ ts = RenderIndex(source)

(* The generator panics at the sources of this moment.                     *)
SourceRejected ==
    \E f \in Files : source[f] = Rejected \/ (source[f] = BadTy /\ ~ rustOnly)

(* The outputs that the script watches do not keep it running              *)
(* (emit_ts.rs:78-81): after the last disturbance it runs at most twice,   *)
(* once to write and once to find nothing to write.                        *)
SettlesInTwo == SourceRejected \/ reruns <= 2
=============================================================================
