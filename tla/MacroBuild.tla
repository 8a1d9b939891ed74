----------------------------- MODULE MacroBuild -----------------------------
(***************************************************************************)
(* The two ways to run the generator: draad_codegen::generate from a build *)
(* script (Rebuild), or the macro include_generated! (crates/draad-macros, *)
(* expand_include_generated), which runs the same scan while rustc expands *)
(* the crate, splices the Rust half into it and writes index.ts itself.    *)
(*                                                                         *)
(* rustc (external) caches the crate; the macro has it track every file it *)
(* has listed, and neither the directory nor index.ts.                     *)
(***************************************************************************)
EXTENDS Rebuild

VARIABLES
    driver,      \* "build_script" or "macro"
    cached,      \* whether rustc has a crate from the last expansion
    expansion    \* the Rust half that was spliced into it

macroVars == <<driver, cached, expansion>>
buildVars == <<vars, macroVars>>

BuildInit ==
    /\ Init
    /\ driver \in {"build_script", "macro"}
    /\ driver = "macro" => rs = Missing
    /\ cached = FALSE
    /\ expansion = Missing

-----------------------------------------------------------------------------
(* Fault: only a file that parses is put on the list.                      *)
TrackedIfParsed == GoodFiles(read)

(* include_bytes! for every path in files_read.                            *)
Tracked == DOMAIN read

CrateStale == ~ cached \/ dirty \cap Tracked # {}

Expand ==
    /\ driver = "macro"
    /\ script = "idle"
    /\ CrateStale
    /\ script' = "collecting"
    /\ cached' = FALSE
    /\ dirty' = {}
    /\ reruns' = IF reruns < 3 THEN reruns + 1 ELSE 3
    /\ UNCHANGED <<files, rustOnly, scan, watched, succeeded, disturbances,
                   driver, expansion>>

(* scan_workspace is the same for both drivers.                            *)
Scan ==
    /\ CollectRsFiles \/ \E f \in Files : ReadFile(f)
    /\ UNCHANGED macroVars

(* Both halves are rendered before one is written.  What panics at a trait *)
(* or a #[ty] item, panics the expansion: the crate does not compile.      *)
ExpandTraits ==
    /\ driver = "macro"
    /\ script = "reading"
    /\ todo = {}
    /\ script' = IF \/ \E f \in DOMAIN read : read[f] = Rejected
                    \/ TyPanics /\ ~ rustOnly
                   THEN "idle"
                 ELSE IF rustOnly THEN "writing_rs" ELSE "writing_ts"
    /\ UNCHANGED <<files, rustOnly, scan, cargo, disturbances, reruns, macroVars>>

ExpandIndex ==
    /\ driver = "macro"
    /\ script = "writing_ts"
    /\ ts' = RenderIndex(read)
    /\ dirty' = IF ts' = ts THEN dirty ELSE dirty \cup {"index_ts"}
    /\ script' = "writing_rs"
    /\ UNCHANGED <<source, rs, rustOnly, scan, watched, succeeded, disturbances,
                   reruns, macroVars>>

(* The tokens go to rustc, which compiles the crate.  (The text that was   *)
(* rendered is taken to be Rust: lib.rs:387-392 reports it if it is not.)  *)
Splice ==
    /\ driver = "macro"
    /\ script = "writing_rs"
    /\ expansion' = RenderGeneratedRs(read)
    /\ cached' = TRUE
    /\ script' = "idle"
    /\ UNCHANGED <<files, rustOnly, scan, cargo, disturbances, reruns, driver>>

ScriptRun ==
    /\ driver = "build_script"
    /\ Start \/ ParseTraits \/ WriteGeneratedRs \/ RenderPanics \/ WriteIndex
    /\ UNCHANGED macroVars

BuildRun ==
    \/ ScriptRun
    \/ Scan
    \/ Expand
    \/ ExpandTraits
    \/ ExpandIndex
    \/ Splice

(* With the macro there is no _generated.rs to touch.                      *)
BuildEnvironment ==
    /\ Environment
    /\ driver = "macro" => rs' = rs
    /\ UNCHANGED macroVars

BuildNext == BuildRun \/ BuildEnvironment

(* The developer builds again as long as cargo or rustc finds something to *)
(* do, and a running generator goes on.                                    *)
BuildSpec == BuildInit /\ [][BuildNext]_buildVars /\ WF_buildVars(BuildRun)

-----------------------------------------------------------------------------
(* A crate that rustc takes from its cache has the Rust half of the        *)
(* sources of this moment, and index.ts is the other half, never an older  *)
(* one, with two exceptions that the tracking cannot see: a file that was  *)
(* added since, and an index.ts that is gone or not the generator's        *)
(* (draad-macros/src/lib.rs:398-411).                                      *)
CachedMeansCurrent ==
    (/\ driver = "macro" /\ script = "idle" /\ ~ CrateStale
     /\ Present \subseteq DOMAIN read) =>
        /\ expansion = RenderGeneratedRs(source)
        /\ rustOnly \/ ts \in {RenderIndex(source), Missing, Foreign}

(* Neither driver keeps itself running: after the last disturbance the     *)
(* build script runs twice at most (SettlesInTwo), and the macro expands   *)
(* once, since the index.ts that it writes is not among what it has rustc  *)
(* track (lib.rs:398-402).                                                 *)
SettlesSoon == SourceRejected \/ reruns <= IF driver = "macro" THEN 1 ELSE 2

(* Once sources and outputs are left alone, either driver finds nothing    *)
(* more to do, unless the generator panics at what is in the sources.      *)
Quiesces ==
    <>[](\/ SourceRejected
         \/ script = "idle" /\ ~ IF driver = "macro" THEN CrateStale ELSE Stale)
=============================================================================
