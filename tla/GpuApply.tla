------------------------------- MODULE GpuApply -------------------------------
(***************************************************************************)
(* POST /api/gpu/apply: the endpoint reads config.yaml, generates the      *)
(* llama-swap configuration, keeps the file it replaces as .bak, waits for *)
(* llama-swap's health, puts .bak back when that does not come, and warms  *)
(* the resident models up.  Applies are coroutines of one event loop: they *)
(* interleave at every await and share the file, its .bak and its .tmp.    *)
(*                                                                         *)
(* A file is named by the configuration whose text it holds.  llama-swap   *)
(* is another process: it watches the file and reloads when it gets to it. *)
(***************************************************************************)
EXTENDS Naturals

CONSTANTS
  Apply,      \* POST requests; a request may be sent again once it is answered
  Config,     \* contents of config.yaml
  Enabled,    \* those with gpu.enabled
  Resident,   \* those with at least one resident CPU/GPU1 model
  NoFile,     \* the file does not exist
  Torn        \* a file whose writing was cut short

ASSUME GpuAssumption ==
  /\ Enabled \subseteq Config
  /\ Resident \subseteq Config
  /\ NoFile \notin Config
  /\ Torn \notin Config
  /\ NoFile # Torn

VARIABLES
  disk,     \* config.yaml, edited by the owner
  swap,     \* llama-swap.yaml
  bak,      \* llama-swap.yaml.bak
  tmp,      \* llama-swap.yaml.tmp
  stale,    \* the file was replaced since llama-swap last read it
  loaded,   \* the resident models are loaded
  apply     \* the local variables of each request

vars == <<disk, swap, bak, tmp, stale, loaded, apply>>
files == <<swap, bak, tmp>>
llama == <<stale, loaded>>
-----------------------------------------------------------------------------
File == Config \cup {NoFile, Torn}
Answer == {"ok", "disabled", "write failed", "rolled back", "unloaded"}
PC == {"new", "generated", "poll", "warm", "check"} \cup Answer
Retries == 0..2
ApplyState ==
  [pc : PC, config : Config, had : BOOLEAN, replaced : File, attempt : Retries]

Goto(a, pc) == apply' = [apply EXCEPT ![a].pc = pc]
Waiting(a) == apply[a].pc \notin Answer \cup {"new"}

\* _config_for_apply reads config.yaml again; the endpoint then awaits its span.
Generate(a) ==
  /\ ~Waiting(a)
  /\ apply' = [apply EXCEPT ![a].pc = IF disk \in Enabled THEN "generated" ELSE "disabled",
                            ![a].config = disk]
  /\ UNCHANGED <<disk, files, llama>>

(***************************************************************************)
(* The write section has no await, but each of its file operations can     *)
(* raise OSError or be the last thing the process does.                    *)
(***************************************************************************)
Stage == {"mkdir", "copying", "copied", "writing", "written"}

\* Mutant: a .bak that is already there is kept.
BakKept(stage) ==
  IF swap = NoFile \/ stage \in {"mkdir", "copying"} \/ bak # NoFile THEN bak ELSE swap

BakAt(stage) ==
  CASE swap = NoFile \/ stage = "mkdir" -> bak
    [] swap # NoFile /\ stage = "copying" -> Torn
    [] OTHER -> swap

TmpAt(stage, config) ==
  CASE stage = "writing" -> Torn
    [] stage = "written" -> config
    [] OTHER -> tmp

\* Mutant: the file is written in place.
StopsInPlace(stage, config) ==
  /\ bak' = BakAt(stage)
  /\ swap' = IF stage = "writing" THEN Torn ELSE swap
  /\ UNCHANGED tmp

StopsAt(stage, config) ==
  /\ bak' = BakAt(stage)
  /\ tmp' = TmpAt(stage, config)
  /\ UNCHANGED swap

\* `replaced' records, for the properties, what the file held.
Write(a) ==
  /\ apply[a].pc = "generated"
  /\ bak' = BakAt("written")
  /\ tmp' = NoFile
  /\ swap' = apply[a].config
  /\ stale' = TRUE
  /\ apply' = [apply EXCEPT ![a].pc = "poll", ![a].had = (swap # NoFile),
                            ![a].replaced = swap]
  /\ UNCHANGED <<disk, loaded>>

WriteFails(a) ==
  /\ apply[a].pc = "generated"
  /\ \E stage \in Stage : StopsAt(stage, apply[a].config)
  /\ Goto(a, "write failed")
  /\ UNCHANGED <<disk, llama>>

\* /health says OK: it is the proxy's own, whichever file it has read.
Healthy(a) ==
  /\ apply[a].pc = "poll"
  /\ apply' = [apply EXCEPT ![a].pc = "warm", ![a].attempt = 0]
  /\ UNCHANGED <<disk, files, llama>>

\* The .bak is put back; an OSError of that is passed over.
PollTimesOut(a) ==
  /\ apply[a].pc = "poll"
  /\ \/ /\ apply[a].had /\ bak # NoFile
        /\ swap' = bak
        /\ bak' = NoFile
        /\ stale' = TRUE
     \/ UNCHANGED <<swap, bak, stale>>
  /\ Goto(a, "rolled back")
  /\ UNCHANGED <<disk, tmp, loaded>>

\* warmup_resident_models: every ping is best effort.
WarmUp(a) ==
  /\ apply[a].pc = "warm"
  /\ \/ apply[a].config \in Resident /\ loaded' = TRUE
     \/ UNCHANGED loaded
  /\ Goto(a, "check")
  /\ UNCHANGED <<disk, files, stale>>

\* all_residents_loaded; a status that cannot be had counts as unloaded.
CheckLoaded(a) ==
  /\ apply[a].pc = "check"
  /\ apply[a].config \in Resident => loaded
  /\ Goto(a, "ok")
  /\ UNCHANGED <<disk, files, llama>>

\* Mutant: the loop has no last attempt.
CheckUnloadedForever(a) ==
  /\ apply[a].pc = "check"
  /\ apply[a].config \in Resident
  /\ Goto(a, "warm")
  /\ UNCHANGED <<disk, files, llama>>

CheckUnloaded(a) ==
  /\ apply[a].pc = "check"
  /\ apply[a].config \in Resident
  /\ IF apply[a].attempt = 2
       THEN Goto(a, "unloaded")
       ELSE apply' = [apply EXCEPT ![a].pc = "warm", ![a].attempt = @ + 1]
  /\ UNCHANGED <<disk, files, llama>>
-----------------------------------------------------------------------------
(* The world around the endpoint *)

EditConfig ==
  /\ disk' \in Config
  /\ UNCHANGED <<files, llama, apply>>

\* llama-swap's -watch-config: it ends every server it runs and reads the file.
Reload ==
  /\ stale
  /\ stale' = FALSE
  /\ loaded' = FALSE
  /\ UNCHANGED <<disk, files, apply>>

NewRequest ==
  [pc |-> "new", config |-> CHOOSE c \in Config : TRUE, had |-> FALSE,
   replaced |-> NoFile, attempt |-> 0]

\* The process dies, perhaps in the middle of a write section, and is restarted.
Crash ==
  /\ apply' = [a \in Apply |-> NewRequest]
  /\ \/ UNCHANGED files
     \/ \E a \in Apply, stage \in Stage :
          apply[a].pc = "generated" /\ StopsAt(stage, apply[a].config)
  /\ UNCHANGED <<disk, llama>>

Init ==
  /\ disk \in Config
  /\ swap \in Config \cup {NoFile}
  /\ bak = NoFile
  /\ tmp = NoFile
  /\ stale = FALSE
  /\ loaded = FALSE
  /\ apply = [a \in Apply |-> NewRequest]

ApplyStep(a) ==
  \/ Write(a) \/ WriteFails(a)
  \/ Healthy(a) \/ PollTimesOut(a)
  \/ WarmUp(a) \/ CheckLoaded(a) \/ CheckUnloaded(a)

Next ==
  \/ \E a \in Apply : Generate(a) \/ ApplyStep(a)
  \/ EditConfig
  \/ Reload
  \/ Crash

Spec == Init /\ [][Next]_vars

\* The polls, pings and status queries have timeouts; llama-swap may never reload.
FairSpec == Spec /\ \A a \in Apply : WF_vars(ApplyStep(a))
-----------------------------------------------------------------------------
(* Properties *)

TypeOK ==
  /\ disk \in Config
  /\ swap \in File /\ bak \in File /\ tmp \in File
  /\ stale \in BOOLEAN /\ loaded \in BOOLEAN
  /\ apply \in [Apply -> ApplyState]

\* llama-swap.yaml is always whole: an OSError or a crash in the middle of writing
\* it, or of copying it, never leaves a part of a file for llama-swap to read, not
\* even through a later rollback.
SwapIsWhole == swap # Torn

\* While an apply waits for llama-swap, what it replaced can be put back, by the
\* endpoint or, after a crash, by hand.
BackupIsPrevious ==
  \A a \in Apply : apply[a].pc = "poll" /\ apply[a].had => bak = apply[a].replaced

\* A failed apply that puts a file back puts back the one it had replaced.
RollsBack(a) == apply[a].pc = "poll" /\ apply'[a].pc = "rolled back"
RollbackRestoresPrevious ==
  [][\A a \in Apply : RollsBack(a) => swap' \in {swap, apply[a].replaced}]_vars

\* Every apply is answered, unless the process dies.
ApplyEnds == \A a \in Apply : Waiting(a) ~> ~Waiting(a)

\* The inductive strengthening for one apply at a time.
OneApplyInv ==
  /\ TypeOK
  /\ SwapIsWhole
  /\ BackupIsPrevious
  /\ \A a \in Apply : apply[a].replaced # Torn
===============================================================================
