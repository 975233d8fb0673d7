-------------------------------- MODULE Patcher --------------------------------
(***************************************************************************)
(* How peek edits the files of an installed engine: _patcher.py and the    *)
(* installers of sglang_patches/ and vllm_patches/.  Every process that    *)
(* imports peek.offline probes the engine and may run the installer;       *)
(* `peek.offline.install` runs it unconditionally or reverts.  Nothing     *)
(* locks the files, and a process may die between any two file operations. *)
(*   text     file -> the edits it has (stock: none), or NoFile            *)
(*   bak      file -> the text of its .peek_bak, or NoFile                 *)
(*   proc     per process: pc, job, file index i, text read (buf), whether *)
(*            all files went well (ok), what it returned (ret), and the    *)
(*            texts of the engine modules it has imported (loaded)         *)
(* A file is read, copied and written in one step each; looking whether a  *)
(* backup is there and making it are two.  The renaming of "superkv" in    *)
(* files patched under the old name is left out.                           *)
(***************************************************************************)
EXTENDS Naturals, Sequences, FiniteSets, Functions

CONSTANTS
    Proc,
    Configs,        \* [engine, drift: edits whose pattern is not in this release's
                    \*  text, absent: indices of files this release does not have,
                    \*  alone: this deployment runs one installer at a time]
    RevertAlone,    \* reverts only run while no other process patches or reverts
    NoFile

VARIABLES config, text, bak, proc

vars == <<config, text, bak, proc>>

-----------------------------------------------------------------------------
(* One patch_* function per file: its edits, and what it does when the     *)
(* pattern of an edit is not found.  "write": the text is written all the  *)
(* same and the file counts as patched.  "warn": it is written if some     *)
(* edit took, and counts as patched.  "fail": it is left alone and counts  *)
(* as failed.                                                              *)
PatchEvictPolicy == [edits |-> {"QueueAwareStrategy"}, miss |-> "write"]
(* The methods that patch_radix_cache adds to the class.                   *)
AddedMethods == {"queue ref methods", "match_prefix_readonly"}
PatchRadixCache ==
    [edits |-> AddedMethods \cup {"strategy import", "queue_ref_count", "strategy case",
                                  "split inherits", "update_lru"}, miss |-> "write"]
PatchSchedulePolicy == [edits |-> {"PeekEngine hook", "_peek_matched skip"}, miss |-> "warn"]
PatchServerArgs == [edits |-> {"queue-aware choice"}, miss |-> "write"]

PatchKvCacheUtils == [edits |-> {"queue_ref_count field", "popleft_queue_aware"}, miss |-> "write"]
PatchBlockPool ==
    [edits |-> {"queue ref count methods", "pool flag", "get_new_blocks"}, miss |-> "write"]
PatchScheduler == [edits |-> {"_peek_hook"}, miss |-> "fail"]
PatchCacheConfig == [edits |-> {"config flag"}, miss |-> "fail"]

(* main of each installer and its PATCHED_FILES, in order.                 *)
SglangFiles == <<PatchEvictPolicy, PatchRadixCache, PatchSchedulePolicy, PatchServerArgs>>
VllmFiles == <<PatchKvCacheUtils, PatchBlockPool, PatchScheduler, PatchCacheConfig>>

(* Every edit some patch makes.                                            *)
AllEdits == UNION {f.edits : f \in {PatchEvictPolicy, PatchRadixCache, PatchSchedulePolicy,
                                    PatchServerArgs, PatchKvCacheUtils, PatchBlockPool,
                                    PatchScheduler, PatchCacheConfig}}

(* A release is told by its engine, by the patterns its text lacks and by  *)
(* the files it lacks; no file at all is not a text.  That installers run  *)
(* one at a time is up to the deployment: no code sees to it.              *)
ASSUME ConfigsAssumption ==
    Configs \subseteq [engine : {"sglang", "vllm"}, drift : SUBSET AllEdits,
                       absent : SUBSET (1..4), alone : BOOLEAN]
ASSUME NoFileAssumption == \A t \in SUBSET AllEdits : NoFile # t

Files == IF config.engine = "sglang" THEN SglangFiles ELSE VllmFiles

(* What the probe of an import looks for in the first file.                *)
ProbedEdit == IF config.engine = "sglang" THEN "QueueAwareStrategy" ELSE "queue_ref_count field"

(* patch_sglang drops the modules of mem_cache and managers, where the     *)
(* first three files are; patch_vllm drops none.                           *)
Purged == IF config.engine = "sglang" THEN {1, 2, 3} ELSE {}

Applicable(i) == Files[i].edits \ config.drift

-----------------------------------------------------------------------------
NoLoad == [i \in {} |-> {}]
Off == [pc |-> "off", job |-> "none", i |-> 1, buf |-> {}, ok |-> TRUE, ret |-> FALSE,
        loaded |-> NoLoad]

Init ==
    /\ config \in Configs
    /\ text = [i \in 1..4 |-> IF i \in config.absent THEN NoFile ELSE {}]
    /\ bak = [i \in 1..4 |-> NoFile]
    /\ proc = [p \in Proc |-> Off]

(* The files this engine has.                                              *)
Present == {i \in 1..4 : text[i] # NoFile}

(* The processes that are inside an installer.                             *)
Busy == {p \in Proc : proc[p].pc \notin {"off", "ready", "reverted"}}

(* A process imports peek.offline (install_all), or an operator calls the  *)
(* installer with force.  The probe imports the engine's first module.     *)
Start(p, job) ==
    /\ proc[p].pc = "off"
    /\ RevertAlone => \A q \in Busy : proc[q].job # "revert"
    /\ LET here == [Off EXCEPT !.job = job]
           seen == IF text[1] = NoFile THEN NoLoad ELSE [i \in {1} |-> text[i]]
           patched == text[1] # NoFile /\ ProbedEdit \in text[1]
       IN /\ config.alone /\ (job = "force" \/ ~patched) => Busy = {}
          /\ proc' = [proc EXCEPT ![p] =
                IF job = "force" THEN [here EXCEPT !.pc = "read"]
                ELSE IF patched THEN [here EXCEPT !.pc = "ready", !.ret = TRUE, !.loaded = seen]
                ELSE [here EXCEPT !.pc = "read", !.loaded = seen]]
    /\ UNCHANGED <<config, text, bak>>

(* The installer is through with file i; with the last one it exits and    *)
(* patch_* returns.                                                        *)
Next_(q, ok) ==
    IF q.i < Len(Files) THEN [q EXCEPT !.i = @ + 1, !.pc = "read", !.ok = ok]
    ELSE [q EXCEPT !.pc = "ready", !.ok = ok, !.ret = ok,
                   !.loaded = IF ok THEN Restrict(@, DOMAIN @ \ Purged) ELSE @]

(* The head of patch_*: a file that is missing fails, one that has every   *)
(* edit is passed over.                                                    *)
Read(p) ==
    LET q == proc[p] IN
    /\ q.pc = "read"
    /\ proc' = [proc EXCEPT ![p] =
          IF text[q.i] = NoFile THEN Next_(q, FALSE)
          ELSE IF Files[q.i].edits \subseteq text[q.i] THEN Next_(q, q.ok)
          ELSE [q EXCEPT !.pc = "backup", !.buf = text[q.i]]]
    /\ UNCHANGED <<config, text, bak>>

(* Mutant: the backup is taken again by every installation.                *)
BackupAlways(p) ==
    /\ proc[p].pc = "backup"
    /\ proc' = [proc EXCEPT ![p].pc = "copy"]
    /\ UNCHANGED <<config, text, bak>>

(* backup: only if there is none yet ...                                   *)
Backup(p) ==
    /\ proc[p].pc = "backup"
    /\ proc' = [proc EXCEPT ![p].pc = IF bak[proc[p].i] = NoFile THEN "copy" ELSE "write"]
    /\ UNCHANGED <<config, text, bak>>

(* ... the file is copied, as it is by now.                                *)
Copy(p) ==
    LET q == proc[p] IN
    /\ q.pc = "copy"
    /\ bak' = [bak EXCEPT ![q.i] = text[q.i]]
    /\ proc' = [proc EXCEPT ![p].pc = "write"]
    /\ UNCHANGED <<config, text>>

(* Mutant: a text in which an edit did not take is not written.            *)
WriteOnlyWhole(p) ==
    LET q == proc[p] IN
    /\ q.pc = "write"
    /\ text' = [text EXCEPT ![q.i] = IF Files[q.i].edits \cap config.drift # {} THEN @
                                     ELSE q.buf \cup Applicable(q.i)]
    /\ proc' = [proc EXCEPT ![p] = Next_(q, q.ok)]
    /\ UNCHANGED <<config, bak>>

(* The end of patch_*: the edits that take are in the text written.        *)
Write(p) ==
    LET q == proc[p]
        new == q.buf \cup Applicable(q.i)
        failed == Files[q.i].miss = "fail" /\ new # Files[q.i].edits
        kept == failed \/ (Files[q.i].miss = "warn" /\ new = q.buf)
    IN
    /\ q.pc = "write"
    /\ text' = [text EXCEPT ![q.i] = IF kept THEN @ ELSE new]
    /\ proc' = [proc EXCEPT ![p] = Next_(q, q.ok /\ ~failed)]
    /\ UNCHANGED <<config, bak>>

(* External: once the installer is done the process imports the rest of    *)
(* the engine.                                                             *)
Load(p) ==
    LET rest == Present \ DOMAIN proc[p].loaded IN
    /\ proc[p].pc = "ready" /\ rest # {}
    /\ proc' = [proc EXCEPT ![p].loaded =
                    [i \in rest \cup DOMAIN @ |-> IF i \in rest THEN text[i] ELSE @[i]]]
    /\ UNCHANGED <<config, text, bak>>

-----------------------------------------------------------------------------
(* revert_* by an operator.                                                *)
StartRevert(p) ==
    /\ proc[p].pc = "off" /\ (RevertAlone => Busy = {})
    /\ proc' = [proc EXCEPT ![p] = [Off EXCEPT !.pc = "restore", !.job = "revert"]]
    /\ UNCHANGED <<config, text, bak>>

NextRestore(q) ==
    IF q.i < Len(Files) THEN [q EXCEPT !.i = @ + 1, !.pc = "restore"]
    ELSE [q EXCEPT !.pc = "reverted"]

(* The backup is copied back; a file without one is passed over.           *)
Restore(p) ==
    LET q == proc[p] IN
    /\ q.pc = "restore"
    /\ IF bak[q.i] = NoFile
       THEN proc' = [proc EXCEPT ![p] = NextRestore(q)] /\ UNCHANGED text
       ELSE /\ text' = [text EXCEPT ![q.i] = bak[q.i]]
            /\ proc' = [proc EXCEPT ![p].pc = "unlink"]
    /\ UNCHANGED <<config, bak>>

(* Mutant: the backup stays where it is.                                   *)
UnlinkNever(p) ==
    /\ proc[p].pc = "unlink"
    /\ proc' = [proc EXCEPT ![p] = NextRestore(proc[p])]
    /\ UNCHANGED <<config, text, bak>>

(* bak.unlink(); if another revert was faster it raises.                   *)
Unlink(p) ==
    LET q == proc[p] IN
    /\ q.pc = "unlink"
    /\ bak' = [bak EXCEPT ![q.i] = NoFile]
    /\ proc' = [proc EXCEPT ![p] = IF bak[q.i] = NoFile THEN Off ELSE NextRestore(q)]
    /\ UNCHANGED <<config, text>>

(* A process ends, or dies on the way.                                     *)
Crash(p) ==
    /\ proc[p].pc # "off"
    /\ proc' = [proc EXCEPT ![p] = Off]
    /\ UNCHANGED <<config, text, bak>>

(* External: the engine is installed again, in the same release; pip       *)
(* writes its own files and leaves the backups.                            *)
Reinstall ==
    /\ Busy = {} /\ text # [i \in 1..4 |-> IF i \in config.absent THEN NoFile ELSE {}]
    /\ text' = [i \in 1..4 |-> IF i \in config.absent THEN NoFile ELSE {}]
    /\ UNCHANGED <<config, bak, proc>>

Next ==
    \/ \E p \in Proc :
          \/ \E job \in {"import", "force"} : Start(p, job)
          \/ Read(p) \/ Backup(p) \/ Copy(p) \/ Write(p) \/ Load(p)
          \/ StartRevert(p) \/ Restore(p) \/ Unlink(p) \/ Crash(p)
    \/ Reinstall

Spec == Init /\ [][Next]_vars
-----------------------------------------------------------------------------
TypeOK ==
    /\ config \in Configs
    /\ \A i \in Present : text[i] \subseteq Files[i].edits
    /\ \A i \in 1..4 : bak[i] # NoFile => bak[i] \subseteq Files[i].edits
    /\ \A p \in Proc : proc[p].i \in 1..Len(Files)

(* Where installers run one at a time the engine's own text of every file  *)
(* is never lost: whatever installations, imports, deaths in between,      *)
(* reverts and reinstallations there were, a file is stock or its backup   *)
(* is.                                                                     *)
Recoverable ==
    TypeOK /\ (config.alone => \A i \in Present : text[i] = {} \/ bak[i] = {})

(* backup (install.py): "Create a .bak backup if one doesn't already       *)
(* exist", and the installer is "safe to run multiple times"               *)
(* (sglang_patches/README.md): the same however installers run.            *)
OriginalsKept == \A i \in Present : text[i] = {} \/ bak[i] = {}

(* There, a revert that runs to its end leaves the engine as it was        *)
(* installed, and no backup that a later installation would take for its   *)
(* own.                                                                    *)
RevertRestores ==
    [][config.alone =>
         \A p \in Proc : proc[p].pc # "reverted" /\ proc'[p].pc = "reverted" =>
           \A i \in Present : text'[i] = {} /\ bak'[i] = NoFile]_vars

(* A forced installation that succeeds leaves in every file all the edits  *)
(* that this release takes, also over what a dead or a concurrent          *)
(* installer left.                                                         *)
InstallComplete ==
    [][\A p \in Proc :
         /\ proc[p].job = "force" /\ proc[p].pc # "ready" /\ proc'[p].pc = "ready"
         /\ proc'[p].ret
         => \A i \in 1..Len(Files) : text'[i] = Applicable(i)]_vars
=============================================================================
