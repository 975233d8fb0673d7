----------------------------- MODULE PatcherProofs -----------------------------
(***************************************************************************)
(* What peek's installers leave on disk, for any number of processes and   *)
(* any release of the engine, whenever reverts run alone; installers run   *)
(* one at a time or not, as config says.                                   *)
(***************************************************************************)
EXTENDS Patcher, TLAPS

Texts == SUBSET AllEdits
Loads == UNION {[D -> Texts] : D \in SUBSET (1..4)}

Installing == {"read", "backup", "copy", "write"}
Reverting == {"restore", "unlink"}

Process == [pc : {"off", "ready", "reverted"} \cup Installing \cup Reverting,
            job : {"none", "import", "force", "revert"}, i : 1..4, buf : Texts,
            ok : BOOLEAN, ret : BOOLEAN, loaded : Loads]

(* The state is well typed, and the job of a process says what it is at.   *)
Typed ==
    /\ config \in Configs
    /\ text \in [1..4 -> {NoFile} \cup Texts]
    /\ bak \in [1..4 -> {NoFile} \cup Texts]
    /\ proc \in [Proc -> Process]
    /\ \A p \in Proc : /\ proc[p].pc = "off" => proc[p].job = "none"
                       /\ proc[p].pc \in Installing => proc[p].job # "revert"
                       /\ proc[p].pc \in Reverting => proc[p].job = "revert"

(* The edits that release c takes in file i, and so the texts it can have. *)
Takes(c, i) == (IF c.engine = "sglang" THEN SglangFiles ELSE VllmFiles)[i].edits \ c.drift

(* A file and its backup have no edit but those the release takes, and     *)
(* exactly the files of the release are there.  With installers one at a   *)
(* time a backup is stock, and a file that is not stock has one.           *)
OnDisk(c, t, b) ==
    \A i \in 1..4 :
      /\ i \in c.absent => t[i] = NoFile /\ b[i] = NoFile
      /\ i \notin c.absent => /\ t[i] \subseteq Takes(c, i)
                              /\ b[i] = NoFile \/ b[i] \subseteq Takes(c, i)
                              /\ c.alone => b[i] = {} \/ (b[i] = NoFile /\ t[i] = {})

(* What an installer has read, saved and finished; one that is about to    *)
(* copy is right that there is no backup only if it is alone.              *)
Installed(q, c, t, b) ==
    /\ q.pc \in {"backup", "copy", "write"} => q.i \notin c.absent /\ q.buf \subseteq t[q.i]
    /\ c.alone /\ q.pc = "copy" => b[q.i] = NoFile
    /\ c.alone /\ q.pc = "write" => b[q.i] = {}
    /\ q.pc \in Installing /\ q.ok => \A j \in 1..4 : j < q.i => t[j] = Takes(c, j)

(* What a revert has restored.                                             *)
Reverted(q, c, t, b) ==
    c.alone =>
      /\ q.pc \in Reverting =>
           \A j \in 1..4 : j < q.i /\ j \notin c.absent => t[j] = {} /\ b[j] = NoFile
      /\ q.pc = "unlink" => q.i \notin c.absent /\ t[q.i] = {}

(* A revert has the files to itself; so has an installer, where the        *)
(* deployment runs them one at a time.                                     *)
Alone == \A p, q \in Proc :
            /\ proc[p].pc \in Reverting /\ q # p => q \notin Busy
            /\ config.alone /\ p \in Busy /\ q \in Busy => p = q

IInv ==
    /\ Typed /\ OnDisk(config, text, bak) /\ Alone
    /\ \A p \in Proc : /\ Installed(proc[p], config, text, bak)
                       /\ Reverted(proc[p], config, text, bak)
-----------------------------------------------------------------------------
(* The files of an engine and what their patches may write.                *)
LEMMA FilesFacts ==
    /\ Len(Files) = 4
    /\ \A i \in 1..4 : /\ Files[i].edits \in Texts
                       /\ Applicable(i) \subseteq Files[i].edits
                       /\ Applicable(i) \in Texts
    /\ {} \in Texts /\ NoFile \notin Texts /\ NoFile # {}
<1>1. \A i \in 1..4 : SglangFiles[i].edits \in Texts /\ VllmFiles[i].edits \in Texts
  <2>1. \A f \in {PatchEvictPolicy, PatchRadixCache, PatchSchedulePolicy, PatchServerArgs,
                  PatchKvCacheUtils, PatchBlockPool, PatchScheduler, PatchCacheConfig} :
           f.edits \in Texts
    BY DEF Texts, AllEdits
  <2>2. \A i \in 1..4 : i = 1 \/ i = 2 \/ i = 3 \/ i = 4
    OBVIOUS
  <2> QED
    BY <2>1, <2>2 DEF SglangFiles, VllmFiles
<1>2. Len(SglangFiles) = 4 /\ Len(VllmFiles) = 4
  BY DEF SglangFiles, VllmFiles
<1>3. NoFile \notin Texts /\ {} \in Texts
  BY NoFileAssumption DEF Texts
<1> QED
  BY <1>1, <1>2, <1>3 DEF Files, Applicable, Texts

(* The files a process has loaded: none, more, fewer.                      *)
LEMMA LoadsFacts ==
    /\ NoLoad \in Loads
    /\ \A t \in Texts : [i \in {1} |-> t] \in Loads
    /\ \A f \in Loads : \A S \in SUBSET DOMAIN f : Restrict(f, S) \in Loads
    /\ \A f \in Loads : \A S \in SUBSET (1..4) : \A g \in [S -> Texts] :
          [j \in S \cup DOMAIN f |-> IF j \in S THEN g[j] ELSE f[j]] \in Loads
<1>1. ASSUME NEW D \in SUBSET (1..4), NEW f \in [D -> Texts] PROVE f \in Loads
  BY DEF Loads
<1>2. ASSUME NEW f \in Loads PROVE f \in [DOMAIN f -> Texts] /\ DOMAIN f \in SUBSET (1..4)
  BY DEF Loads
<1>3. NoLoad \in Loads
  <2>1. NoLoad \in [{} -> Texts]
    BY DEF NoLoad
  <2> QED
    BY <1>1, <2>1
<1>4. ASSUME NEW t \in Texts PROVE [i \in {1} |-> t] \in Loads
  BY <1>1
<1>5. ASSUME NEW f \in Loads, NEW S \in SUBSET DOMAIN f PROVE Restrict(f, S) \in Loads
  BY <1>1, <1>2 DEF Restrict
<1>6. ASSUME NEW f \in Loads, NEW S \in SUBSET (1..4), NEW g \in [S -> Texts]
      PROVE  [j \in S \cup DOMAIN f |-> IF j \in S THEN g[j] ELSE f[j]] \in Loads
  BY <1>1, <1>2
<1> QED
  BY <1>3, <1>4, <1>5, <1>6

(* A process that has not started.                                         *)
LEMMA OffIsProcess == Off \in Process /\ Off.pc = "off" /\ Off.job = "none"
BY LoadsFacts, FilesFacts DEF Off, Process, Installing, Reverting

(* A step of process p that leaves the other processes' work valid.        *)
LEMMA ProcessStep ==
    ASSUME IInv, UNCHANGED config, NEW p \in Proc, NEW q \in Process,
           proc' = [proc EXCEPT ![p] = q],
           text' \in [1..4 -> {NoFile} \cup Texts], bak' \in [1..4 -> {NoFile} \cup Texts],
           OnDisk(config, text', bak'),
           q.pc = "off" => q.job = "none",
           q.pc \in Installing => q.job # "revert",
           q.pc \in Reverting => q.job = "revert",
           q.pc \in Reverting => \A r \in Proc \ {p} : r \notin Busy,
           q.pc \in Installing => \A r \in Proc \ {p} : proc[r].pc \notin Reverting,
           config.alone /\ q.pc \in Installing => \A r \in Proc \ {p} : r \notin Busy,
           Installed(q, config, text', bak'), Reverted(q, config, text', bak'),
           \A r \in Proc \ {p} : /\ Installed(proc[r], config, text', bak')
                                 /\ Reverted(proc[r], config, text', bak')
    PROVE  IInv'
<1>1. Typed'
  BY DEF IInv, Typed
<1>2. proc'[p] = q /\ \A r \in Proc \ {p} : proc'[r] = proc[r]
  BY DEF IInv, Typed
<1>3. \A r \in Proc : r \in Busy' => r = p \/ r \in Busy
  BY <1>2 DEF Busy
<1>4. p \in Busy' => q.pc \in Installing \cup Reverting
  BY <1>2 DEF Busy, Process
<1>5. ASSUME NEW r \in Proc, NEW u \in Proc, proc'[r].pc \in Reverting, u # r, u \in Busy'
      PROVE  FALSE
  <2>1. CASE r = p
    BY <1>2, <1>3, <1>5, <2>1
  <2>2. CASE r # p /\ u # p
    BY <1>2, <1>3, <1>5, <2>2 DEF IInv, Alone
  <2>3. CASE r # p /\ u = p
    <3>1. proc[r].pc \in Reverting /\ r \in Proc \ {p}
      BY <1>2, <1>5, <2>3
    <3>2. r \in Busy
      BY <3>1 DEF Busy, Reverting
    <3> QED
      BY <1>4, <1>5, <2>3, <3>1, <3>2
  <2> QED
    BY <2>1, <2>2, <2>3
<1>6. ASSUME NEW r \in Proc, NEW u \in Proc, config.alone, r \in Busy', u \in Busy'
      PROVE  r = u
  <2>1. CASE r # p /\ u # p
    BY <1>3, <1>6, <2>1 DEF IInv, Alone
  <2>2. CASE r = p \/ u = p
    BY <1>3, <1>4, <1>6, <2>2
  <2> QED
    BY <2>1, <2>2
<1>7. Alone'
  BY <1>5, <1>6 DEF Alone
<1>8. \A r \in Proc : /\ Installed(proc'[r], config', text', bak')
                      /\ Reverted(proc'[r], config', text', bak')
  BY <1>2
<1> QED
  BY <1>1, <1>7, <1>8 DEF IInv

(* The edits a file of the installed release takes.                        *)
LEMMA ApplicableTakes == \A i \in 1..4 : Applicable(i) = Takes(config, i)
BY DEF Applicable, Files, Takes

(* The same for a step that leaves the files alone.                        *)
LEMMA QuietStep ==
    ASSUME IInv, UNCHANGED <<config, text, bak>>, NEW p \in Proc, NEW q \in Process,
           proc' = [proc EXCEPT ![p] = q],
           q.pc = "off" => q.job = "none",
           q.pc \in Installing => q.job # "revert",
           q.pc \in Reverting => q.job = "revert",
           q.pc \in Reverting => \A r \in Proc \ {p} : r \notin Busy,
           q.pc \in Installing => \A r \in Proc \ {p} : proc[r].pc \notin Reverting,
           config.alone /\ q.pc \in Installing => \A r \in Proc \ {p} : r \notin Busy,
           Installed(q, config, text, bak), Reverted(q, config, text, bak)
    PROVE  IInv'
BY ProcessStep DEF IInv, Typed

(* Where an installer goes after a file: to the next one, or out.          *)
LEMMA NextFacts ==
    ASSUME NEW q \in Process, NEW ok \in BOOLEAN
    PROVE  /\ Next_(q, ok) \in Process
           /\ Next_(q, ok).job = q.job
           /\ Next_(q, ok).ok = ok
           /\ q.i < 4 => Next_(q, ok).pc = "read" /\ Next_(q, ok).i = q.i + 1
           /\ q.i = 4 => Next_(q, ok).pc = "ready" /\ Next_(q, ok).ret = ok
<1>1. Restrict(q.loaded, DOMAIN q.loaded \ Purged) \in Loads
  BY LoadsFacts DEF Process
<1>2. q.i \in 1..4 /\ Len(Files) = 4
  BY FilesFacts DEF Process
<1>3. CASE q.i < 4
  <2>1. Next_(q, ok) = [pc |-> "read", job |-> q.job, i |-> q.i + 1, buf |-> q.buf, ok |-> ok,
                        ret |-> q.ret, loaded |-> q.loaded]
    BY <1>2, <1>3 DEF Next_, Process
  <2> QED
    BY <1>2, <1>3, <2>1 DEF Process, Installing
<1>4. CASE q.i = 4
  <2> DEFINE l == IF ok THEN Restrict(q.loaded, DOMAIN q.loaded \ Purged) ELSE q.loaded
  <2>1. Next_(q, ok) = [pc |-> "ready", job |-> q.job, i |-> q.i, buf |-> q.buf, ok |-> ok,
                        ret |-> ok, loaded |-> l]
    <3>1. Next_(q, ok) = [q EXCEPT !.pc = "ready", !.ok = ok, !.ret = ok, !.loaded = l]
      BY <1>2, <1>4 DEF Next_
    <3> HIDE DEF l
    <3> QED
      BY <3>1 DEF Process
  <2>2. l \in Loads
    BY <1>1 DEF Process
  <2> HIDE DEF l
  <2> QED
    BY <1>2, <1>4, <2>1, <2>2 DEF Process
<1> QED
  BY <1>2, <1>3, <1>4

(* How a revert goes on: to the next file or to its end.                   *)
LEMMA NextRestoreFacts ==
    ASSUME NEW q \in Process
    PROVE  /\ NextRestore(q) \in Process
           /\ NextRestore(q).job = q.job
           /\ q.i < 4 => NextRestore(q).pc = "restore" /\ NextRestore(q).i = q.i + 1
           /\ q.i = 4 => NextRestore(q).pc = "reverted"
<1>1. q.i \in 1..4 /\ Len(Files) = 4
  BY FilesFacts DEF Process
<1>2. CASE q.i < 4
  <2>1. NextRestore(q) = [pc |-> "restore", job |-> q.job, i |-> q.i + 1, buf |-> q.buf,
                          ok |-> q.ok, ret |-> q.ret, loaded |-> q.loaded]
    BY <1>1, <1>2 DEF NextRestore, Process
  <2> QED
    BY <1>1, <1>2, <2>1 DEF Process, Reverting
<1>3. CASE q.i = 4
  BY <1>1, <1>3 DEF NextRestore, Process
<1> QED
  BY <1>1, <1>2, <1>3

-----------------------------------------------------------------------------
(* One lemma per action: it preserves the invariant.                       *)
LEMMA StartStep ==
    ASSUME RevertAlone, IInv, NEW p \in Proc, NEW job \in {"import", "force"}, Start(p, job)
    PROVE  IInv'
<1> DEFINE here == [Off EXCEPT !.job = job]
           seen == IF text[1] = NoFile THEN NoLoad ELSE [i \in {1} |-> text[i]]
           q == proc'[p]
<1>1. text[1] \in {NoFile} \cup Texts
  BY DEF IInv, Typed
<1>2. seen \in Loads
  <2>1. CASE text[1] = NoFile
    BY <2>1, LoadsFacts
  <2>2. CASE text[1] # NoFile
    <3>1. [i \in {1} |-> text[i]] = [i \in {1} |-> text[1]]
      OBVIOUS
    <3> QED
      BY <1>1, <2>2, <3>1, LoadsFacts
  <2> QED
    BY <2>1, <2>2
<1> HIDE DEF seen
<1>3. /\ q \in {[here EXCEPT !.pc = "read"],
                [here EXCEPT !.pc = "ready", !.ret = TRUE, !.loaded = seen],
                [here EXCEPT !.pc = "read", !.loaded = seen]}
      /\ proc' = [proc EXCEPT ![p] = q]
  BY DEF Start, seen, IInv, Typed
<1>4. /\ q \in Process /\ q.pc \in {"read", "ready"} /\ q.job = job /\ q.i = 1
  BY <1>2, <1>3, OffIsProcess, ZenonT(60) DEF Process, Off, Installing
<1>5. /\ \A r \in Proc \ {p} : proc[r].pc \notin Reverting
      /\ config.alone /\ q.pc = "read" => \A r \in Proc \ {p} : r \notin Busy
  <2>1. \A r \in Proc \ {p} : proc[r].pc \notin Reverting
    BY DEF Start, Busy, IInv, Typed, Reverting
  <2>2. ASSUME q.pc = "read" PROVE config.alone => Busy = {}
    <3>1. CASE job = "force" \/ ~(text[1] # NoFile /\ ProbedEdit \in text[1])
      BY <3>1 DEF Start
    <3>2. CASE job # "force" /\ text[1] # NoFile /\ ProbedEdit \in text[1]
      <4>1. q = [here EXCEPT !.pc = "ready", !.ret = TRUE, !.loaded = seen]
        BY <3>2 DEF Start, seen, IInv, Typed
      <4> QED
        BY <2>2, <4>1 DEF Off
    <3> QED
      BY <3>1, <3>2
  <2> QED
    BY <2>1, <2>2
<1>6. Installed(q, config, text, bak) /\ Reverted(q, config, text, bak)
  BY <1>4 DEF Installed, Reverted, Reverting
<1> HIDE DEF q
<1> QED
  BY <1>3, <1>4, <1>5, <1>6, QuietStep DEF Start, Installing, Reverting

(* An installer of a deployment that runs them one at a time is alone, and *)
(* no revert runs beside any installer.                                    *)
LEMMA InstallerAlone ==
    ASSUME IInv, NEW p \in Proc, proc[p].pc \in Installing
    PROVE  /\ \A r \in Proc \ {p} : proc[r].pc \notin Reverting
           /\ config.alone => \A r \in Proc \ {p} : r \notin Busy
BY DEF IInv, Alone, Busy, Installing

(* A file that is missing fails, one that is patched is passed over.       *)
LEMMA ReadStep == ASSUME IInv, NEW p \in Proc, Read(p) PROVE IInv'
<1> DEFINE q == proc[p]
           n == proc'[p]
<1>1. q \in Process /\ q.pc = "read" /\ q.i \in 1..4 /\ q.ok \in BOOLEAN /\ q.job # "revert"
  BY DEF Read, IInv, Typed, Process, Installing
<1>2. /\ \A r \in Proc \ {p} : proc[r].pc \notin Reverting
      /\ config.alone => \A r \in Proc \ {p} : r \notin Busy
  BY <1>1, InstallerAlone DEF Installing
<1>3. Installed(q, config, text, bak) /\ OnDisk(config, text, bak)
  BY DEF IInv
<1>4. CASE text[q.i] = NoFile
  <2>1. n = Next_(q, FALSE) /\ proc' = [proc EXCEPT ![p] = n]
    BY <1>4 DEF Read, IInv, Typed
  <2>2. n \in Process /\ n.job # "revert" /\ n.pc \in {"read", "ready"} /\ n.ok = FALSE
    <3>1. PICK no \in BOOLEAN : no = FALSE
      OBVIOUS
    <3>2. n = Next_(q, no)
      BY <2>1, <3>1, Zenon
    <3> HIDE DEF q, n
    <3>3. /\ n \in Process /\ n.job = q.job /\ n.ok = no
          /\ q.i < 4 => n.pc = "read"
          /\ q.i = 4 => n.pc = "ready"
      BY <1>1, <3>2, NextFacts
    <3> QED
      BY <1>1, <3>1, <3>3
  <2> HIDE DEF q, n
  <2>3. Installed(n, config, text, bak) /\ Reverted(n, config, text, bak)
    BY <2>2 DEF Installed, Reverted, Installing, Reverting
  <2>4. UNCHANGED <<config, text, bak>>
    BY DEF Read
  <2> QED
    BY <1>2, <2>1, <2>2, <2>3, <2>4, QuietStep DEF Reverting
<1>5. CASE text[q.i] # NoFile /\ Files[q.i].edits \subseteq text[q.i]
  <2>1. n = Next_(q, q.ok) /\ proc' = [proc EXCEPT ![p] = n]
    BY <1>5 DEF Read, IInv, Typed
  <2>2. /\ n \in Process /\ n.job # "revert" /\ n.ok = q.ok
        /\ n.pc = "ready" \/ (n.pc = "read" /\ n.i = q.i + 1)
    BY <1>1, <2>1, NextFacts DEF Process
  <2>3. text[q.i] = Takes(config, q.i)
    <3>1. q.i \notin config.absent /\ text[q.i] \subseteq Takes(config, q.i)
      BY <1>1, <1>3, <1>5 DEF OnDisk
    <3>2. Takes(config, q.i) \subseteq text[q.i]
      BY <1>1, <1>5, FilesFacts, ApplicableTakes
    <3> QED
      BY <3>1, <3>2
  <2>4. q.ok /\ n.pc = "read" => \A j \in 1..4 : j < n.i => text[j] = Takes(config, j)
    <3>1. SUFFICES ASSUME q.ok, n.i = q.i + 1, NEW j \in 1..4, j < n.i
                   PROVE  text[j] = Takes(config, j)
      BY <2>2
    <3>2. j < q.i \/ j = q.i
      BY <1>1, <3>1
    <3>3. j < q.i => text[j] = Takes(config, j)
      BY <1>1, <1>3, <3>1 DEF Installed, Installing
    <3> QED
      BY <2>3, <3>2, <3>3
  <2> HIDE DEF q, n
  <2>5. Installed(n, config, text, bak) /\ Reverted(n, config, text, bak)
    <3>1. CASE n.pc = "ready"
      BY <3>1 DEF Installed, Reverted, Installing, Reverting
    <3>2. CASE n.pc = "read"
      <4>1. n.ok => \A j \in 1..4 : j < n.i => text[j] = Takes(config, j)
        BY <2>2, <2>4, <3>2, ZenonT(40)
      <4> QED
        BY <3>2, <4>1 DEF Installed, Reverted, Installing, Reverting
    <3> QED
      BY <2>2, <3>1, <3>2
  <2>6. UNCHANGED <<config, text, bak>>
    BY DEF Read
  <2> QED
    BY <1>2, <2>1, <2>2, <2>5, <2>6, QuietStep DEF Reverting
<1>6. CASE text[q.i] # NoFile /\ ~(Files[q.i].edits \subseteq text[q.i])
  <2>1. n = [q EXCEPT !.pc = "backup", !.buf = text[q.i]] /\ proc' = [proc EXCEPT ![p] = n]
    BY <1>6 DEF Read, IInv, Typed
  <2>2. text[q.i] \in Texts
    BY <1>1, <1>6 DEF IInv, Typed
  <2>3. /\ n \in Process /\ n.job = q.job /\ n.i = q.i /\ n.ok = q.ok
        /\ n.pc = "backup" /\ n.buf = text[q.i]
    BY <1>1, <2>1, <2>2 DEF Process, Installing
  <2>4. Installed(n, config, text, bak) /\ Reverted(n, config, text, bak)
    BY <1>1, <1>3, <1>6, <2>3 DEF Installed, Reverted, Installing, Reverting, OnDisk
  <2> QED
    BY <1>1, <1>2, <2>1, <2>3, <2>4, QuietStep DEF Read, Reverting
<1> QED
  BY <1>4, <1>5, <1>6

(* backup() looks for a backup and decides whether to make one.            *)
LEMMA BackupStep == ASSUME IInv, NEW p \in Proc, Backup(p) PROVE IInv'
<1> DEFINE q == proc[p]
           n == [q EXCEPT !.pc = IF bak[q.i] = NoFile THEN "copy" ELSE "write"]
<1>1. q \in Process /\ q.pc = "backup" /\ q.i \in 1..4 /\ q.job # "revert"
  BY DEF Backup, IInv, Typed, Process, Installing
<1>2. /\ proc' = [proc EXCEPT ![p] = n] /\ UNCHANGED <<config, text, bak>>
      /\ n \in Process /\ n.job = q.job /\ n.i = q.i /\ n.ok = q.ok /\ n.buf = q.buf
      /\ n.pc = IF bak[q.i] = NoFile THEN "copy" ELSE "write"
  BY <1>1 DEF Backup, Process, Installing
<1>3. /\ \A r \in Proc \ {p} : proc[r].pc \notin Reverting
      /\ config.alone => \A r \in Proc \ {p} : r \notin Busy
  BY <1>1, InstallerAlone DEF Installing
<1>4. Installed(q, config, text, bak) /\ OnDisk(config, text, bak)
  BY DEF IInv
<1> HIDE DEF q, n
<1>5. Installed(n, config, text, bak) /\ Reverted(n, config, text, bak)
  BY <1>1, <1>2, <1>4 DEF Installed, Reverted, Installing, Reverting, OnDisk
<1> QED
  BY <1>1, <1>2, <1>3, <1>5, QuietStep DEF Reverting

(* The copy keeps the invariant.  Alone, the process finds the file as it  *)
(* was when it saw that there was no backup, which is stock; beside        *)
(* others it may copy what they have patched.                              *)
LEMMA CopyStep == ASSUME IInv, NEW p \in Proc, Copy(p) PROVE IInv'
<1> DEFINE q == proc[p]
           n == [q EXCEPT !.pc = "write"]
<1>1. q \in Process /\ q.pc = "copy" /\ q.i \in 1..4 /\ q.job # "revert"
  BY DEF Copy, IInv, Typed, Process, Installing
<1>2. /\ proc' = [proc EXCEPT ![p] = n]
      /\ n \in Process /\ n.pc = "write" /\ n.job = q.job /\ n.i = q.i /\ n.ok = q.ok
      /\ n.buf = q.buf
  BY <1>1 DEF Copy, Process, Installing
<1>3. /\ \A r \in Proc \ {p} : proc[r].pc \notin Reverting
      /\ config.alone => \A r \in Proc \ {p} : r \notin Busy
  BY <1>1, InstallerAlone DEF Installing
<1>4. Installed(q, config, text, bak) /\ OnDisk(config, text, bak)
  BY DEF IInv
<1>5. /\ bak \in [1..4 -> {NoFile} \cup Texts] /\ text \in [1..4 -> {NoFile} \cup Texts]
      /\ text' = text /\ config' = config
      /\ bak' = [bak EXCEPT ![q.i] = text[q.i]]
  BY DEF Copy, IInv, Typed
<1>6. bak' \in [1..4 -> {NoFile} \cup Texts] /\ bak'[q.i] = text[q.i]
  BY <1>1, <1>5
<1>7. q.i \notin config.absent /\ (config.alone => text[q.i] = {})
  BY <1>1, <1>4, FilesFacts DEF Installed, OnDisk
<1> HIDE DEF q, n
<1>8. OnDisk(config, text', bak')
  BY <1>1, <1>4, <1>5, <1>7 DEF OnDisk
<1>9. Installed(n, config, text', bak') /\ Reverted(n, config, text', bak')
  BY <1>1, <1>2, <1>4, <1>5, <1>6, <1>7 DEF Installed, Reverted, Installing, Reverting
<1>10. \A r \in Proc \ {p} : /\ Installed(proc[r], config, text', bak')
                              /\ Reverted(proc[r], config, text', bak')
  <2> SUFFICES ASSUME NEW r \in Proc \ {p}
               PROVE  /\ Installed(proc[r], config, text', bak')
                      /\ Reverted(proc[r], config, text', bak')
    OBVIOUS
  <2>1. Installed(proc[r], config, text, bak)
    BY DEF IInv
  <2>2. config.alone => proc[r].pc \notin {"copy", "write"}
    BY <1>3 DEF Busy
  <2> QED
    BY <1>3, <1>5, <2>1, <2>2 DEF Installed, Reverted, Reverting
<1> QED
  BY <1>1, <1>2, <1>3, <1>5, <1>6, <1>8, <1>9, <1>10, ProcessStep DEF Reverting

(* What a write leaves in its file: all the edits the release takes, and   *)
(* what was there only if that or a failure.                               *)
LEMMA WriteEffect ==
    ASSUME IInv, NEW p \in Proc, Write(p)
    PROVE  LET q == proc[p] IN
           \E ok \in BOOLEAN :
             /\ ok => q.ok /\ text'[q.i] = Takes(config, q.i)
             /\ proc' = [proc EXCEPT ![p] = Next_(q, ok)]
             /\ \/ text' = text
                \/ text' = [text EXCEPT ![q.i] = Takes(config, q.i)]
<1> DEFINE q == proc[p]
           new == q.buf \cup Applicable(q.i)
           failed == Files[q.i].miss = "fail" /\ new # Files[q.i].edits
           kept == failed \/ (Files[q.i].miss = "warn" /\ new = q.buf)
           ok == q.ok /\ ~failed
<1>1. q \in Process /\ q.pc = "write" /\ q.i \in 1..4 /\ q.ok \in BOOLEAN
  BY DEF Write, IInv, Typed, Process
<1>2. q.buf \subseteq text[q.i] /\ text[q.i] \subseteq Takes(config, q.i)
  <2>1. Installed(q, config, text, bak) /\ OnDisk(config, text, bak)
    BY DEF IInv
  <2> QED
    BY <1>1, <2>1 DEF Installed, OnDisk
<1>3. new = Takes(config, q.i)
  BY <1>1, <1>2, ApplicableTakes
<1>4. /\ text' = [text EXCEPT ![q.i] = IF kept THEN text[q.i] ELSE new]
      /\ proc' = [proc EXCEPT ![p] = Next_(q, ok)]
  BY DEF Write
<1>5. text \in [1..4 -> {NoFile} \cup Texts]
  BY DEF IInv, Typed
<1>6. ok \in BOOLEAN
  BY <1>1
<1> HIDE DEF new, failed
<1>7. text' = text \/ text' = [text EXCEPT ![q.i] = Takes(config, q.i)]
  <2>1. CASE kept
    BY <1>4, <1>5, <2>1
  <2>2. CASE ~kept
    BY <1>3, <1>4, <2>2
  <2> QED
    BY <2>1, <2>2
<1>8. ASSUME ok PROVE q.ok /\ text'[q.i] = Takes(config, q.i)
  <2>1. q.ok /\ ~failed
    BY <1>8
  <2>2. text'[q.i] = IF kept THEN text[q.i] ELSE new
    BY <1>1, <1>4, <1>5
  <2>3. CASE kept
    <3>1. q.buf = Takes(config, q.i)
      BY <1>3, <2>1, <2>3
    <3>2. text[q.i] = Takes(config, q.i)
      BY <1>2, <3>1
    <3> QED
      BY <2>1, <2>2, <2>3, <3>2
  <2>4. CASE ~kept
    BY <1>3, <2>1, <2>2, <2>4
  <2> QED
    BY <2>3, <2>4
<1> HIDE DEF ok
<1> QED
  BY <1>4, <1>6, <1>7, <1>8

(* Writing a patched file keeps it: the backup is already there.           *)
LEMMA WriteStep == ASSUME IInv, NEW p \in Proc, Write(p) PROVE IInv'
<1> DEFINE q == proc[p]
<1>1. /\ q \in Process /\ q.pc = "write" /\ q.i \in 1..4 /\ q.job # "revert"
      /\ config' = config /\ bak' = bak /\ bak \in [1..4 -> {NoFile} \cup Texts]
      /\ text \in [1..4 -> {NoFile} \cup Texts]
  BY DEF Write, IInv, Typed, Process, Installing
<1>2. /\ \A r \in Proc \ {p} : proc[r].pc \notin Reverting
      /\ config.alone => \A r \in Proc \ {p} : r \notin Busy
  BY <1>1, InstallerAlone DEF Installing
<1>3. /\ Installed(q, config, text, bak) /\ OnDisk(config, text, bak)
      /\ q.i \notin config.absent /\ (config.alone => bak[q.i] = {})
  BY <1>1 DEF IInv, Installed
<1>4. PICK ok \in BOOLEAN :
         /\ ok => q.ok /\ text'[q.i] = Takes(config, q.i)
         /\ proc' = [proc EXCEPT ![p] = Next_(q, ok)]
         /\ text' = text \/ text' = [text EXCEPT ![q.i] = Takes(config, q.i)]
  BY WriteEffect
<1> DEFINE n == Next_(q, ok)
<1>5. /\ n \in Process /\ n.job # "revert" /\ n.ok = ok
      /\ n.pc = "ready" \/ (n.pc = "read" /\ n.i = q.i + 1)
  <2> HIDE DEF q
  <2> QED
    BY <1>1, NextFacts
<1>6. text' \in [1..4 -> {NoFile} \cup Texts] /\ OnDisk(config, text', bak')
  <2>1. Takes(config, q.i) \in Texts
    BY <1>1, FilesFacts, ApplicableTakes
  <2> QED
    BY <1>1, <1>3, <1>4, <2>1 DEF OnDisk
<1>7. Installed(n, config, text', bak') /\ Reverted(n, config, text', bak')
  <2>1. ASSUME n.pc = "read", ok, NEW j \in 1..4, j < n.i PROVE text'[j] = Takes(config, j)
    <3>1. CASE j = q.i
      BY <1>4, <2>1, <3>1
    <3>2. CASE j < q.i
      <4>1. text[j] = Takes(config, j)
        BY <1>1, <1>3, <1>4, <2>1, <3>2 DEF Installed, Installing
      <4> QED
        BY <1>1, <1>4, <3>2, <4>1
    <3>3. n.i = q.i + 1
      BY <1>5, <2>1
    <3>4. j < q.i + 1
      BY <2>1, <3>3, Zenon
    <3> QED
      BY <1>1, <3>1, <3>2, <3>4
  <2> HIDE DEF n
  <2> QED
    BY <1>5, <2>1 DEF Installed, Reverted, Installing, Reverting
<1>8. \A r \in Proc \ {p} : /\ Installed(proc[r], config, text', bak')
                            /\ Reverted(proc[r], config, text', bak')
  <2> SUFFICES ASSUME NEW r \in Proc \ {p}
               PROVE  /\ Installed(proc[r], config, text', bak')
                      /\ Reverted(proc[r], config, text', bak')
    OBVIOUS
  <2>1. Installed(proc[r], config, text, bak) /\ proc[r].i \in 1..4
    BY DEF IInv, Typed, Process
  <2>2. \A j \in 1..4 : j \notin config.absent => text[j] \subseteq text'[j]
    BY <1>1, <1>3, <1>4 DEF OnDisk
  <2>3. \A j \in 1..4 : text[j] = Takes(config, j) => text'[j] = Takes(config, j)
    BY <1>1, <1>4
  <2> QED
    BY <1>1, <1>2, <2>1, <2>2, <2>3 DEF Installed, Reverted, Reverting
<1> HIDE DEF q, n
<1> QED
  BY <1>1, <1>2, <1>4, <1>5, <1>6, <1>7, <1>8, ProcessStep DEF n, Reverting

(* Importing more of the engine keeps it.                                  *)
LEMMA LoadStep == ASSUME IInv, NEW p \in Proc, Load(p) PROVE IInv'
<1> DEFINE q == proc[p]
<1>1. q \in Process /\ q.pc = "ready"
  BY DEF Load, IInv, Typed
<1> DEFINE R == Present \ DOMAIN q.loaded
           l == [i \in R \cup DOMAIN q.loaded |-> IF i \in R THEN text[i] ELSE q.loaded[i]]
           n == [q EXCEPT !.loaded = l]
<1>2. proc' = [proc EXCEPT ![p].loaded = l]
  BY DEF Load
<1>3. l \in Loads
  <2> DEFINE g == [i \in R |-> text[i]]
  <2>1. R \in SUBSET (1..4) /\ g \in [R -> Texts]
    BY DEF Present, IInv, Typed
  <2>2. q.loaded \in Loads
    BY <1>1 DEF Process
  <2>3. [j \in R \cup DOMAIN q.loaded |-> IF j \in R THEN g[j] ELSE q.loaded[j]] \in Loads
    <3> HIDE DEF g, R, q
    <3> QED
      BY <2>1, <2>2, LoadsFacts, Zenon
  <2>4. l = [j \in R \cup DOMAIN q.loaded |-> IF j \in R THEN g[j] ELSE q.loaded[j]]
    <3> HIDE DEF R
    <3> QED
      OBVIOUS
  <2> QED
    BY <2>3, <2>4, Zenon
<1>4. proc' = [proc EXCEPT ![p] = n]
  BY <1>2
<1> HIDE DEF l
<1>5. n \in Process /\ n.pc = "ready"
  BY <1>1, <1>3 DEF Process
<1> HIDE DEF n
<1>6. Installed(n, config, text, bak) /\ Reverted(n, config, text, bak)
  BY <1>5 DEF Installed, Reverted, Installing, Reverting
<1> QED
  BY <1>4, <1>5, <1>6, QuietStep DEF Load, Installing, Reverting

(* Starting a revert keeps it, when no other process is busy.              *)
LEMMA StartRevertStep == ASSUME RevertAlone, IInv, NEW p \in Proc, StartRevert(p) PROVE IInv'
<1> DEFINE n == [Off EXCEPT !.pc = "restore", !.job = "revert"]
<1>1. n \in Process /\ n.pc = "restore" /\ n.job = "revert" /\ n.i = 1
  BY OffIsProcess DEF Off, Process, Reverting
<1>2. /\ proc' = [proc EXCEPT ![p] = n] /\ UNCHANGED <<config, text, bak>>
      /\ \A r \in Proc \ {p} : r \notin Busy
  BY DEF StartRevert
<1> HIDE DEF n
<1>3. Installed(n, config, text, bak) /\ Reverted(n, config, text, bak)
  BY <1>1 DEF Installed, Reverted, Installing, Reverting
<1> QED
  BY <1>1, <1>2, <1>3, QuietStep DEF Installing

(* A death at any point keeps it: the files stay as they are.              *)
LEMMA CrashStep == ASSUME IInv, NEW p \in Proc, Crash(p) PROVE IInv'
<1>1. Installed(Off, config, text, bak) /\ Reverted(Off, config, text, bak)
  BY OffIsProcess DEF Installed, Reverted, Installing, Reverting
<1> QED
  BY <1>1, OffIsProcess, QuietStep DEF Crash, Installing, Reverting

(* While a revert runs the others neither install nor revert, and nothing  *)
(* is asked of the files on their account.                                 *)
LEMMA OthersIdle ==
    ASSUME IInv, NEW p \in Proc, proc[p].pc \in Reverting, NEW t, NEW b
    PROVE  /\ \A r \in Proc \ {p} : r \notin Busy /\ proc[r].pc \notin Reverting
           /\ \A r \in Proc \ {p} : /\ Installed(proc[r], config, t, b)
                                    /\ Reverted(proc[r], config, t, b)
<1>1. \A r \in Proc \ {p} : r \notin Busy
  BY DEF IInv, Alone
<1>2. \A r \in Proc \ {p} : proc[r].pc \in {"off", "ready", "reverted"}
  BY <1>1 DEF Busy
<1> QED
  BY <1>1, <1>2 DEF Installed, Reverted, Installing, Reverting

(* Copying a backup back keeps it.                                         *)
LEMMA RestoreStep == ASSUME IInv, NEW p \in Proc, Restore(p) PROVE IInv'
<1> DEFINE q == proc[p]
<1>1. /\ q \in Process /\ q.pc = "restore" /\ q.i \in 1..4 /\ q.job = "revert"
      /\ config' = config /\ bak' = bak /\ bak \in [1..4 -> {NoFile} \cup Texts]
      /\ text \in [1..4 -> {NoFile} \cup Texts]
  BY DEF Restore, IInv, Typed, Process, Reverting
<1>2. /\ \A r \in Proc \ {p} : r \notin Busy /\ proc[r].pc \notin Reverting
      /\ \A r \in Proc \ {p} : /\ Installed(proc[r], config, text', bak')
                               /\ Reverted(proc[r], config, text', bak')
  BY <1>1, OthersIdle DEF Reverting
<1>3. Reverted(q, config, text, bak) /\ OnDisk(config, text, bak)
  BY DEF IInv
<1>4. CASE bak[q.i] = NoFile
  <2> DEFINE n == NextRestore(q)
  <2>1. proc' = [proc EXCEPT ![p] = n] /\ text' = text
    BY <1>4 DEF Restore
  <2>2. /\ n \in Process /\ n.job = "revert"
        /\ n.pc = "reverted" \/ (n.pc = "restore" /\ n.i = q.i + 1)
    BY <1>1, NextRestoreFacts
  <2> HIDE DEF n
  <2>3. q.i \notin config.absent => (config.alone => text[q.i] = {})
    BY <1>1, <1>3, <1>4, FilesFacts DEF OnDisk
  <2>4. Installed(n, config, text, bak) /\ Reverted(n, config, text, bak)
    BY <1>1, <1>3, <1>4, <2>2, <2>3 DEF Installed, Reverted, Installing, Reverting
  <2> HIDE DEF q
  <2> QED
    BY <1>1, <1>2, <2>1, <2>2, <2>4, QuietStep DEF Installing
<1>5. CASE bak[q.i] # NoFile
  <2> DEFINE n == [q EXCEPT !.pc = "unlink"]
  <2>1. proc' = [proc EXCEPT ![p] = n] /\ text' = [text EXCEPT ![q.i] = bak[q.i]]
    BY <1>1, <1>5 DEF Restore
  <2>2. n \in Process /\ n.job = "revert" /\ n.pc = "unlink" /\ n.i = q.i
    BY <1>1 DEF Process, Reverting
  <2> HIDE DEF n
  <2>3. q.i \notin config.absent
    BY <1>1, <1>3, <1>5 DEF OnDisk
  <2>4. text'[q.i] = bak[q.i] /\ (config.alone => bak[q.i] = {})
    BY <1>1, <1>3, <1>5, <2>1, <2>3 DEF OnDisk
  <2>5. text' \in [1..4 -> {NoFile} \cup Texts] /\ OnDisk(config, text', bak')
    <3>1. text' \in [1..4 -> {NoFile} \cup Texts]
      BY <1>1, <2>1
    <3>2. bak[q.i] \subseteq Takes(config, q.i)
      BY <1>1, <1>3, <1>5, <2>3 DEF OnDisk
    <3> QED
      BY <1>1, <1>3, <1>5, <2>1, <2>3, <2>4, <3>1, <3>2 DEF OnDisk
  <2>6. Installed(n, config, text', bak') /\ Reverted(n, config, text', bak')
    BY <1>1, <1>3, <2>1, <2>2, <2>3, <2>4 DEF Installed, Reverted, Installing, Reverting
  <2> HIDE DEF q
  <2> QED
    BY <1>1, <1>2, <2>1, <2>2, <2>5, <2>6, ProcessStep DEF Installing
<1> QED
  BY <1>4, <1>5

(* Removing a backup keeps it: its text has been restored.                 *)
LEMMA UnlinkStep == ASSUME IInv, NEW p \in Proc, Unlink(p) PROVE IInv'
<1> DEFINE q == proc[p]
           n == IF bak[q.i] = NoFile THEN Off ELSE NextRestore(q)
<1>1. /\ q \in Process /\ q.pc = "unlink" /\ q.i \in 1..4 /\ q.job = "revert"
      /\ config' = config /\ text' = text /\ bak \in [1..4 -> {NoFile} \cup Texts]
      /\ text \in [1..4 -> {NoFile} \cup Texts]
      /\ bak' = [bak EXCEPT ![q.i] = NoFile] /\ proc' = [proc EXCEPT ![p] = n]
  BY DEF Unlink, IInv, Typed, Process, Reverting
<1>2. /\ \A r \in Proc \ {p} : r \notin Busy /\ proc[r].pc \notin Reverting
      /\ \A r \in Proc \ {p} : /\ Installed(proc[r], config, text', bak')
                               /\ Reverted(proc[r], config, text', bak')
  BY <1>1, OthersIdle DEF Reverting
<1>3. Reverted(q, config, text, bak) /\ OnDisk(config, text, bak) /\ (config.alone => text[q.i] = {})
  BY <1>1 DEF IInv, Reverted
<1>4. /\ n \in Process /\ (n.job = "revert" \/ n.pc = "off")
      /\ \/ n.pc = "off" /\ n.job = "none"
         \/ n.pc = "reverted"
         \/ n.pc = "restore" /\ n.i = q.i + 1
  BY <1>1, NextRestoreFacts, OffIsProcess
<1>5. bak' \in [1..4 -> {NoFile} \cup Texts] /\ OnDisk(config, text', bak')
  BY <1>1, <1>3 DEF OnDisk
<1> HIDE DEF n
<1>6. Installed(n, config, text', bak') /\ Reverted(n, config, text', bak')
  BY <1>1, <1>3, <1>4 DEF Installed, Reverted, Installing, Reverting
<1> HIDE DEF q
<1> QED
  BY <1>1, <1>2, <1>4, <1>5, <1>6, ProcessStep DEF Installing, Reverting

(* A reinstallation of the engine keeps it.                                *)
LEMMA ReinstallStep == ASSUME IInv, Reinstall PROVE IInv'
<1>1. \A p \in Proc : proc[p].pc \in {"off", "ready", "reverted"}
  BY DEF Reinstall, Busy
<1>2. text' \in [1..4 -> {NoFile} \cup Texts] /\ OnDisk(config, text', bak)
  BY FilesFacts DEF Reinstall, IInv, OnDisk
<1>3. UNCHANGED <<config, bak, proc>>
  BY DEF Reinstall
<1>4. Typed' /\ Alone'
  BY <1>1, <1>2, <1>3 DEF IInv, Typed, Alone, Busy
<1>5. \A p \in Proc : Installed(proc[p], config, text', bak) /\ Reverted(proc[p], config, text', bak)
  BY <1>1 DEF Installed, Reverted, Installing, Reverting
<1> QED
  BY <1>2, <1>3, <1>4, <1>5 DEF IInv

(* A fresh installation satisfies the invariant.                           *)
LEMMA InitInv == ASSUME Init PROVE IInv
<1>1. text \in [1..4 -> {NoFile} \cup Texts] /\ OnDisk(config, text, bak)
  BY FilesFacts DEF Init, OnDisk
<1>2. \A p \in Proc : proc[p] = Off
  BY DEF Init
<1>3. Typed /\ Alone
  <2>1. Typed
    BY <1>1, <1>2, OffIsProcess DEF Init, Typed, Installing, Reverting
  <2>2. Busy = {}
    BY <1>2, OffIsProcess DEF Busy
  <2>3. \A p \in Proc : proc[p].pc \notin Reverting
    BY <1>2, OffIsProcess DEF Reverting
  <2> QED
    BY <2>1, <2>2, <2>3 DEF Alone
<1>4. \A p \in Proc : Installed(proc[p], config, text, bak) /\ Reverted(proc[p], config, text, bak)
  BY <1>2, OffIsProcess DEF Installed, Reverted, Installing, Reverting
<1> QED
  BY <1>1, <1>3, <1>4 DEF IInv

(* Every step keeps it.                                                    *)
LEMMA NextInv == ASSUME RevertAlone, IInv, [Next]_vars PROVE IInv'
<1>1. ASSUME UNCHANGED vars PROVE IInv'
  BY <1>1 DEF vars, IInv, Typed, Alone, Busy
<1>2. ASSUME NEW p \in Proc,
             \/ \E job \in {"import", "force"} : Start(p, job)
             \/ Read(p) \/ Backup(p) \/ Copy(p) \/ Write(p) \/ Load(p)
             \/ StartRevert(p) \/ Restore(p) \/ Unlink(p) \/ Crash(p)
      PROVE  IInv'
  BY <1>2, StartStep, ReadStep, BackupStep, CopyStep, WriteStep, LoadStep, StartRevertStep,
     RestoreStep, UnlinkStep, CrashStep
<1> QED
  BY <1>1, <1>2, ReinstallStep DEF Next

(* The inductive invariant holds of every behaviour in which reverts run   *)
(* alone: what backup() and revert_* of _patcher.py keep true together.    *)
THEOREM Invariant == ASSUME RevertAlone PROVE Spec => []IInv
<1>1. Init => IInv
  BY InitInv
<1>2. IInv /\ [Next]_vars => IInv'
  BY NextInv
<1> QED
  BY <1>1, <1>2, PTL DEF Spec

(* Where installers run one at a time, backup() and revert() never lose a  *)
(* stock text, whatever installations, deaths between any two file         *)
(* operations, reverts and reinstallations there were, for any processes   *)
(* and any release.  Beside another installer backup() can lose it.        *)
THEOREM PatcherRecoverable == ASSUME RevertAlone PROVE Spec => []Recoverable
<1>1. ASSUME IInv PROVE Recoverable
  <2>1. TypeOK
    <3>1. ASSUME NEW i \in Present PROVE text[i] \subseteq Files[i].edits
      BY <1>1, FilesFacts, ApplicableTakes DEF IInv, Typed, OnDisk, Present
    <3>2. ASSUME NEW i \in 1..4, bak[i] # NoFile PROVE bak[i] \subseteq Files[i].edits
      <4>1. i \notin config.absent /\ bak[i] \subseteq Takes(config, i)
        BY <1>1, <3>2 DEF IInv, OnDisk
      <4> QED
        BY <4>1, FilesFacts, ApplicableTakes
    <3>3. ASSUME NEW p \in Proc PROVE proc[p].i \in 1..Len(Files)
      BY <1>1, FilesFacts DEF IInv, Typed, Process
    <3>4. config \in Configs
      BY <1>1 DEF IInv, Typed
    <3> QED
      BY <3>1, <3>2, <3>3, <3>4 DEF TypeOK
  <2> QED
    BY <1>1, <2>1 DEF Recoverable, IInv, OnDisk, Present
<1> QED
  BY <1>1, Invariant, PTL

-----------------------------------------------------------------------------
(* Only a process's own step moves it.                                     *)
LEMMA OwnStep ==
    ASSUME IInv, Next, NEW p \in Proc, proc'[p] # proc[p]
    PROVE  \/ \E job \in {"import", "force"} : Start(p, job)
           \/ Read(p) \/ Backup(p) \/ Copy(p) \/ Write(p) \/ Load(p)
           \/ StartRevert(p) \/ Restore(p) \/ Unlink(p) \/ Crash(p)
<1>1. ASSUME NEW r \in Proc, r # p, NEW n, proc' = [proc EXCEPT ![r] = n] PROVE FALSE
  BY <1>1 DEF IInv, Typed
<1>2. ASSUME NEW r \in Proc, r # p,
             \/ \E job \in {"import", "force"} : Start(r, job)
             \/ Read(r) \/ Backup(r) \/ Copy(r) \/ Write(r) \/ Load(r)
             \/ StartRevert(r) \/ Restore(r) \/ Unlink(r) \/ Crash(r)
      PROVE  FALSE
  <2>1. CASE \E job \in {"import", "force"} : Start(r, job)
    BY <1>1, <1>2, <2>1 DEF Start
  <2>2. CASE Read(r)
    BY <1>1, <1>2, <2>2 DEF Read
  <2>3. CASE Backup(r)
    BY <1>1, <1>2, <2>3 DEF Backup
  <2>4. CASE Write(r)
    BY <1>1, <1>2, <2>4 DEF Write
  <2>5. CASE Copy(r)
    BY <1>1, <1>2, <2>5 DEF Copy
  <2>6. CASE Load(r)
    BY <1>1, <1>2, <2>6 DEF Load
  <2>7. CASE StartRevert(r)
    BY <1>1, <1>2, <2>7 DEF StartRevert
  <2>8. CASE Restore(r)
    BY <1>1, <1>2, <2>8 DEF Restore
  <2>9. CASE Unlink(r)
    BY <1>1, <1>2, <2>9 DEF Unlink
  <2>10. CASE Crash(r)
    BY <1>1, <1>2, <2>10 DEF Crash
  <2> QED
    BY <1>2, <2>1, <2>2, <2>3, <2>4, <2>6, <2>7, <2>8, <2>9, <2>10, <2>5
<1> QED
  BY <1>2 DEF Next, Reinstall

(* The steps that end a revert, and the pcs the others lead to.            *)
LEMMA PcAfter ==
    ASSUME IInv, NEW p \in Proc
    PROVE  /\ \A job \in {"import", "force"} : Start(p, job) => proc'[p].pc \in {"read", "ready"}
           /\ Read(p) => proc'[p].pc \in {"read", "ready", "backup"}
           /\ Backup(p) => proc'[p].pc \in {"copy", "write"}
           /\ Copy(p) => proc'[p].pc = "write"
           /\ Write(p) => proc'[p].pc \in {"read", "ready"}
           /\ Load(p) => proc[p].pc = "ready" /\ proc'[p].pc = "ready"
           /\ StartRevert(p) => proc'[p].pc = "restore"
           /\ Restore(p) => proc'[p].pc \in {"restore", "unlink", "reverted"}
           /\ Unlink(p) => proc'[p].pc \in {"off", "restore", "reverted"}
           /\ Crash(p) => proc'[p].pc = "off"
<1> DEFINE q == proc[p]
<1>1. q \in Process /\ proc \in [Proc -> Process] /\ q.i \in 1..4 /\ q.ok \in BOOLEAN
  BY DEF IInv, Typed, Process
<1>2. ASSUME NEW ok \in BOOLEAN PROVE Next_(q, ok).pc \in {"read", "ready"}
  BY <1>1, NextFacts
<1>3. NextRestore(q).pc \in {"restore", "reverted"}
  BY <1>1, NextRestoreFacts
<1>4. ASSUME NEW job \in {"import", "force"}, Start(p, job) PROVE proc'[p].pc \in {"read", "ready"}
  BY <1>1, <1>4, OffIsProcess DEF Start, Off
<1>5. ASSUME Read(p) PROVE proc'[p].pc \in {"read", "ready", "backup"}
  <2>1. PICK no \in BOOLEAN : no = FALSE
    OBVIOUS
  <2>2. proc'[p] \in {Next_(q, no), Next_(q, q.ok), [q EXCEPT !.pc = "backup", !.buf = text[q.i]]}
    BY <1>1, <1>5, <2>1 DEF Read
  <2>3. [q EXCEPT !.pc = "backup", !.buf = text[q.i]].pc = "backup"
    BY <1>1 DEF Process
  <2> QED
    BY <1>1, <1>2, <2>2, <2>3
<1>6. ASSUME Backup(p) PROVE proc'[p].pc \in {"copy", "write"}
  BY <1>1, <1>6 DEF Backup, Process
<1>7. ASSUME Copy(p) PROVE proc'[p].pc = "write"
  BY <1>1, <1>7 DEF Copy, Process
<1>8. ASSUME Write(p) PROVE proc'[p].pc \in {"read", "ready"}
  <2>1. PICK ok \in BOOLEAN : proc' = [proc EXCEPT ![p] = Next_(q, ok)]
    BY <1>8, WriteEffect
  <2> QED
    BY <1>1, <1>2, <2>1
<1>9. ASSUME Load(p) PROVE q.pc = "ready" /\ proc'[p].pc = "ready"
  BY <1>1, <1>9 DEF Load, Process
<1>10. ASSUME StartRevert(p) PROVE proc'[p].pc = "restore"
  BY <1>1, <1>10 DEF StartRevert, Off
<1>11. ASSUME Restore(p) PROVE proc'[p].pc \in {"restore", "unlink", "reverted"}
  <2>1. proc'[p] \in {NextRestore(q), [q EXCEPT !.pc = "unlink"]}
    BY <1>1, <1>11 DEF Restore
  <2> QED
    BY <1>1, <1>3, <2>1 DEF Process
<1>12. ASSUME Unlink(p) PROVE proc'[p].pc \in {"off", "restore", "reverted"}
  <2>1. proc'[p] \in {NextRestore(q), Off}
    BY <1>1, <1>12 DEF Unlink
  <2> QED
    BY <1>3, <2>1, OffIsProcess
<1>13. ASSUME Crash(p) PROVE proc'[p].pc = "off"
  BY <1>1, <1>13, OffIsProcess DEF Crash
<1> QED
  BY <1>4, <1>5, <1>6, <1>8, <1>9, <1>10, <1>11, <1>12, <1>13, <1>7

(* After a revert the files of the release are stock and have no backup.   *)
LEMMA RevertEnds ==
    ASSUME IInv, Next, config.alone, NEW p \in Proc, proc[p].pc # "reverted", proc'[p].pc = "reverted",
           NEW i \in Present
    PROVE  text'[i] = {} /\ bak'[i] = NoFile
<1> DEFINE q == proc[p]
<1>1. Restore(p) \/ Unlink(p)
  BY OwnStep, PcAfter
<1>2. /\ q \in Process /\ q.i \in 1..4 /\ proc \in [Proc -> Process]
      /\ bak \in [1..4 -> {NoFile} \cup Texts] /\ text \in [1..4 -> {NoFile} \cup Texts]
  BY DEF IInv, Typed, Process
<1>3. i \in 1..4 /\ i \notin config.absent
  BY DEF Present, IInv, OnDisk
<1>4. Reverted(q, config, text, bak) /\ OnDisk(config, text, bak)
  BY DEF IInv
<1>5. CASE Restore(p)
  <2>1. q.pc = "restore" /\ bak' = bak
    BY <1>5 DEF Restore
  <2>2. bak[q.i] = NoFile /\ text' = text /\ proc'[p] = NextRestore(q)
    <3>1. [q EXCEPT !.pc = "unlink"].pc = "unlink"
      BY <1>2 DEF Process
    <3> QED
      BY <1>2, <1>5, <3>1 DEF Restore
  <2>3. q.i = 4
    BY <1>2, <2>2, NextRestoreFacts
  <2> QED
    BY <1>2, <1>3, <1>4, <2>1, <2>2, <2>3, FilesFacts DEF Reverted, Reverting, OnDisk
<1>6. CASE Unlink(p)
  <2>1. q.pc = "unlink" /\ text' = text /\ bak' = [bak EXCEPT ![q.i] = NoFile]
    BY <1>6 DEF Unlink
  <2>2. proc'[p] = NextRestore(q)
    BY <1>2, <1>6, OffIsProcess DEF Unlink
  <2>3. q.i = 4
    BY <1>2, <2>2, NextRestoreFacts
  <2> QED
    BY <1>2, <1>3, <1>4, <2>1, <2>3 DEF Reverted, Reverting
<1> QED
  BY <1>1, <1>5, <1>6

(* Where installers run one at a time, a revert_* of _patcher.py that runs *)
(* to its end restores the installation, for any processes and any         *)
(* release, after any installations that died half-way.                    *)
THEOREM PatcherRevertRestores == ASSUME RevertAlone PROVE Spec => RevertRestores
<1>1. IInv /\ [Next]_vars =>
         [config.alone =>
            \A p \in Proc : proc[p].pc # "reverted" /\ proc'[p].pc = "reverted" =>
              \A i \in Present : text'[i] = {} /\ bak'[i] = NoFile]_vars
  BY RevertEnds
<1> QED
  BY <1>1, Invariant, PTL DEF Spec, RevertRestores

(* After a forced installation that succeeded every file has all the edits *)
(* its release takes.                                                      *)
LEMMA InstallEnds ==
    ASSUME IInv, Next, NEW p \in Proc,
           proc[p].job = "force", proc[p].pc # "ready", proc'[p].pc = "ready", proc'[p].ret,
           NEW i \in 1..4
    PROVE  text'[i] = Takes(config, i)
<1> DEFINE q == proc[p]
<1>1. /\ q \in Process /\ q.i \in 1..4 /\ proc \in [Proc -> Process] /\ q.ok \in BOOLEAN
      /\ text \in [1..4 -> {NoFile} \cup Texts] /\ q.pc # "off"
  BY DEF IInv, Typed, Process
<1>2. Read(p) \/ Write(p)
  BY <1>1, OwnStep, PcAfter DEF Start
<1>3. Installed(q, config, text, bak) /\ OnDisk(config, text, bak)
  BY DEF IInv
<1>4. CASE Read(p)
  <2>1. q.pc = "read" /\ text' = text
    BY <1>4 DEF Read
  <2>2. text[q.i] # NoFile
    <3>1. SUFFICES ASSUME text[q.i] = NoFile PROVE FALSE
      OBVIOUS
    <3>2. PICK no \in BOOLEAN : no = FALSE
      OBVIOUS
    <3>3. proc'[p] = Next_(q, no)
      BY <1>1, <1>4, <3>1, <3>2 DEF Read
    <3>4. q.i = 4
      BY <1>1, <3>3, NextFacts
    <3>5. Next_(q, no).ret = no
      BY <1>1, <3>4, NextFacts
    <3> QED
      BY <3>2, <3>3, <3>5
  <2>3. Files[q.i].edits \subseteq text[q.i] /\ proc'[p] = Next_(q, q.ok)
    <3>1. [q EXCEPT !.pc = "backup", !.buf = text[q.i]].pc = "backup"
      BY <1>1 DEF Process
    <3> QED
      BY <1>1, <1>4, <2>2, <3>1 DEF Read
  <2>4. q.i = 4 /\ q.ok
    BY <1>1, <2>3, NextFacts
  <2>5. text[q.i] = Takes(config, q.i)
    <3>1. text[q.i] \subseteq Takes(config, q.i)
      BY <1>1, <1>3, <2>2 DEF OnDisk
    <3>2. Takes(config, q.i) \subseteq text[q.i]
      BY <1>1, <2>3, FilesFacts, ApplicableTakes
    <3> QED
      BY <3>1, <3>2
  <2> QED
    BY <1>3, <2>1, <2>4, <2>5 DEF Installed, Installing
<1>5. CASE Write(p)
  <2>1. PICK ok \in BOOLEAN :
           /\ ok => q.ok /\ text'[q.i] = Takes(config, q.i)
           /\ proc' = [proc EXCEPT ![p] = Next_(q, ok)]
           /\ text' = text \/ text' = [text EXCEPT ![q.i] = Takes(config, q.i)]
    BY <1>5, WriteEffect
  <2>2. q.i = 4 /\ ok
    BY <1>1, <2>1, NextFacts
  <2>3. q.ok /\ text'[4] = Takes(config, 4) /\ q.pc = "write"
    BY <1>5, <2>1, <2>2 DEF Write
  <2>4. \A j \in 1..4 : j < 4 => text[j] = Takes(config, j)
    BY <1>3, <2>2, <2>3 DEF Installed, Installing
  <2> QED
    BY <1>1, <2>1, <2>2, <2>3, <2>4
<1> QED
  BY <1>2, <1>4, <1>5

(* A forced patch_* of _patcher.py that reports success is complete, for   *)
(* any processes and any release, over whatever dead installers left and   *)
(* whichever installers run beside it.                                     *)
THEOREM PatcherInstallComplete == ASSUME RevertAlone PROVE Spec => InstallComplete
<1>1. IInv /\ [Next]_vars =>
         [\A p \in Proc :
            /\ proc[p].job = "force" /\ proc[p].pc # "ready" /\ proc'[p].pc = "ready"
            /\ proc'[p].ret
            => \A i \in 1..Len(Files) : text'[i] = Applicable(i)]_vars
  BY InstallEnds, ApplicableTakes, FilesFacts
<1> QED
  BY <1>1, Invariant, PTL DEF Spec, InstallComplete
=============================================================================
