---------------------------- MODULE HarnessHooks ----------------------------
(***************************************************************************)
(* `loci hook install` and `loci hook uninstall` (also run by `loci init`):*)
(* hooks.py and adapters/harness. claude, codex and grok share a JSON file *)
(* with the user and with the harness, which write it whenever they like;  *)
(* omp-pi and opencode get a file of their own. No process locks anything: *)
(* each one reads the file, computes the new one and replaces it, with a   *)
(* backup in between, and may be killed before any step.                   *)
(***************************************************************************)
EXTENDS Naturals, FiniteSets, Sequences

CONSTANTS
    Procs,        \* `loci hook` processes, each run once
    Harnesses,    \* the harnesses whose file is worked on, one in a behaviour
    Found,        \* the sets of hooks the file is found with
    Generations,  \* _MAX_BACKUP_GENERATIONS
    MaxEdits,     \* bound: saves by the user or the harness
    MaxCrashes    \* bound: processes killed

ASSUME HarnessHooksAssumption ==
    /\ Harnesses \subseteq {"claude", "codex", "grok", "omp-pi", "opencode"}
    /\ Generations \in Nat \ {0}
    /\ MaxEdits \in Nat /\ MaxCrashes \in Nat

VARIABLES
    harness,   \* whose file this is
    file,      \* the settings file, or the dedicated one
    bak,       \* settings.json.bak
    archives,  \* settings.json.bak.<time>, oldest first
    pc, op,    \* where each process stands, what it was asked to do
    seen,      \* what it read
    edits, crashes,
    last,      \* history: who wrote the file last, and how
    fresh      \* history: the processes that read the file after that

vars == <<harness, file, bak, archives, pc, op, seen, edits, crashes, last, fresh>>

-----------------------------------------------------------------------------
(* Hooks. A command is the one this installation would write ("ours"), a   *)
(* loci command of another virtualenv, limit or async flag ("stale"), a    *)
(* user's that merely contains the words ("lookalike") or any other.       *)

Actions == {"index", "server", "distill", "prime"}

Hook == [event   : {"Stop", "SessionStart", "SessionEnd", "PostCompact"},
         matcher : {"none", "canonical", "custom"},
         action  : Actions \cup {"none"},
         command : {"ours", "stale", "lookalike", "users"}]

ASSUME FoundAssumption == Found \subseteq SUBSET Hook

Ours(event, matcher, action) ==
    [event |-> event, matcher |-> matcher, action |-> action, command |-> "ours"]

\* lifecycle_commands, and what the harness class registers for each event.
Wanted(h) ==
    LET start == IF h = "grok" THEN "none" ELSE "canonical"
    IN  {Ours("Stop", "none", "index")}
        \cup {Ours("SessionStart", start, a) : a \in {"server", "distill", "prime"}}
        \cup (IF h = "grok" THEN {Ours("PostCompact", "none", "prime")} ELSE {})

\* Fault: the substring test of before issue 28.
OwnedByLociSubstring(k) == k.command # "users"

\* _command_owned_by_loci: bin/loci in the executable's place, and an action.
OwnedByLoci(k) == k.command \in {"ours", "stale"}

\* _is_managed_command, of the merged writer: two substrings.
IsManaged(k) == k.command # "users" /\ k.action \in Actions

\* _install_stop_hook: repair what is there, wherever it is.
StopInstalled(H) ==
    LET old == {k \in H : k.event = "Stop" /\ OwnedByLoci(k) /\ k.action = "index"}
    IN  (H \ old) \cup (IF old = {} THEN {Ours("Stop", "none", "index")}
                        ELSE {[k EXCEPT !.command = "ours"] : k \in old})

\* Fault: only the canonical matcher is searched.
OldStartsCanonical(H, a) ==
    {k \in H : k.event = "SessionStart" /\ OwnedByLoci(k) /\ k.action = a
                                        /\ k.matcher = "canonical"}

\* _find_hook_by_action: whatever the matcher.
OldStarts(H, a) ==
    {k \in H : k.event = "SessionStart" /\ OwnedByLoci(k) /\ k.action = a}

\* One round of _install_session_start_hooks: the first one found is repaired.
StartInstalled(H, a) ==
    LET old == OldStarts(H, a)
    IN  IF old = {} THEN H \cup {Ours("SessionStart", "canonical", a)}
        ELSE LET k == CHOOSE x \in old : TRUE
             IN  (H \ {k}) \cup {[k EXCEPT !.command = "ours"]}

\* _cleanup_legacy_session_end: the whole entry goes, a user's hooks with it.
LegacyEnd(H) ==
    {k \in H : /\ k.event = "SessionEnd"
               /\ \E x \in H : /\ x.event = "SessionEnd" /\ x.matcher = k.matcher
                               /\ OwnedByLoci(x) /\ x.action = "distill"}

ClaudeInstalled(H) ==
    LET H1 == StartInstalled(StartInstalled(StartInstalled(
                  StopInstalled(H), "server"), "distill"), "prime")
    IN  H1 \ LegacyEnd(H1)

\* MergedJsonHookWriter.install: a command is there only if it is the same.
MergedInstalled(H, h) ==
    H \cup {w \in Wanted(h) :
              ~\E k \in H : k.event = w.event /\ k.action = w.action /\ k.command = "ours"}

Installed(H, h) == IF h = "claude" THEN ClaudeInstalled(H) ELSE MergedInstalled(H, h)

Uninstalled(H, h) ==
    IF h = "claude"
    THEN {k \in H : ~(OwnedByLoci(k) /\ k.event \in {"Stop", "SessionStart", "SessionEnd"})}
    ELSE {k \in H : ~(IsManaged(k) /\ k.event \in {w.event : w \in Wanted(h)})}

Result(H, h, o) == IF o = "install" THEN Installed(H, h) ELSE Uninstalled(H, h)

\* The hooks a write may drop though they are not loci's: the code's own choice.
Sacrificed(H, h) ==
    IF h = "claude" THEN LegacyEnd(H) ELSE {k \in H : k.command = "lookalike"}

-----------------------------------------------------------------------------
(* Files. A JSON file holds a set of hooks; a dedicated one is ours of this*)
(* version or of another, or a file without the marker. "torn" is the      *)
(* beginning of a file whose writer has not finished.                      *)

Dedicated == harness \in {"omp-pi", "opencode"}

NoFile == [kind |-> "absent"]

Torn == [kind |-> "torn"]

Json(H) == [kind |-> "json", hooks |-> H]

Script(k) == [kind |-> k]

Files == [kind : {"absent", "torn", "current", "old", "unmarked"}]
         \cup [kind : {"json"}, hooks : SUBSET Hook]

Hooks(f) == IF f.kind = "json" THEN f.hooks ELSE {}

Init ==
    /\ harness \in Harnesses
    /\ file \in IF Dedicated THEN {NoFile, Script("old"), Script("unmarked")}
                ELSE {NoFile} \cup {Json(H) : H \in Found}
    /\ bak = NoFile /\ archives = <<>>
    /\ pc = [p \in Procs |-> "idle"]
    /\ op \in [Procs -> {"install", "uninstall"}]
    /\ seen = [p \in Procs |-> NoFile]
    /\ edits = 0 /\ crashes = 0
    /\ last = "found" /\ fresh = {}

Goto(p, where) == pc' = [pc EXCEPT ![p] = where]

\* _load_settings: invalid JSON is refused; no change, no write.
ReadSettings(p) ==
    /\ pc[p] = "idle" /\ ~Dedicated
    /\ seen' = [seen EXCEPT ![p] = file] /\ fresh' = fresh \cup {p}
    /\ LET stop == \/ file.kind = "torn"
                   \/ file.kind = "absent" /\ op[p] = "uninstall"
                   \/ Result(Hooks(file), harness, op[p]) = Hooks(file)
       IN  Goto(p, IF stop THEN "done" ELSE "backup")
    /\ UNCHANGED <<harness, file, bak, archives, op, edits, crashes, last>>

\* The newest Generations archives stay.
Newest(s) == IF Len(s) <= Generations THEN s
             ELSE SubSeq(s, Len(s) - Generations + 1, Len(s))

\* Fault: the first backup is kept instead of the latest settings.
LooksForBackupOnce(p) ==
    /\ pc[p] = "backup"
    /\ Goto(p, CASE file.kind = "absent" -> "replace"
                 [] bak.kind = "absent"  -> "copy"
                 [] OTHER                -> "replace")
    /\ UNCHANGED <<harness, file, bak, archives, op, seen, edits, crashes, last, fresh>>

LooksForBackup(p) ==
    /\ pc[p] = "backup"
    /\ Goto(p, CASE file.kind = "absent" -> "replace"
                 [] bak.kind = "absent"  -> "copy"
                 [] OTHER                -> "rotate")
    /\ UNCHANGED <<harness, file, bak, archives, op, seen, edits, crashes, last, fresh>>

\* _rotate_backup: a .bak that another process has just moved away makes this
\* one raise.
Rotate(p) ==
    /\ pc[p] = "rotate"
    /\ IF bak.kind = "absent"
       THEN Goto(p, "done") /\ UNCHANGED <<bak, archives>>
       ELSE /\ archives' = Newest(Append(archives, bak))
            /\ bak' = NoFile
            /\ Goto(p, "copy")
    /\ UNCHANGED <<harness, file, op, seen, edits, crashes, last, fresh>>

Copy(p) ==
    /\ pc[p] = "copy"
    /\ bak' = file
    /\ Goto(p, "replace")
    /\ UNCHANGED <<harness, file, archives, op, seen, edits, crashes, last, fresh>>

\* A write by a process that has not read what it replaces loses that.
Wrote(p, how) == /\ last' = IF p \in fresh THEN how ELSE "overwrite"
                 /\ fresh' = {}

\* The temporary file is complete before os.replace puts it in place; a failure
\* to write it removes it and leaves the settings alone.
Replace(p) ==
    /\ pc[p] = "replace"
    /\ \/ /\ file' = Json(Result(Hooks(seen[p]), harness, op[p]))
          /\ Wrote(p, op[p])
       \/ UNCHANGED <<file, last, fresh>>
    /\ Goto(p, "done")
    /\ UNCHANGED <<harness, bak, archives, op, seen, edits, crashes>>

\* DedicatedFileWriter: only a file with the marker is rewritten or removed.
Marked(f) == f.kind \in {"current", "old"}

Writable(f) == f.kind = "absent" \/ (Marked(f) /\ f.kind # "current")

ReadDedicated(p) ==
    /\ pc[p] = "idle" /\ Dedicated
    /\ seen' = [seen EXCEPT ![p] = file] /\ fresh' = fresh \cup {p}
    /\ Goto(p, CASE op[p] = "install" /\ Writable(file) -> "open"
                 [] op[p] = "uninstall" /\ Marked(file) -> "unlink"
                 [] OTHER -> "done")
    /\ UNCHANGED <<harness, file, bak, archives, op, edits, crashes, last>>

\* write_text opens the file, which empties it, and then writes.
OpenDedicated(p) ==
    /\ pc[p] = "open"
    /\ file' = Torn
    /\ last' = IF p \in fresh THEN "truncate" ELSE "overwrite"
    /\ fresh' = {p}
    /\ Goto(p, "write")
    /\ UNCHANGED <<harness, bak, archives, op, seen, edits, crashes>>

\* What is written to a file that was unlinked meanwhile is lost.
WriteDedicated(p) ==
    /\ pc[p] = "write"
    /\ IF file.kind = "absent" THEN UNCHANGED <<file, last, fresh>>
       ELSE /\ file' = Script("current")
            /\ Wrote(p, "install")
    /\ Goto(p, "done")
    /\ UNCHANGED <<harness, bak, archives, op, seen, edits, crashes>>

\* unlink raises when the file has gone.
Unlink(p) ==
    /\ pc[p] = "unlink"
    /\ IF file.kind = "absent" THEN UNCHANGED <<file, last, fresh>>
       ELSE file' = NoFile /\ Wrote(p, "uninstall")
    /\ Goto(p, "done")
    /\ UNCHANGED <<harness, bak, archives, op, seen, edits, crashes>>

\* The user, or the harness itself, saves the file: with one more hook of
\* theirs, or damaged.
Edit ==
    /\ edits < MaxEdits
    /\ edits' = edits + 1
    /\ \/ /\ ~Dedicated /\ file.kind # "torn"
          /\ \E m \in {"canonical", "custom"} :
               file' = Json(Hooks(file) \cup {[event |-> "SessionStart", matcher |-> m,
                                               action |-> "none", command |-> "users"]})
       \/ ~Dedicated /\ file' = Torn
       \/ Dedicated /\ file' = Script("unmarked")
    /\ last' = "edit" /\ fresh' = {}
    /\ UNCHANGED <<harness, bak, archives, pc, op, seen, crashes>>

Crash(p) ==
    /\ crashes < MaxCrashes /\ pc[p] \notin {"idle", "done"}
    /\ crashes' = crashes + 1
    /\ Goto(p, "done")
    /\ UNCHANGED <<harness, file, bak, archives, op, seen, edits, last, fresh>>

Terminated == (\A p \in Procs : pc[p] = "done") /\ UNCHANGED vars

Step(p) ==
    \/ ReadSettings(p) \/ LooksForBackup(p) \/ Rotate(p) \/ Copy(p) \/ Replace(p)
    \/ ReadDedicated(p) \/ OpenDedicated(p) \/ WriteDedicated(p) \/ Unlink(p)

Next == (\E p \in Procs : Step(p) \/ Crash(p)) \/ Edit \/ Terminated

Spec == Init /\ [][Next]_vars

-----------------------------------------------------------------------------
(* Properties.                                                             *)

\* Every variable keeps its type; no more archives than _MAX_BACKUP_GENERATIONS.
TypeOK ==
    /\ harness \in Harnesses
    /\ file \in Files /\ bak \in Files
    /\ archives \in Seq(Files) /\ Len(archives) <= Generations
    /\ pc \in [Procs -> {"idle", "backup", "rotate", "copy", "replace", "open",
                         "write", "unlink", "done"}]
    /\ op \in [Procs -> {"install", "uninstall"}]
    /\ seen \in [Procs -> Files]
    /\ edits \in 0..MaxEdits /\ crashes \in 0..MaxCrashes
    /\ last \in {"found", "install", "uninstall", "overwrite", "truncate", "edit"}
    /\ fresh \subseteq Procs

\* The event at which Claude runs an action.
Home(a) == IF a = "index" THEN "Stop" ELSE "SessionStart"

\* Of loci's hooks a file has what one installation leaves, of whatever release:
\* an action at most once at its event, under any matcher, and the distillation
\* at the end of a session that older ones had.
Tidy(H) ==
    /\ \A k \in H : OwnedByLoci(k) =>
         /\ k.action \in Actions
         /\ k.event = Home(k.action) \/ (k.event = "SessionEnd" /\ k.action = "distill")
    /\ \A k, l \in H :
         /\ OwnedByLoci(k) /\ OwnedByLoci(l) /\ k.action = l.action
         /\ "SessionEnd" \notin {k.event, l.event}
         => k = l

FoundTidy == \A H \in Found : Tidy(H)

\* Once `loci hook install` has written the settings of Claude and nobody has
\* saved them since, every lifecycle action runs exactly once whatever matcher,
\* virtualenv or legacy event it was found under, and installing again would
\* change nothing: whichever other processes ran in between. (A hook that was
\* found twice stays twice: the installer repairs the first one it meets.)
InstallSettles ==
    harness = "claude" /\ last = "install" =>
        /\ \A a \in Actions :
             Cardinality({k \in Hooks(file) : OwnedByLoci(k) /\ k.action = a}) = 1
        /\ Installed(Hooks(file), harness) = Hooks(file)

\* Hooks that are not loci's, and dedicated files without the marker, go only
\* with a save of their owner's, or when a save came between a process's read
\* and its write, or as the code names: a legacy SessionEnd entry, or the
\* lookalikes of the merged writers.
OthersWorkStays ==
    [][last' \notin {"edit", "overwrite"} =>
         /\ file.kind = "unmarked" => file' = file
         /\ \A k \in Hooks(file) :
              k.command \in {"users", "lookalike"} /\ k \notin Hooks(file') =>
                k \in Sacrificed(Hooks(file), harness)]_vars

\* What a write replaces is kept: the settings that go are the backup or an
\* archive, whichever processes ran in between and wherever one was killed,
\* unless the file was written between the process's read and its write.
ReplacedIsKept ==
    [][file.kind = "json" /\ file' # file /\ last' \notin {"edit", "overwrite"} =>
         \/ bak = file
         \/ \E i \in DOMAIN archives : archives[i] = file]_vars
=============================================================================
