-------------------------- MODULE HarnessHooksProofs --------------------------
(***************************************************************************)
(* Proofs about HarnessHooks, for any number of `loci hook` processes,     *)
(* saves by others, kills, backup generations and settings found: types,   *)
(* what becomes of other people's hooks, and of what a write replaces; and *)
(* that an installation settles, for settings with no hook of loci's twice.*)
(***************************************************************************)
EXTENDS HarnessHooks, FiniteSetTheorems, TLAPS

-----------------------------------------------------------------------------
(* What an installation does to a set of hooks                             *)

\* A hook that is not loci's, by the test of hooks.py.
Foreign(k) == k.command \in {"users", "lookalike"}

\* What installing for Claude adds or repairs.
Added(k) == k.command = "ours" /\ k.event # "SessionEnd"

LEMMA StartKeepsForeign ==
  ASSUME NEW H \in SUBSET Hook, NEW a \in Actions
  PROVE  /\ StartInstalled(H, a) \in SUBSET Hook
         /\ \A k \in H : Foreign(k) => k \in StartInstalled(H, a)
         /\ \A k \in StartInstalled(H, a) : k \in H \/ Added(k)
<1>1. Ours("SessionStart", "canonical", a) \in Hook
  BY DEF Ours, Hook
<1>2. CASE OldStarts(H, a) = {}
  BY <1>1, <1>2 DEF StartInstalled, Ours, Added
<1>3. CASE OldStarts(H, a) # {}
  <2> DEFINE k == CHOOSE x \in OldStarts(H, a) : TRUE
  <2>1. k \in OldStarts(H, a)
    BY <1>3
  <2> HIDE DEF k
  <2>2. k \in H /\ ~Foreign(k) /\ k.event = "SessionStart"
    BY <2>1 DEF OldStarts, OwnedByLoci, Foreign
  <2>3. [k EXCEPT !.command = "ours"] \in Hook /\ Added([k EXCEPT !.command = "ours"])
    BY <2>2 DEF Hook, Added
  <2>4. StartInstalled(H, a) = (H \ {k}) \cup {[k EXCEPT !.command = "ours"]}
    BY <1>3 DEF StartInstalled, k
  <2> QED BY <2>2, <2>3, <2>4
<1> QED BY <1>2, <1>3

LEMMA StopKeepsForeign ==
  ASSUME NEW H \in SUBSET Hook
  PROVE  /\ StopInstalled(H) \in SUBSET Hook
         /\ \A k \in H : Foreign(k) => k \in StopInstalled(H)
         /\ \A k \in StopInstalled(H) : k \in H \/ Added(k)
<1> DEFINE old == {k \in H : k.event = "Stop" /\ OwnedByLoci(k) /\ k.action = "index"}
           new == IF old = {} THEN {Ours("Stop", "none", "index")}
                  ELSE {[k EXCEPT !.command = "ours"] : k \in old}
<1>1. \A k \in old : k \in H /\ ~Foreign(k) /\ k.event = "Stop"
  BY DEF OwnedByLoci, Foreign
<1>2. \A k \in new : k \in Hook /\ Added(k)
  BY DEF Ours, Hook, Actions, Added
<1>3. StopInstalled(H) = (H \ old) \cup new
  BY DEF StopInstalled
<1> HIDE DEF old, new
<1> QED BY <1>1, <1>2, <1>3

LEMMA ClaudeKeepsForeign ==
  ASSUME NEW H \in SUBSET Hook
  PROVE  /\ ClaudeInstalled(H) \in SUBSET Hook
         /\ \A k \in H : Foreign(k) /\ k \notin ClaudeInstalled(H) => k \in LegacyEnd(H)
<1> DEFINE H1 == StartInstalled(StopInstalled(H), "server")
           H2 == StartInstalled(H1, "distill")
           H3 == StartInstalled(H2, "prime")
<1>1. {"server", "distill", "prime"} \subseteq Actions
  BY DEF Actions
<1>2. StopInstalled(H) \in SUBSET Hook
  BY StopKeepsForeign
<1>3. H1 \in SUBSET Hook
  BY <1>1, <1>2, StartKeepsForeign
<1>4. H2 \in SUBSET Hook
  BY <1>1, <1>3, StartKeepsForeign
<1>5. H3 \in SUBSET Hook
  BY <1>1, <1>4, StartKeepsForeign
<1>6. \A k \in H : Foreign(k) => k \in H3
  <2>1. \A k \in H : Foreign(k) => k \in H1
    BY <1>1, <1>2, StopKeepsForeign, StartKeepsForeign
  <2>2. \A k \in H1 : Foreign(k) => k \in H2
    BY <1>1, <1>3, StartKeepsForeign
  <2>3. \A k \in H2 : Foreign(k) => k \in H3
    BY <1>1, <1>4, StartKeepsForeign
  <2> QED BY <2>1, <2>2, <2>3
<1>7. \A k \in H3 : k \in H \/ Added(k)
  <2>1. \A k \in H1 : k \in H \/ Added(k)
    BY <1>1, <1>2, StopKeepsForeign, StartKeepsForeign
  <2>2. \A k \in H2 : k \in H1 \/ Added(k)
    BY <1>1, <1>3, StartKeepsForeign
  <2>3. \A k \in H3 : k \in H2 \/ Added(k)
    BY <1>1, <1>4, StartKeepsForeign
  <2> QED BY <2>1, <2>2, <2>3
<1>8. ClaudeInstalled(H) = H3 \ LegacyEnd(H3)
  BY DEF ClaudeInstalled
<1> HIDE DEF H1, H2, H3
<1>9. ASSUME NEW k \in H, k \in LegacyEnd(H3) PROVE k \in LegacyEnd(H)
  BY <1>7, <1>9 DEF LegacyEnd, Added
<1> QED BY <1>5, <1>6, <1>8, <1>9

LEMMA WantedAreHooks == \A h \in Harnesses : Wanted(h) \subseteq Hook
BY DEF Wanted, Ours, Hook, Actions

\* What is not loci's and goes is what the code gives up.
LEMMA ResultKeepsForeign ==
  ASSUME NEW H \in SUBSET Hook, NEW h \in Harnesses, NEW o \in {"install", "uninstall"}
  PROVE  /\ Result(H, h, o) \in SUBSET Hook
         /\ \A k \in H : Foreign(k) /\ k \notin Result(H, h, o) => k \in Sacrificed(H, h)
<1>1. CASE o = "install" /\ h = "claude"
  BY <1>1, ClaudeKeepsForeign DEF Result, Installed, Sacrificed
<1>2. CASE o = "install" /\ h # "claude"
  <2>1. MergedInstalled(H, h) \in SUBSET Hook /\ H \subseteq MergedInstalled(H, h)
    BY WantedAreHooks DEF MergedInstalled
  <2> QED BY <1>2, <2>1 DEF Result, Installed
<1>3. CASE o = "uninstall" /\ h = "claude"
  BY <1>3 DEF Result, Uninstalled, OwnedByLoci, Foreign
<1>4. CASE o = "uninstall" /\ h # "claude"
  BY <1>4 DEF Result, Uninstalled, IsManaged, Foreign, Sacrificed
<1> QED BY <1>1, <1>2, <1>3, <1>4

-----------------------------------------------------------------------------
(* Types                                                                   *)

LEMMA FileFacts ==
  /\ NoFile \in Files /\ Torn \in Files
  /\ \A k \in {"current", "old", "unmarked"} : Script(k) \in Files
  /\ \A H \in SUBSET Hook : Json(H) \in Files
  /\ \A f \in Files : Hooks(f) \in SUBSET Hook
BY DEF NoFile, Torn, Script, Json, Files, Hooks

LEMMA ReplaceTypes ==
  ASSUME TypeOK, NEW p \in Procs
  PROVE  Json(Result(Hooks(seen[p]), harness, op[p])) \in Files
<1>1. Hooks(seen[p]) \in SUBSET Hook /\ op[p] \in {"install", "uninstall"}
  BY FileFacts DEF TypeOK
<1> QED BY <1>1, FileFacts, ResultKeepsForeign DEF TypeOK

LEMMA NewestTypes ==
  ASSUME NEW s \in Seq(Files), Len(s) <= Generations + 1, Len(s) > 0
  PROVE  /\ Newest(s) \in Seq(Files) /\ Len(Newest(s)) <= Generations
         /\ Len(Newest(s)) > 0 /\ Newest(s)[Len(Newest(s))] = s[Len(s)]
<1>1. Generations \in Nat /\ Generations > 0
  BY HarnessHooksAssumption
<1>2. CASE Len(s) <= Generations
  BY <1>2 DEF Newest
<1>3. CASE Len(s) = Generations + 1
  <2>1. Newest(s) = SubSeq(s, 2, Len(s))
    BY <1>1, <1>3 DEF Newest
  <2> QED BY <1>1, <1>3, <2>1
<1> QED BY <1>1, <1>2, <1>3

\* Where the steps that branch lead.
LEMMA Branches ==
  ASSUME NEW p \in Procs
  PROVE  /\ ReadSettings(p) => \E w \in {"backup", "done"} : Goto(p, w)
         /\ LooksForBackup(p) =>
              \E w \in {"copy", "rotate", "replace"} :
                 Goto(p, w) /\ (w = "replace" => file.kind = "absent")
         /\ ReadDedicated(p) =>
              \E w \in {"open", "unlink", "done"} :
                 /\ Goto(p, w)
                 /\ w = "open" => Writable(file)
                 /\ w = "unlink" => Marked(file)
BY DEF ReadSettings, LooksForBackup, ReadDedicated

LEMMA StepTypes ==
  ASSUME TypeOK, NEW p \in Procs, Step(p)
  PROVE  TypeOK'
<1> USE DEF TypeOK, Goto
<1>1. CASE ReadSettings(p)
  <2>1. PICK w \in {"backup", "done"} : Goto(p, w)
    BY <1>1, Branches
  <2> QED BY <1>1, <2>1 DEF ReadSettings
<1>2. CASE LooksForBackup(p)
  <2>1. PICK w \in {"copy", "rotate", "replace"} : Goto(p, w)
    BY <1>2, Branches
  <2> QED BY <1>2, <2>1 DEF LooksForBackup
<1>3. CASE Rotate(p)
  <2>1. CASE bak.kind = "absent"
    BY <1>3, <2>1 DEF Rotate
  <2>2. CASE bak.kind # "absent"
    <3>1. /\ Append(archives, bak) \in Seq(Files)
          /\ Len(Append(archives, bak)) <= Generations + 1
          /\ Len(Append(archives, bak)) > 0
      BY HarnessHooksAssumption
    <3>2. archives' \in Seq(Files) /\ Len(archives') <= Generations
      BY <1>3, <2>2, <3>1, NewestTypes DEF Rotate
    <3> QED BY <1>3, <2>2, <3>2, FileFacts DEF Rotate
  <2> QED BY <2>1, <2>2
<1>4. CASE Copy(p)
  BY <1>4 DEF Copy
<1>5. CASE Replace(p)
  <2>1. file' \in Files
    BY <1>5, ReplaceTypes DEF Replace
  <2> QED BY <1>5, <2>1 DEF Replace, Wrote
<1>6. CASE ReadDedicated(p)
  <2>1. PICK w \in {"open", "unlink", "done"} : Goto(p, w)
    BY <1>6, Branches
  <2> QED BY <1>6, <2>1 DEF ReadDedicated
<1>7. CASE OpenDedicated(p)
  BY <1>7, FileFacts DEF OpenDedicated
<1>8. CASE WriteDedicated(p)
  BY <1>8, FileFacts DEF WriteDedicated, Wrote
<1>9. CASE Unlink(p)
  BY <1>9, FileFacts DEF Unlink, Wrote
<1> QED BY <1>1, <1>2, <1>3, <1>4, <1>5, <1>6, <1>7, <1>8, <1>9 DEF Step

LEMMA EditTypes ==
  ASSUME TypeOK, Edit
  PROVE  TypeOK'
<1>1. file' \in Files
  <2>1. Hooks(file) \in SUBSET Hook
    BY FileFacts DEF TypeOK
  <2>2. \A m \in {"canonical", "custom"} :
           [event |-> "SessionStart", matcher |-> m, action |-> "none", command |-> "users"]
             \in Hook
    BY DEF Hook
  <2> QED BY <2>1, <2>2, FileFacts DEF Edit
<1>2. edits' \in 0..MaxEdits
  BY HarnessHooksAssumption DEF Edit, TypeOK
<1> QED BY <1>1, <1>2 DEF Edit, TypeOK

\* Types; and loci never keeps more archives than _MAX_BACKUP_GENERATIONS.
THEOREM TypeCorrect == Spec => []TypeOK
<1>1. Init => TypeOK
  <2> SUFFICES ASSUME Init PROVE TypeOK
    OBVIOUS
  <2>1. file \in Files
    BY FileFacts, FoundAssumption DEF Init
  <2> QED BY <2>1, FileFacts, HarnessHooksAssumption DEF Init, TypeOK
<1>2. TypeOK /\ [Next]_vars => TypeOK'
  <2> SUFFICES ASSUME TypeOK, [Next]_vars PROVE TypeOK'
    OBVIOUS
  <2>1. ASSUME NEW p \in Procs, Crash(p) PROVE TypeOK'
    BY <2>1, HarnessHooksAssumption DEF Crash, TypeOK, Goto
  <2>2. CASE UNCHANGED vars
    BY <2>2 DEF vars, TypeOK
  <2> QED BY <2>1, <2>2, StepTypes, EditTypes DEF Next, Terminated
<1> QED BY <1>1, <1>2, PTL DEF Spec

-----------------------------------------------------------------------------
(* What a process that has read the file knows                             *)

JsonStages == {"backup", "rotate", "copy", "replace"}

\* The file of a kind is worked on in the stages of that kind.
Kinds ==
    IF Dedicated
    THEN file.kind # "json" /\ \A p \in Procs : pc[p] \notin JsonStages
    ELSE /\ file.kind \in {"absent", "torn", "json"}
         /\ \A p \in Procs : pc[p] \in JsonStages \cup {"idle", "done"}

\* The latest backup of the settings as they are.
BackedUp ==
    \/ bak = file
    \/ bak.kind = "absent" /\ archives # <<>> /\ archives[Len(archives)] = file

\* While nobody has written the file since a process read it, the process holds
\* what the file is, may do to it what it is about to do, and has it backed up
\* when it comes to replace it.
Knows(p) ==
    p \in fresh =>
        /\ pc[p] \in JsonStages => seen[p] = file
        /\ pc[p] = "open" => Writable(file)
        /\ pc[p] = "unlink" => Marked(file)
        /\ pc[p] = "write" => file.kind = "torn"
        /\ pc[p] = "replace" /\ file.kind = "json" => BackedUp

Inv == Kinds /\ \A p \in Procs : Knows(p)

\* A step that leaves files and what was read alone, and moves p on to a stage
\* it may be in.
LEMMA MovesOn ==
  ASSUME TypeOK, Inv, NEW p \in Procs, NEW w, Goto(p, w),
         UNCHANGED <<harness, file, bak, archives, seen, fresh>>,
         \/ w = "done"
         \/ /\ ~Dedicated /\ w \in {"backup", "rotate", "copy", "replace"}
            /\ p \in fresh => seen[p] = file
            /\ w = "replace" => file.kind = "absent"
  PROVE  Inv'
<1> USE DEF TypeOK, Inv, Goto, JsonStages
<1>1. Kinds'
  BY DEF Kinds, Dedicated
<1>2. ASSUME NEW q \in Procs PROVE Knows(q)'
  <2>1. CASE q = p
    BY <2>1 DEF Knows, BackedUp
  <2>2. CASE q # p
    BY <2>2 DEF Knows, BackedUp, Writable, Marked
  <2> QED BY <2>1, <2>2
<1> QED BY <1>1, <1>2

LEMMA Ends ==
  ASSUME TypeOK, Inv, NEW p \in Procs, Goto(p, "done"),
         UNCHANGED <<harness, file, bak, archives, seen, fresh>>
  PROVE  Inv'
BY MovesOn

LEMMA StepInv ==
  ASSUME TypeOK, Inv, NEW p \in Procs, Step(p)
  PROVE  Inv'
<1> USE DEF JsonStages
<1>1. CASE ReadSettings(p)
  <2>1. PICK w \in {"backup", "done"} : Goto(p, w)
    BY <1>1, Branches
  <2>2. Kinds'
    BY <1>1, <2>1 DEF ReadSettings, Inv, Kinds, Dedicated, Goto, TypeOK
  <2>3. ASSUME NEW q \in Procs PROVE Knows(q)'
    <3>1. CASE q = p
      BY <1>1, <2>1, <3>1 DEF ReadSettings, Knows, Goto, TypeOK
    <3>2. CASE q # p
      BY <1>1, <2>1, <3>2
         DEF ReadSettings, Inv, Knows, BackedUp, Writable, Marked, Goto, TypeOK
    <3> QED BY <3>1, <3>2
  <2> QED BY <2>2, <2>3 DEF Inv
<1>2. CASE LooksForBackup(p)
  <2>1. PICK w \in {"copy", "rotate", "replace"} :
           Goto(p, w) /\ (w = "replace" => file.kind = "absent")
    BY <1>2, Branches
  <2>2. ~Dedicated /\ (p \in fresh => seen[p] = file)
    BY <1>2 DEF LooksForBackup, Inv, Kinds, Knows
  <2> QED BY <1>2, <2>1, <2>2, MovesOn DEF LooksForBackup
<1>3. CASE Rotate(p)
  <2>1. ~Dedicated /\ (p \in fresh => seen[p] = file)
    BY <1>3 DEF Rotate, Inv, Kinds, Knows
  <2>2. CASE bak.kind = "absent"
    BY <1>3, <2>2, Ends DEF Rotate
  <2>3. CASE bak.kind # "absent"
    <3>1. BackedUp => BackedUp'
      <4>1. /\ Append(archives, bak) \in Seq(Files)
            /\ Len(Append(archives, bak)) <= Generations + 1
            /\ Len(Append(archives, bak)) > 0
            /\ Append(archives, bak)[Len(Append(archives, bak))] = bak
        BY HarnessHooksAssumption DEF TypeOK
      <4>2. /\ archives' \in Seq(Files) /\ Len(archives') > 0
            /\ archives'[Len(archives')] = bak
            /\ bak' = NoFile /\ file' = file
        BY <1>3, <2>3, <4>1, NewestTypes DEF Rotate
      <4> QED BY <2>3, <4>2 DEF BackedUp, NoFile
    <3>2. Kinds'
      BY <1>3, <2>3, <2>1 DEF Rotate, Inv, Kinds, Dedicated, Goto, TypeOK
    <3>3. ASSUME NEW q \in Procs PROVE Knows(q)'
      <4>1. CASE q = p
        BY <1>3, <2>1, <2>3, <4>1 DEF Rotate, Knows, Goto, TypeOK
      <4>2. CASE q # p
        BY <1>3, <2>3, <3>1, <4>2 DEF Rotate, Inv, Knows, Goto, TypeOK, Writable, Marked
      <4> QED BY <4>1, <4>2
    <3> QED BY <3>2, <3>3 DEF Inv
  <2> QED BY <2>2, <2>3
<1>4. CASE Copy(p)
  <2>1. ~Dedicated /\ (p \in fresh => seen[p] = file)
    BY <1>4 DEF Copy, Inv, Kinds, Knows
  <2>2. BackedUp'
    BY <1>4 DEF Copy, BackedUp
  <2>3. Kinds'
    BY <1>4, <2>1 DEF Copy, Inv, Kinds, Dedicated, Goto, TypeOK
  <2>4. ASSUME NEW q \in Procs PROVE Knows(q)'
    <3>1. CASE q = p
      BY <1>4, <2>1, <2>2, <3>1 DEF Copy, Knows, Goto, TypeOK
    <3>2. CASE q # p
      BY <1>4, <2>2, <3>2 DEF Copy, Inv, Knows, Goto, TypeOK, Writable, Marked
    <3> QED BY <3>1, <3>2
  <2> QED BY <2>3, <2>4 DEF Inv
<1>5. CASE Replace(p)
  <2>1. ~Dedicated
    BY <1>5 DEF Replace, Inv, Kinds
  <2>2. CASE UNCHANGED <<file, last, fresh>>
    BY <1>5, <2>2, Ends DEF Replace
  <2>3. CASE ~UNCHANGED <<file, last, fresh>>
    <3>1. fresh' = {} /\ file'.kind = "json"
      BY <1>5, <2>3 DEF Replace, Wrote, Json
    <3>2. Kinds'
      BY <1>5, <2>1, <3>1 DEF Replace, Inv, Kinds, Dedicated, Goto, TypeOK
    <3> QED BY <3>1, <3>2 DEF Inv, Knows
  <2> QED BY <2>2, <2>3
<1>6. CASE ReadDedicated(p)
  <2>1. PICK w \in {"open", "unlink", "done"} :
           /\ Goto(p, w)
           /\ w = "open" => Writable(file)
           /\ w = "unlink" => Marked(file)
    BY <1>6, Branches
  <2>2. Kinds'
    BY <1>6, <2>1 DEF ReadDedicated, Inv, Kinds, Dedicated, Goto, TypeOK
  <2>3. ASSUME NEW q \in Procs PROVE Knows(q)'
    <3>1. CASE q = p
      BY <1>6, <2>1, <3>1 DEF ReadDedicated, Knows, Goto, TypeOK, Writable, Marked
    <3>2. CASE q # p
      BY <1>6, <2>1, <3>2
         DEF ReadDedicated, Inv, Knows, BackedUp, Writable, Marked, Goto, TypeOK
    <3> QED BY <3>1, <3>2
  <2> QED BY <2>2, <2>3 DEF Inv
<1>7. CASE OpenDedicated(p)
  <2>1. Dedicated
    BY <1>7 DEF OpenDedicated, Inv, Kinds
  <2>2. Kinds'
    BY <1>7, <2>1 DEF OpenDedicated, Inv, Kinds, Dedicated, Goto, TypeOK, Torn
  <2>3. ASSUME NEW q \in Procs PROVE Knows(q)'
    BY <1>7 DEF OpenDedicated, Knows, Goto, TypeOK, Torn
  <2> QED BY <2>2, <2>3 DEF Inv
<1>8. CASE WriteDedicated(p)
  <2>1. Dedicated
    BY <1>8 DEF WriteDedicated, Inv, Kinds
  <2>2. CASE UNCHANGED <<file, last, fresh>>
    BY <1>8, <2>2, Ends DEF WriteDedicated
  <2>3. CASE ~UNCHANGED <<file, last, fresh>>
    <3>1. fresh' = {} /\ file'.kind = "current"
      BY <1>8, <2>3 DEF WriteDedicated, Wrote, Script
    <3>2. Kinds'
      BY <1>8, <2>1, <3>1 DEF WriteDedicated, Inv, Kinds, Dedicated, Goto, TypeOK
    <3> QED BY <3>1, <3>2 DEF Inv, Knows
  <2> QED BY <2>2, <2>3
<1>9. CASE Unlink(p)
  <2>1. Dedicated
    BY <1>9 DEF Unlink, Inv, Kinds
  <2>2. CASE UNCHANGED <<file, last, fresh>>
    BY <1>9, <2>2, Ends DEF Unlink
  <2>3. CASE ~UNCHANGED <<file, last, fresh>>
    <3>1. fresh' = {} /\ file'.kind = "absent"
      BY <1>9, <2>3 DEF Unlink, Wrote, NoFile
    <3>2. Kinds'
      BY <1>9, <2>1, <3>1 DEF Unlink, Inv, Kinds, Dedicated, Goto, TypeOK
    <3> QED BY <3>1, <3>2 DEF Inv, Knows
  <2> QED BY <2>2, <2>3
<1> QED BY <1>1, <1>2, <1>3, <1>4, <1>5, <1>6, <1>7, <1>8, <1>9 DEF Step

LEMMA AlwaysInv == Spec => []Inv
<1>1. Init => Inv
  <2> SUFFICES ASSUME Init PROVE Inv
    OBVIOUS
  <2>1. Kinds
    BY DEF Init, Kinds, Dedicated, JsonStages, NoFile, Script, Json
  <2> QED BY <2>1 DEF Init, Inv, Knows
<1>2. TypeOK /\ Inv /\ [Next]_vars => Inv'
  <2> SUFFICES ASSUME TypeOK, Inv, [Next]_vars PROVE Inv'
    OBVIOUS
  <2>1. ASSUME NEW p \in Procs, Crash(p) PROVE Inv'
    BY <2>1, Ends DEF Crash
  <2>2. CASE Edit
    <3>1. fresh' = {} /\ UNCHANGED <<harness, pc>>
      BY <2>2 DEF Edit
    <3>2. file'.kind = IF Dedicated THEN "unmarked" ELSE file'.kind
      BY <2>2 DEF Edit, Script
    <3>3. ~Dedicated => file'.kind \in {"json", "torn"}
      BY <2>2 DEF Edit, Json, Torn
    <3>4. Kinds'
      BY <3>1, <3>2, <3>3 DEF Inv, Kinds, Dedicated
    <3> QED BY <3>1, <3>4 DEF Inv, Knows
  <2>3. CASE UNCHANGED vars
    BY <2>3 DEF vars, Inv, Kinds, Dedicated, Knows, BackedUp, Writable, Marked
  <2> QED BY <2>1, <2>2, <2>3, StepInv DEF Next, Terminated
<1> QED BY <1>1, <1>2, TypeCorrect, PTL DEF Spec

-----------------------------------------------------------------------------
(* What goes, and what is kept                                             *)

\* Which steps change the file.
LEMMA FileChanges ==
  ASSUME NEW p \in Procs, Step(p) \/ Crash(p), file' # file
  PROVE  \/ /\ Replace(p) /\ Wrote(p, op[p])
            /\ file' = Json(Result(Hooks(seen[p]), harness, op[p]))
         \/ OpenDedicated(p)
         \/ (WriteDedicated(p) /\ Wrote(p, "install"))
         \/ (Unlink(p) /\ Wrote(p, "uninstall"))
BY DEF Step, ReadSettings, LooksForBackup, Rotate, Copy, Replace, ReadDedicated,
       WriteDedicated, Unlink, Crash

\* A write that overtook nobody finds what it read, backed up.
LEMMA ReplaceKnows ==
  ASSUME TypeOK, Inv, NEW p \in Procs, Replace(p), Wrote(p, op[p]), last' # "overwrite"
  PROVE  seen[p] = file /\ (file.kind = "json" => BackedUp)
<1>1. p \in fresh /\ pc[p] = "replace"
  BY DEF Wrote, Replace
<1> QED BY <1>1 DEF Inv, Knows, JsonStages

\* Nothing of the user's or of the harness's goes by a write of loci's that no
\* save overtook, but for what the code gives up (install_hooks,
\* MergedJsonHookWriter, DedicatedFileWriter).
THEOREM OthersStay == Spec => OthersWorkStays
<1> DEFINE A == last' \notin {"edit", "overwrite"} =>
                  /\ file.kind = "unmarked" => file' = file
                  /\ \A k \in Hooks(file) :
                       k.command \in {"users", "lookalike"} /\ k \notin Hooks(file') =>
                         k \in Sacrificed(Hooks(file), harness)
<1>1. TypeOK /\ Inv /\ [Next]_vars => [A]_vars
  <2> SUFFICES ASSUME TypeOK, Inv, [Next]_vars, last' \notin {"edit", "overwrite"}, file' # file
               PROVE  A
    BY DEF vars
  <2>1. ~Edit /\ ~Terminated /\ ~UNCHANGED vars
    BY DEF Edit, Terminated, vars
  <2>2. PICK p \in Procs : Step(p) \/ Crash(p)
    BY <2>1 DEF Next
  <2>3. CASE /\ Replace(p) /\ Wrote(p, op[p])
            /\ file' = Json(Result(Hooks(seen[p]), harness, op[p]))
    <3>1. seen[p] = file /\ file.kind # "unmarked"
      BY <2>3, ReplaceKnows DEF Inv, Kinds, Replace, JsonStages
    <3>2. Hooks(file) \in SUBSET Hook /\ op[p] \in {"install", "uninstall"} /\ harness \in Harnesses
      BY FileFacts DEF TypeOK
    <3>3. Hooks(file') = Result(Hooks(file), harness, op[p])
      BY <2>3, <3>1 DEF Hooks, Json
    <3> QED BY <3>1, <3>2, <3>3, ResultKeepsForeign DEF Foreign
  <2>4. CASE \/ OpenDedicated(p)
            \/ (WriteDedicated(p) /\ Wrote(p, "install"))
            \/ (Unlink(p) /\ Wrote(p, "uninstall"))
    <3>1. pc[p] \in {"open", "write", "unlink"}
      BY <2>4 DEF OpenDedicated, WriteDedicated, Unlink
    <3>2. Hooks(file) = {}
      BY <3>1 DEF Inv, Kinds, Hooks, JsonStages
    <3>3. p \in fresh
      BY <2>4 DEF OpenDedicated, Wrote
    <3>4. file.kind # "unmarked"
      BY <3>1, <3>3 DEF Inv, Knows, Writable, Marked
    <3> QED BY <3>2, <3>4
  <2> QED BY <2>2, <2>3, <2>4, FileChanges
<1> QED BY <1>1, TypeCorrect, AlwaysInv, PTL DEF OthersWorkStays, Spec

\* What a write of _write_settings replaces is the backup or an archive, however
\* other processes rotate them in between.
THEOREM ReplacedKept == Spec => ReplacedIsKept
<1> DEFINE A == file.kind = "json" /\ file' # file /\ last' \notin {"edit", "overwrite"} =>
                  \/ bak = file
                  \/ \E i \in DOMAIN archives : archives[i] = file
<1>1. TypeOK /\ Inv /\ [Next]_vars => [A]_vars
  <2> SUFFICES ASSUME TypeOK, Inv, [Next]_vars, last' \notin {"edit", "overwrite"},
                      file' # file, file.kind = "json"
               PROVE  A
    BY DEF vars
  <2>1. ~Edit /\ ~Terminated /\ ~UNCHANGED vars
    BY DEF Edit, Terminated, vars
  <2>2. PICK p \in Procs : Step(p) \/ Crash(p)
    BY <2>1 DEF Next
  <2>3. ~OpenDedicated(p) /\ ~WriteDedicated(p) /\ ~Unlink(p)
    BY DEF OpenDedicated, WriteDedicated, Unlink, Inv, Kinds, JsonStages
  <2>4. Replace(p) /\ Wrote(p, op[p])
    BY <2>2, <2>3, FileChanges
  <2>5. BackedUp
    BY <2>4, ReplaceKnows
  <2>6. archives # <<>> => Len(archives) \in DOMAIN archives
    BY DEF TypeOK
  <2> QED BY <2>5, <2>6 DEF BackedUp
<1> QED BY <1>1, TypeCorrect, AlwaysInv, PTL DEF ReplacedIsKept, Spec

-----------------------------------------------------------------------------
(* What is installed twice                                                 *)

\* Action a is installed where it belongs.
Present(H, a) ==
    \E k \in H : k.event = Home(a) /\ k.action = a /\ k.command = "ours"

Settled(H) ==
    /\ \A a \in Actions : Cardinality({k \in H : OwnedByLoci(k) /\ k.action = a}) = 1
    /\ ClaudeInstalled(H) = H

\* Repairing the hook k, the only one of its action.
LEMMA RepairTidy ==
  ASSUME NEW H \in SUBSET Hook, Tidy(H), NEW k \in H, OwnedByLoci(k), k.event # "SessionEnd",
         NEW G, G = (H \ {k}) \cup {[k EXCEPT !.command = "ours"]}
  PROVE  /\ Tidy(G) /\ Present(G, k.action)
         /\ \A b \in Actions : Present(H, b) => Present(G, b)
<1> DEFINE r == [k EXCEPT !.command = "ours"]
<1>1. /\ r.event = k.event /\ r.action = k.action /\ r.command = "ours" /\ OwnedByLoci(r)
      /\ k.event = Home(k.action) /\ k.action \in Actions
  BY DEF Hook, OwnedByLoci, Tidy
<1>2. \A l \in H : OwnedByLoci(l) /\ l.action = k.action /\ l.event # "SessionEnd" => l = k
  BY DEF Tidy
<1>3. G = (H \ {k}) \cup {r}
  OBVIOUS
<1> HIDE DEF r
<1>4. Tidy(G)
  <2>1. ASSUME NEW x \in G, OwnedByLoci(x)
        PROVE  /\ x.action \in Actions
               /\ x.event = Home(x.action) \/ (x.event = "SessionEnd" /\ x.action = "distill")
    BY <1>1, <1>3, <2>1 DEF Tidy
  <2>2. ASSUME NEW x \in G, NEW y \in G, OwnedByLoci(x), OwnedByLoci(y), x.action = y.action,
               "SessionEnd" \notin {x.event, y.event}
        PROVE  x = y
    BY <1>1, <1>2, <1>3, <2>2 DEF Tidy
  <2> QED BY <2>1, <2>2 DEF Tidy
<1>5. r \in G /\ Present(G, k.action)
  BY <1>1, <1>3 DEF Present
<1>6. ASSUME NEW b \in Actions, Present(H, b)
      PROVE  Present(G, b)
  <2>1. PICK x \in H : x.event = Home(b) /\ x.action = b /\ x.command = "ours"
    BY <1>6 DEF Present
  <2>2. CASE x = k
    BY <1>1, <1>5, <2>1, <2>2
  <2>3. CASE x # k
    BY <1>3, <2>1, <2>3 DEF Present
  <2> QED BY <2>2, <2>3
<1> QED BY <1>4, <1>5, <1>6

\* Adding the hook of an action that has none.
LEMMA AddTidy ==
  ASSUME NEW H \in SUBSET Hook, Tidy(H), NEW a \in Actions, NEW m \in {"none", "canonical"},
         \A k \in H : ~(OwnedByLoci(k) /\ k.action = a /\ k.event = Home(a)),
         NEW G, G = H \cup {Ours(Home(a), m, a)}
  PROVE  /\ Tidy(G) /\ Present(G, a)
         /\ \A b \in Actions : Present(H, b) => Present(G, b)
<1> DEFINE r == Ours(Home(a), m, a)
<1>1. /\ r.event = Home(a) /\ r.action = a /\ r.command = "ours"
      /\ Home(a) # "SessionEnd"
  BY DEF Ours, Home
<1>2. G = H \cup {r}
  OBVIOUS
<1> HIDE DEF r
<1>3. \A x \in H : OwnedByLoci(x) /\ x.event # "SessionEnd" => x.action # a
  BY DEF Tidy
<1>4. Tidy(G)
  <2>1. ASSUME NEW x \in G, OwnedByLoci(x)
        PROVE  /\ x.action \in Actions
               /\ x.event = Home(x.action) \/ (x.event = "SessionEnd" /\ x.action = "distill")
    BY <1>1, <1>2, <2>1 DEF Tidy
  <2>2. ASSUME NEW x \in G, NEW y \in G, OwnedByLoci(x), OwnedByLoci(y), x.action = y.action,
               "SessionEnd" \notin {x.event, y.event}
        PROVE  x = y
    BY <1>1, <1>2, <1>3, <2>2 DEF Tidy
  <2> QED BY <2>1, <2>2 DEF Tidy
<1>5. Present(G, a)
  BY <1>1, <1>2 DEF Present
<1>6. \A b \in Actions : Present(H, b) => Present(G, b)
  BY <1>2 DEF Present
<1> QED BY <1>4, <1>5, <1>6

LEMMA StopTidy ==
  ASSUME NEW H \in SUBSET Hook, Tidy(H)
  PROVE  /\ Tidy(StopInstalled(H)) /\ Present(StopInstalled(H), "index")
         /\ \A b \in Actions : Present(H, b) => Present(StopInstalled(H), b)
<1> DEFINE old == {k \in H : k.event = "Stop" /\ OwnedByLoci(k) /\ k.action = "index"}
<1>0. "index" \in Actions /\ Home("index") = "Stop"
  BY DEF Actions, Home
<1>1. CASE old = {}
  <2>1. StopInstalled(H) = H \cup {Ours(Home("index"), "none", "index")}
    BY <1>0, <1>1 DEF StopInstalled
  <2>2. \A k \in H : ~(OwnedByLoci(k) /\ k.action = "index" /\ k.event = Home("index"))
    BY <1>0, <1>1
  <2> QED BY <1>0, <2>1, <2>2, AddTidy
<1>2. CASE old # {}
  <2>1. PICK k \in old : TRUE
    BY <1>2
  <2>2. old = {k}
    <3>1. \A l \in old : l = k
      BY <2>1 DEF Tidy
    <3> QED BY <2>1, <3>1
  <2>3. k \in H /\ k.event = "Stop" /\ OwnedByLoci(k) /\ k.action = "index"
    BY <2>1
  <2>4. StopInstalled(H) = (H \ old) \cup {[x EXCEPT !.command = "ours"] : x \in old}
    BY <1>2 DEF StopInstalled
  <2> HIDE DEF old
  <2>5. StopInstalled(H) = (H \ {k}) \cup {[k EXCEPT !.command = "ours"]}
    BY <2>2, <2>4
  <2> QED BY <2>3, <2>5, RepairTidy
<1> QED BY <1>1, <1>2

LEMMA StartTidy ==
  ASSUME NEW H \in SUBSET Hook, Tidy(H), NEW a \in {"server", "distill", "prime"}
  PROVE  /\ Tidy(StartInstalled(H, a)) /\ Present(StartInstalled(H, a), a)
         /\ \A b \in Actions : Present(H, b) => Present(StartInstalled(H, a), b)
<1>0. a \in Actions /\ Home(a) = "SessionStart"
  BY DEF Actions, Home
<1>1. CASE OldStarts(H, a) = {}
  <2>1. StartInstalled(H, a) = H \cup {Ours(Home(a), "canonical", a)}
    BY <1>0, <1>1 DEF StartInstalled
  <2>2. \A k \in H : ~(OwnedByLoci(k) /\ k.action = a /\ k.event = Home(a))
    BY <1>0, <1>1 DEF OldStarts
  <2> QED BY <1>0, <2>1, <2>2, AddTidy
<1>2. CASE OldStarts(H, a) # {}
  <2> DEFINE k == CHOOSE x \in OldStarts(H, a) : TRUE
  <2>1. k \in OldStarts(H, a)
    BY <1>2
  <2>2. StartInstalled(H, a) = (H \ {k}) \cup {[k EXCEPT !.command = "ours"]}
    BY <1>2 DEF StartInstalled
  <2> HIDE DEF k
  <2>3. k \in H /\ k.event = "SessionStart" /\ OwnedByLoci(k) /\ k.action = a
    BY <2>1 DEF OldStarts
  <2> QED BY <2>2, <2>3, RepairTidy
<1> QED BY <1>1, <1>2

\* What is settled: each action where it belongs, nothing else of loci's.
Complete(H) ==
    /\ H \in SUBSET Hook /\ Tidy(H)
    /\ \A a \in Actions : Present(H, a)
    /\ \A k \in H : OwnedByLoci(k) => k.event # "SessionEnd"

LEMMA InstalledComplete ==
  ASSUME NEW H \in SUBSET Hook, Tidy(H)
  PROVE  Complete(ClaudeInstalled(H))
<1> DEFINE S == StopInstalled(H)
           H1 == StartInstalled(S, "server")
           H2 == StartInstalled(H1, "distill")
           H3 == StartInstalled(H2, "prime")
           C == H3 \ LegacyEnd(H3)
<1>0. Actions = {"index", "server", "distill", "prime"}
  BY DEF Actions
<1>1. S \in SUBSET Hook /\ Tidy(S) /\ Present(S, "index")
  BY StopKeepsForeign, StopTidy
<1>2. H1 \in SUBSET Hook /\ Tidy(H1) /\ \A b \in {"index", "server"} : Present(H1, b)
  BY <1>0, <1>1, StartKeepsForeign, StartTidy
<1> HIDE DEF S, H1
<1>3. H2 \in SUBSET Hook /\ Tidy(H2) /\ \A b \in {"index", "server", "distill"} : Present(H2, b)
  BY <1>0, <1>2, StartKeepsForeign, StartTidy
<1> HIDE DEF H2
<1>4. H3 \in SUBSET Hook /\ Tidy(H3) /\ \A b \in Actions : Present(H3, b)
  BY <1>0, <1>3, StartKeepsForeign, StartTidy
<1>5. ClaudeInstalled(H) = C
  BY DEF ClaudeInstalled, H1, H2, S
<1> HIDE DEF H3
<1>6. \A k \in H3 : OwnedByLoci(k) /\ k.event = "SessionEnd" => k \in LegacyEnd(H3)
  <2>1. \A k \in H3 : OwnedByLoci(k) /\ k.event = "SessionEnd" => k.action = "distill"
    BY <1>4 DEF Tidy, Home
  <2> QED BY <2>1 DEF LegacyEnd
<1>7. \A k \in LegacyEnd(H3) : k.event = "SessionEnd"
  BY DEF LegacyEnd
<1>8. \A a \in Actions : Present(C, a)
  <2>1. \A a \in Actions : Home(a) # "SessionEnd"
    BY DEF Home
  <2> QED BY <1>4, <1>7, <2>1 DEF Present
<1>9. Tidy(C) /\ C \in SUBSET Hook
  BY <1>4 DEF Tidy
<1> QED BY <1>5, <1>6, <1>8, <1>9 DEF Complete

\* The hook of an action, when there is one and it is as installed.
LEMMA OneOwned ==
  ASSUME NEW H, Complete(H), NEW a \in Actions
  PROVE  \E k \in H : /\ k.event = Home(a) /\ k.action = a /\ k.command = "ours"
                      /\ \A l \in H : OwnedByLoci(l) /\ l.action = a => l = k
<1>1. PICK k \in H : k.event = Home(a) /\ k.action = a /\ k.command = "ours"
  BY DEF Complete, Present
<1>2. OwnedByLoci(k)
  BY <1>1 DEF OwnedByLoci
<1>3. \A l \in H : OwnedByLoci(l) /\ l.action = a => l = k
  BY <1>1, <1>2 DEF Complete, Tidy
<1> QED BY <1>1, <1>3

LEMMA CompleteSettled ==
  ASSUME NEW H, Complete(H)
  PROVE  Settled(H)
<1>0. H \in SUBSET Hook
  BY DEF Complete
<1>1. ASSUME NEW a \in Actions
      PROVE  Cardinality({k \in H : OwnedByLoci(k) /\ k.action = a}) = 1
  <2>1. PICK k \in H : /\ k.event = Home(a) /\ k.action = a /\ k.command = "ours"
                       /\ \A l \in H : OwnedByLoci(l) /\ l.action = a => l = k
    BY OneOwned
  <2>2. {l \in H : OwnedByLoci(l) /\ l.action = a} = {k}
    BY <2>1 DEF OwnedByLoci
  <2> QED BY <2>2, FS_Singleton
<1>2. StopInstalled(H) = H
  <2> DEFINE old == {k \in H : k.event = "Stop" /\ OwnedByLoci(k) /\ k.action = "index"}
  <2>1. "index" \in Actions /\ Home("index") = "Stop"
    BY DEF Actions, Home
  <2>2. PICK k \in H : /\ k.event = "Stop" /\ k.action = "index" /\ k.command = "ours"
                       /\ \A l \in H : OwnedByLoci(l) /\ l.action = "index" => l = k
    BY <2>1, OneOwned
  <2>3. old = {k}
    BY <2>2 DEF OwnedByLoci
  <2>4. [k EXCEPT !.command = "ours"] = k
    BY <1>0, <2>2 DEF Hook
  <2>5. StopInstalled(H) = (H \ old) \cup {[x EXCEPT !.command = "ours"] : x \in old}
    BY <2>3 DEF StopInstalled
  <2> HIDE DEF old
  <2> QED BY <2>2, <2>3, <2>4, <2>5
<1>3. ASSUME NEW a \in {"server", "distill", "prime"}
      PROVE  StartInstalled(H, a) = H
  <2>1. a \in Actions /\ Home(a) = "SessionStart"
    BY DEF Actions, Home
  <2>2. PICK k \in H : /\ k.event = "SessionStart" /\ k.action = a /\ k.command = "ours"
                       /\ \A l \in H : OwnedByLoci(l) /\ l.action = a => l = k
    BY <2>1, OneOwned
  <2>3. OldStarts(H, a) = {k}
    BY <2>2 DEF OldStarts, OwnedByLoci
  <2>4. [k EXCEPT !.command = "ours"] = k
    BY <1>0, <2>2 DEF Hook
  <2> DEFINE c == CHOOSE x \in OldStarts(H, a) : TRUE
  <2>5. c = k
    BY <2>3
  <2>6. StartInstalled(H, a) = (H \ {c}) \cup {[c EXCEPT !.command = "ours"]}
    BY <2>3 DEF StartInstalled
  <2> HIDE DEF c
  <2> QED BY <2>2, <2>4, <2>5, <2>6
<1>4. LegacyEnd(H) = {}
  BY DEF Complete, LegacyEnd
<1>5. ClaudeInstalled(H) = H \ LegacyEnd(H)
  BY <1>2, <1>3 DEF ClaudeInstalled
<1> QED BY <1>1, <1>4, <1>5 DEF Settled

\* Claude's settings are tidy, as they are and as they were read, and settled when
\* an installation was the last to write them.
Tidiness ==
    harness = "claude" =>
        /\ Tidy(Hooks(file)) /\ \A p \in Procs : Tidy(Hooks(seen[p]))
        /\ last = "install" => Settled(Hooks(file))

LEMMA NoneTidy ==
  /\ Tidy({}) /\ Hooks(NoFile) = {} /\ Hooks(Torn) = {}
  /\ \A H : Hooks(Json(H)) = H
BY DEF Tidy, Hooks, NoFile, Torn, Json

LEMMA ResultTidy ==
  ASSUME NEW H \in SUBSET Hook, Tidy(H), NEW o \in {"install", "uninstall"}
  PROVE  /\ Tidy(Result(H, "claude", o))
         /\ o = "install" => Settled(Result(H, "claude", o))
<1>1. CASE o = "install"
  <2>1. Result(H, "claude", o) = ClaudeInstalled(H)
    BY <1>1 DEF Result, Installed
  <2> QED BY <2>1, InstalledComplete, CompleteSettled DEF Complete
<1>2. CASE o = "uninstall"
  BY <1>2 DEF Result, Uninstalled, Tidy
<1> QED BY <1>1, <1>2

LEMMA InitTidy == FoundTidy /\ Init => Tidiness
<1> SUFFICES ASSUME FoundTidy, Init, harness = "claude"
             PROVE  Tidiness
  BY DEF Tidiness
<1>1. file = NoFile \/ \E H \in Found : file = Json(H)
  BY DEF Init, Dedicated
<1>2. Tidy(Hooks(file))
  BY <1>1, NoneTidy DEF FoundTidy
<1>3. \A p \in Procs : seen[p] = NoFile
  BY DEF Init
<1> QED BY <1>2, <1>3, NoneTidy DEF Init, Tidiness

LEMMA StepTidy == TypeOK /\ Inv /\ Tidiness /\ [Next]_vars => Tidiness'
<1> SUFFICES ASSUME TypeOK, Inv, Tidiness, [Next]_vars, harness' = "claude"
             PROVE  Tidiness'
  BY DEF Tidiness
<1>0. harness = "claude"
  BY DEF Next, Step, ReadSettings, LooksForBackup, Rotate, Copy, Replace, ReadDedicated,
         OpenDedicated, WriteDedicated, Unlink, Crash, Edit, Terminated, vars
<1>1. ~Dedicated
  BY <1>0 DEF Dedicated
<1>2. CASE UNCHANGED vars
  BY <1>2 DEF vars, Tidiness
<1>3. CASE Edit
  <2>1. seen' = seen /\ last' = "edit"
    BY <1>3 DEF Edit
  <2>2. Tidy(Hooks(file'))
    <3>1. PICK m : file' = Torn \/ file' = Json(Hooks(file) \cup
                      {[event |-> "SessionStart", matcher |-> m, action |-> "none",
                        command |-> "users"]})
      BY <1>1, <1>3 DEF Edit
    <3> DEFINE u == [event |-> "SessionStart", matcher |-> m, action |-> "none",
                     command |-> "users"]
    <3>2. ~OwnedByLoci(u)
      BY DEF OwnedByLoci
    <3> HIDE DEF u
    <3>3. Tidy(Hooks(file) \cup {u})
      BY <1>0, <3>2 DEF Tidiness, Tidy
    <3> QED BY <3>1, <3>3, NoneTidy DEF u
  <2> QED BY <1>0, <2>1, <2>2 DEF Tidiness
<1>4. ASSUME NEW p \in Procs, Step(p) \/ Crash(p)
      PROVE  Tidiness'
  <2>1. CASE ReadSettings(p)
    <3>1. file' = file /\ last' = last /\ seen' = [seen EXCEPT ![p] = file]
      BY <2>1 DEF ReadSettings
    <3>2. \A q \in Procs : seen'[q] = seen[q] \/ seen'[q] = file
      BY <3>1 DEF TypeOK
    <3> QED BY <1>0, <3>1, <3>2 DEF Tidiness
  <2>2. CASE Replace(p)
    <3>1. seen' = seen
      BY <2>2 DEF Replace
    <3>2. CASE /\ file' = Json(Result(Hooks(seen[p]), harness, op[p]))
               /\ Wrote(p, op[p])
      <4> DEFINE H == Hooks(seen[p])
      <4>1. H \in SUBSET Hook /\ Tidy(H) /\ op[p] \in {"install", "uninstall"}
        BY <1>0, FileFacts DEF TypeOK, Tidiness
      <4>2. Hooks(file') = Result(H, "claude", op[p])
        BY <1>0, <3>2, NoneTidy
      <4>3. last' = "install" => op[p] = "install"
        BY <3>2 DEF Wrote
      <4> HIDE DEF H
      <4>4. Tidy(Hooks(file')) /\ (op[p] = "install" => Settled(Hooks(file')))
        BY <4>1, <4>2, ResultTidy
      <4> QED BY <1>0, <3>1, <4>3, <4>4 DEF Tidiness
    <3>3. CASE UNCHANGED <<file, last>>
      BY <1>0, <3>1, <3>3 DEF Tidiness
    <3> QED BY <2>2, <3>2, <3>3 DEF Replace
  <2>3. CASE ReadDedicated(p)
    BY <1>1, <2>3 DEF ReadDedicated
  <2>4. ~OpenDedicated(p) /\ ~WriteDedicated(p) /\ ~Unlink(p)
    BY <1>1 DEF OpenDedicated, WriteDedicated, Unlink, Inv, Kinds, JsonStages
  <2>5. CASE UNCHANGED <<file, last, seen>>
    BY <1>0, <2>5 DEF Tidiness
  <2> QED BY <1>4, <2>1, <2>2, <2>3, <2>4, <2>5
          DEF Step, LooksForBackup, Rotate, Copy, Crash
<1> QED BY <1>2, <1>3, <1>4 DEF Next, Terminated

\* From a file in which loci's own hooks are as some release installed them, every
\* installation leaves each action exactly once and a second one changes nothing,
\* whatever matchers, virtualenvs and other processes it met (install_hooks).
THEOREM InstallationSettles == FoundTidy => (Spec => []InstallSettles)
<1> SUFFICES ASSUME FoundTidy
             PROVE  Spec => []InstallSettles
  OBVIOUS
<1>1. Init => Tidiness
  BY InitTidy
<1>2. TypeOK /\ Inv /\ Tidiness /\ [Next]_vars => Tidiness'
  BY StepTidy
<1>3. Tidiness => InstallSettles
  BY DEF Tidiness, InstallSettles, Settled, Installed
<1> QED BY <1>1, <1>2, <1>3, TypeCorrect, AlwaysInv, PTL DEF Spec
=============================================================================
