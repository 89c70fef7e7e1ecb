---------------------------- MODULE HookInstall ----------------------------
(***************************************************************************)
(* `greeg hook claude|codex [--uninstall]` (hook.rs, hook_skill.rs) and    *)
(* the protocol by which greeg changes files that are not its own          *)
(* (hook_config.rs): read, compute, lock, check that nothing changed,      *)
(* write a private copy, check again, publish by rename, or by a hard link *)
(* when there was no file.                                                 *)
(*                                                                         *)
(* A command changes the agent's configuration, then the skill file.  Other*)
(* commands do so at the same time, and users and their editors, who know  *)
(* nothing of the lock, replace, rewrite in place or remove either file    *)
(* between any two steps.  A process may die, a call may fail, the power   *)
(* may go.                                                                 *)
(*                                                                         *)
(* Metadata (`unchanged`) are an inode and its link count: a change that   *)
(* keeps both shows in the text, which every check compares too.  What of  *)
(* a configuration is no PreToolUse entry is left out, and so are modes,   *)
(* owners, symlinks and --dry-run.                                         *)
(***************************************************************************)
EXTENDS Naturals, Sequences, SequencesExt, FiniteSets

CONSTANTS
    Procs, NoProc,
    Config, Skill,   \* the two files, in the order a command changes them
    Agent,           \* "claude" or "codex"
    Ours,            \* the handler `greeg hook run`
    Handlers,        \* handlers of users and other programs
    UserConfigs,     \* the configurations users write: sequences of entries
    Skills,          \* the skills users write, of SkillTexts
    \* bounds of the model
    MaxRuns, MaxEdits, MaxFaults

Files == {Config, Skill}

Entry == [matcher : {"Bash", "other", "none"}, extra : BOOLEAN,
          hooks : SUBSET (Handlers \cup {Ours})]

\* "generated" is what this greeg writes; "older" is another version's and
\* `owned`, as "legacy" is; "modified" is a user's.
SkillTexts == {"generated", "older", "legacy", "modified"}
Texts == SkillTexts \cup {"entries", "empty", "torn"}

NamesAssumption ==
    /\ Config # Skill /\ NoProc \notin Procs /\ Ours \notin Handlers
    /\ Agent \in {"claude", "codex"}
BodiesAssumption == UserConfigs \subseteq Seq(Entry) /\ Skills \subseteq SkillTexts
BoundsAssumption == {MaxRuns, MaxEdits, MaxFaults} \subseteq Nat

VARIABLES
    file,     \* what each path names
    durable,  \* what it would name after a power loss
    lock,     \* who holds .greeg-NAME.lock
    proc,
    editing,  \* a file open in an editor that rewrites it in place
    inodes, runs, edits, faults,  \* counters
    want,     \* history: what users last made of their part of each file
    raced     \* history: the files with a change no check could have seen

vars == <<file, durable, lock, proc, editing, inodes, runs, edits, faults, want, raced>>

\* `text`: Empty for a file just truncated; `whole`: its data is on disk.
Body(text, entries) == [text |-> text, entries |-> entries]
Empty == Body("empty", <<>>)
NoFile == [ino |-> 0, links |-> 0, whole |-> TRUE, body |-> Empty]

-----------------------------------------------------------------------------
(* Configurations: edit_claude_config, edit_codex_config *)

IsOurs(e) == Ours \in e.hooks

Had(es, uninstall) ==
    \E i \in DOMAIN es : IsOurs(es[i]) /\ (uninstall \/ es[i].matcher = "Bash")

HookEntry == [matcher |-> "Bash", extra |-> FALSE, hooks |-> {Ours}]

\* An entry that was nothing but the hook goes with it.
Bare(e) == e.hooks \subseteq {Ours} /\ ~e.extra /\ e.matcher # "other"
Without(es) ==
    LET left[i \in 0 .. Len(es)] ==
            IF i = 0 THEN <<>>
            ELSE IF IsOurs(es[i]) /\ Bare(es[i]) THEN left[i - 1]
            ELSE Append(left[i - 1], [es[i] EXCEPT !.hooks = @ \ {Ours}])
    IN  left[Len(es)]

Edited(es, uninstall) ==
    CASE uninstall -> Without(es)
      [] ~uninstall /\ ~Had(es, FALSE) -> Append(es, HookEntry)
      [] OTHER -> es

\* JSON has no empty document, TOML has.
Parses(f) ==
    \/ f.ino = 0 \/ f.body.text = "entries"
    \/ Agent = "codex" /\ f.body.text = "empty"

\* Untouched text is written back as it was, an empty one included.
ConfigBody(f, uninstall) ==
    IF Edited(f.body.entries, uninstall) = f.body.entries THEN f.body
    ELSE Body("entries", Edited(f.body.entries, uninstall))

(* Skills: Skill::read *)

Owned(text) == text \in SkillTexts \ {"modified"}

SkillAct(f, uninstall) ==
    CASE f.ino = 0 -> IF uninstall THEN "check" ELSE "write"
      [] f.ino # 0 /\ ~Owned(f.body.text) -> "preserve"
      [] f.ino # 0 /\ Owned(f.body.text) /\ uninstall -> "remove"
      [] f.ino # 0 /\ Owned(f.body.text) /\ ~uninstall ->
           IF f.body.text = "generated" THEN "check" ELSE "write"

-----------------------------------------------------------------------------
(* Processes *)

\* History: `over`, the files somebody else changed since this command last saw
\* them; `wrote`, those it changed itself.
Idle == [pc |-> "idle", uninstall |-> FALSE, at |-> Config,
         snap |-> [f \in Files |-> NoFile], body |-> Empty, act |-> "check",
         tmp |-> NoFile, result |-> "none", over |-> {}, wrote |-> {}]

OnDisk(b) == [ino |-> 1, links |-> 1, whole |-> TRUE, body |-> b]

Init ==
    /\ \E c \in {NoFile} \cup {OnDisk(Body("entries", es)) : es \in UserConfigs},
          s \in {NoFile} \cup {OnDisk(Body(t, <<>>)) : t \in Skills} :
            file = [f \in Files |-> IF f = Config THEN c ELSE s]
    /\ durable = file /\ want = file
    /\ lock = [f \in Files |-> NoProc]
    /\ proc = [p \in Procs |-> Idle]
    /\ editing = [file |-> Config, ino |-> 0]
    /\ inodes = 1 /\ runs = 0 /\ edits = 0 /\ faults = 0
    /\ raced = {}

At(p) == proc[p].at
Mine(p) == proc[p].snap[At(p)]
Become(p, s) == proc' = [proc EXCEPT ![p] = s]

\* `unchanged`, and the text.
Current(p) ==
    LET f == file[At(p)]
    IN  f.ino = Mine(p).ino /\ f.links = Mine(p).links /\ f.body = Mine(p).body

\* The operation on At(p) is done: on to the skill, or the command ends.
Continue(p, s) ==
    Become(p, IF s.at = Config
              THEN [s EXCEPT !.pc = "apply", !.at = Skill,
                             !.act = SkillAct(s.snap[Skill], s.uninstall),
                             !.body = Body("generated", <<>>), !.tmp = NoFile]
              ELSE [Idle EXCEPT !.result = "ok", !.uninstall = s.uninstall,
                                !.act = s.act, !.over = s.over, !.wrote = s.wrote])

\* An error: the private copy and the lock are dropped.
Fails(p) ==
    /\ lock' = [f \in Files |-> IF lock[f] = p THEN NoProc ELSE lock[f]]
    /\ Become(p, [Idle EXCEPT !.result = "failed"])

\* Becomes s having changed f; the other commands have been overtaken.
Publishes(p, f, s) ==
    proc' = [q \in Procs |-> IF q = p THEN [s EXCEPT !.over = @ \ {f}, !.wrote = @ \cup {f}]
                             ELSE [proc[q] EXCEPT !.over = @ \cup {f}]]

Counters == <<inodes, runs, edits, faults>>
Users == <<editing, want, raced>>

ReadConfig(p) ==
    /\ proc[p].pc = "idle" /\ runs < MaxRuns
    /\ runs' = runs + 1
    /\ \E u \in BOOLEAN :
         LET c == file[Config] IN
         Become(p, IF ~Parses(c) THEN [Idle EXCEPT !.result = "failed"]
                   ELSE [Idle EXCEPT !.pc = "readSkill", !.uninstall = u,
                                     !.snap[Config] = c, !.body = ConfigBody(c, u),
                                     !.act = IF ConfigBody(c, u) = c.body THEN "check"
                                             ELSE "write"])
    /\ UNCHANGED <<file, durable, lock, inodes, edits, faults, Users>>

ReadSkill(p) ==
    /\ proc[p].pc = "readSkill"
    /\ Become(p, [proc[p] EXCEPT !.pc = "apply", !.snap[Skill] = file[Skill],
                                 !.over = @ \ {Skill}])
    /\ UNCHANGED <<file, durable, lock, Counters, Users>>

(* Mutant: what is already as it should be is not looked at again. *)
CheckNothing(p) ==
    /\ proc[p].pc = "apply" /\ proc[p].act \in {"check", "preserve"}
    /\ Continue(p, [proc[p] EXCEPT !.over = @ \ {At(p)}])
    /\ UNCHANGED <<file, durable, lock, Counters, Users>>

\* Config::write of the same text, Skill::apply of what is as it should be.
Check(p) ==
    /\ proc[p].pc = "apply" /\ proc[p].act \in {"check", "preserve"}
    /\ IF proc[p].act = "preserve"
       THEN Continue(p, proc[p]) /\ UNCHANGED lock
       ELSE IF Current(p)
       THEN Continue(p, [proc[p] EXCEPT !.over = @ \ {At(p)}]) /\ UNCHANGED lock
       ELSE Fails(p)
    /\ UNCHANGED <<file, durable, Counters, Users>>

\* `lock`: try_lock, then check_current and one link.
Lock(p) ==
    /\ proc[p].pc = "apply" /\ proc[p].act \in {"write", "remove"}
    /\ IF lock[At(p)] = NoProc /\ Current(p) /\ Mine(p).links <= 1
       THEN /\ lock' = [lock EXCEPT ![At(p)] = p]
            /\ Become(p, [proc[p] EXCEPT !.pc =
                                 IF proc[p].act = "write" THEN "tmp" ELSE "commit"])
       ELSE Fails(p)
    /\ UNCHANGED <<file, durable, Counters, Users>>

\* `prepare`: the private copy.
WriteTmp(p) ==
    /\ proc[p].pc = "tmp"
    /\ inodes' = inodes + 1
    /\ IF file[At(p)].ino = Mine(p).ino /\ file[At(p)].links = Mine(p).links
       THEN /\ Become(p, [proc[p] EXCEPT !.pc = "sync",
                            !.tmp = [ino |-> inodes + 1, links |-> 1, whole |-> FALSE,
                                     body |-> proc[p].body]])
            /\ UNCHANGED lock
       ELSE Fails(p)
    /\ UNCHANGED <<file, durable, runs, edits, faults, Users>>

SyncTmp(p) ==
    /\ proc[p].pc = "sync"
    /\ Become(p, [proc[p] EXCEPT !.pc = "commit", !.tmp.whole = TRUE])
    /\ UNCHANGED <<file, durable, lock, Counters, Users>>

(* Mutant: the lock is trusted, the file not checked again. *)
CheckAgainNot(p) ==
    /\ proc[p].pc = "commit"
    /\ Become(p, [proc[p] EXCEPT !.pc = "publish"])
    /\ UNCHANGED <<file, durable, lock, Counters, Users>>

\* The last check before the change, of `commit` and of `remove`.
CheckAgain(p) ==
    /\ proc[p].pc = "commit"
    /\ IF Current(p)
       THEN Become(p, [proc[p] EXCEPT !.pc = "publish"]) /\ UNCHANGED lock
       ELSE Fails(p)
    /\ UNCHANGED <<file, durable, Counters, Users>>

\* Whether what p is about to do replaces or removes what the path names.
Replaces(p) == proc[p].pc = "publish" /\ Mine(p).ino # 0

Replace(p) ==
    LET f == At(p) IN
    /\ Replaces(p)
    /\ IF proc[p].act = "remove" /\ file[f].ino = 0
       THEN Fails(p) /\ UNCHANGED file
       ELSE /\ file' = [file EXCEPT ![f] = IF proc[p].act = "write" THEN proc[p].tmp ELSE NoFile]
            /\ Publishes(p, f, [proc[p] EXCEPT !.pc = "syncDir"])
            /\ UNCHANGED lock
    /\ UNCHANGED <<durable, Counters, Users>>

\* A hard link does not replace a file somebody made meanwhile.
Link(p) ==
    LET f == At(p) IN
    /\ proc[p].pc = "publish" /\ ~Replaces(p)
    /\ IF file[f].ino # 0
       THEN Fails(p) /\ UNCHANGED file
       ELSE /\ file' = [file EXCEPT ![f] = [proc[p].tmp EXCEPT !.links = 2]]
            /\ Publishes(p, f, [proc[p] EXCEPT !.pc = "unlink"])
            /\ UNCHANGED lock
    /\ UNCHANGED <<durable, Counters, Users>>

\* The path's file has one link again, if it is still ours.
Unlink(p) ==
    LET f == At(p) IN
    /\ proc[p].pc = "unlink"
    /\ file' = IF file[f].ino = proc[p].tmp.ino THEN [file EXCEPT ![f].links = 1] ELSE file
    /\ Become(p, [proc[p] EXCEPT !.pc = "syncDir"])
    /\ UNCHANGED <<durable, lock, Counters, Users>>

(* Mutant: the directory is not synced. *)
SyncNothing(p) ==
    /\ proc[p].pc = "syncDir"
    /\ lock' = [lock EXCEPT ![At(p)] = NoProc]
    /\ Continue(p, proc[p])
    /\ UNCHANGED <<file, durable, Counters, Users>>

SyncDir(p) ==
    LET f == At(p) IN
    /\ proc[p].pc = "syncDir"
    /\ durable' = [durable EXCEPT ![f] = file[f]]
    /\ lock' = [lock EXCEPT ![f] = NoProc]
    /\ Continue(p, proc[p])
    /\ UNCHANGED <<file, Counters, Users>>

-----------------------------------------------------------------------------
(* Faults *)

Busy == {"apply", "tmp", "sync", "commit", "publish", "unlink", "syncDir"}

Faulty == faults < MaxFaults /\ faults' = faults + 1

\* A call fails; after Link the second link may go as the error is returned.
CallFails(p) ==
    LET f == At(p) IN
    /\ proc[p].pc \in Busy /\ Faulty
    /\ Fails(p)
    /\ file' \in {file} \cup IF proc[p].pc = "unlink" /\ file[f].ino = proc[p].tmp.ino
                             THEN {[file EXCEPT ![f].links = 1]} ELSE {}
    /\ UNCHANGED <<durable, inodes, runs, edits, Users>>

\* The kernel drops a dead process's lock; its private copy stays.
Crash(p) ==
    /\ proc[p].pc # "idle" /\ Faulty
    /\ Fails(p)
    /\ UNCHANGED <<file, durable, inodes, runs, edits, Users>>

\* Names not synced may be as before, data not synced is not there.
PowerLoss ==
    /\ Faulty
    /\ \E old \in SUBSET Files :
         file' = [f \in Files |->
                    LET g == IF f \in old THEN durable[f] ELSE file[f]
                    IN  IF g.whole THEN g ELSE [g EXCEPT !.whole = TRUE, !.body.text = "torn"]]
    /\ durable' = file'
    /\ lock' = [f \in Files |-> NoProc]
    /\ proc' = [p \in Procs |-> Idle]
    /\ editing' = [editing EXCEPT !.ino = 0]
    /\ UNCHANGED <<inodes, runs, edits, want, raced>>

-----------------------------------------------------------------------------
(* Users: f becomes g, which no check sees when it was the last one. *)

UserMakes(f, g) ==
    /\ file' = [file EXCEPT ![f] = g]
    /\ durable' = [durable EXCEPT ![f] = g]
    /\ want' = [want EXCEPT ![f] = g]
    /\ raced' = IF \E p \in Procs : At(p) = f /\ Replaces(p) THEN raced \cup {f}
                ELSE raced \ {f}
    /\ proc' = [p \in Procs |-> [proc[p] EXCEPT !.over = @ \cup {f}]]
    /\ UNCHANGED <<lock, runs, faults>>

Bodies(f) == IF f = Config THEN {Body("entries", es) : es \in UserConfigs}
             ELSE {Body(t, <<>>) : t \in Skills}

Edit == edits < MaxEdits /\ edits' = edits + 1

UserReplaces(f) ==
    /\ Edit /\ inodes' = inodes + 1
    /\ \E b \in Bodies(f) : UserMakes(f, [OnDisk(b) EXCEPT !.ino = inodes + 1])
    /\ UNCHANGED editing

UserRemoves(f) ==
    /\ Edit /\ file[f].ino # 0
    /\ UserMakes(f, NoFile)
    /\ UNCHANGED <<inodes, editing>>

\* An editor truncates the file, and writes it later, wherever it is by then.
EditorOpens(f) ==
    /\ Edit /\ file[f].ino # 0 /\ editing.ino = 0
    /\ UserMakes(f, [file[f] EXCEPT !.body = Empty])
    /\ editing' = [file |-> f, ino |-> file[f].ino]
    /\ UNCHANGED inodes

EditorSaves ==
    LET f == editing.file IN
    /\ editing.ino # 0
    /\ editing' = [editing EXCEPT !.ino = 0]
    /\ IF file[f].ino = editing.ino
       THEN \E b \in Bodies(f) : UserMakes(f, [file[f] EXCEPT !.body = b])
       ELSE /\ raced' = raced \cup {f}
            /\ UNCHANGED <<file, durable, want, proc, lock, runs, faults>>
    /\ UNCHANGED <<inodes, edits>>

-----------------------------------------------------------------------------
Command(p) ==
    \/ ReadConfig(p) \/ ReadSkill(p) \/ Check(p) \/ Lock(p)
    \/ WriteTmp(p) \/ SyncTmp(p) \/ CheckAgain(p)
    \/ Replace(p) \/ Link(p) \/ Unlink(p) \/ SyncDir(p)

Next ==
    \/ \E p \in Procs : Command(p) \/ CallFails(p) \/ Crash(p)
    \/ \E f \in Files : UserReplaces(f) \/ UserRemoves(f) \/ EditorOpens(f)
    \/ EditorSaves
    \/ PowerLoss

Spec == Init /\ [][Next]_vars

-----------------------------------------------------------------------------
(* Properties *)

TypeOK ==
    /\ \A f \in Files : /\ lock[f] \in Procs \cup {NoProc}
                        /\ file[f].body.text \in Texts /\ file[f].links \in 0 .. 2
                        /\ file[f].body.entries \in Seq(Entry)
    /\ \A p \in Procs : /\ proc[p].pc \in Busy \cup {"idle", "readSkill"}
                        /\ proc[p].act \in {"check", "write", "remove", "preserve"}
                        /\ proc[p].over \subseteq Files

\* What of a file is its user's.
UserPart(f, g) ==
    IF f = Config THEN Without(g.body.entries)
    ELSE IF g.ino # 0 /\ ~Owned(g.body.text) THEN <<g.body>> ELSE <<>>

\* Commands, however they interleave and fail, leave what users made of a
\* file, but for a change after the last check of a replacement and one an
\* editor wrote to a file that was replaced while it was open.  A file made
\* while greeg creates one is never replaced.
EditsSurvive ==
    \A f \in Files \ raced : UserPart(f, file[f]) = UserPart(f, want[f])

\* A path names a whole file whenever the power goes.
NeverTorn == \A f \in Files : file[f].body.text # "torn"

\* What a command that succeeds says of a file.
AsSaid(uninstall, f, g) ==
    IF f = Config THEN Had(g.body.entries, uninstall) = ~uninstall
    ELSE IF uninstall THEN g.ino = 0 ELSE g.body.text = "generated"

\* When a command says it succeeded, both files are as it says, unless somebody
\* changed them after it was done with them.
OkIsDone ==
    \A p \in Procs :
        proc[p].result = "ok" =>
            /\ Config \in proc[p].over \/ AsSaid(proc[p].uninstall, Config, file[Config])
            /\ Skill \in proc[p].over \/ proc[p].act = "preserve"
               \/ AsSaid(proc[p].uninstall, Skill, file[Skill])

\* And what it changed itself is as it says, and whole, if the power goes
\* afterwards.  What it found done already may yet be lost: another command's
\* rename, not synced before that command failed.
OkIsDurable ==
    \A p \in Procs :
        proc[p].result = "ok" =>
            \A f \in proc[p].wrote \ proc[p].over :
                durable[f].whole /\ AsSaid(proc[p].uninstall, f, durable[f])

=============================================================================
