----------------------------- MODULE AgentCalls -----------------------------
(***************************************************************************)
(* An agent's Bash call, from its hook to its statistics (greeg: hook.rs   *)
(* `run`, main.rs, stats.rs): the hook decides what becomes of the line,   *)
(* replies, and records what it rewrote; the shell then runs the line, and *)
(* every greeg in it records its run.  Composes Rewrite and StatsLog, with *)
(* other processes that write to the same log.                             *)
(***************************************************************************)
EXTENDS Rewrite, StatsLog

CONSTANTS
    Call,        \* the writer that is this call's hook, then its greeg processes
    Lines0,      \* lines an agent may send
    Worlds,      \* what the hook and the shell find in the file system
    Agents,      \* who sends them
    WordLists,   \* rg and grep commands given to `hook explain`
    Names,       \* files those commands may select
    MaxCalls     \* bound: lines sent

CallAssumption == Call \in Writers /\ MaxCalls \in Nat
LinesAssumption == Lines0 \subseteq Seq(Command)
WordsAssumption == WordLists \subseteq Seq(Words) \ {<<>>}

VARIABLES
    pc,          \* "idle", "hook" (its records are due), "shell", "greeg" or "explained"
    line, world, agent, rw,
    at, cwd, status, env,     \* the shell: its next command, directory, last status
    due,         \* records the hook has still to append
    ran,         \* history: by command, where each rewritten command ran
    calls, reply

shell == <<pc, line, world, agent, rw, at, cwd, status, env, due, ran, calls, reply>>
vars == <<shell, log>>

Init ==
    /\ LogInit
    /\ pc = "idle" /\ line = <<>> /\ world = (CHOOSE w \in Worlds : TRUE) /\ agent = "claude"
    /\ rw = Declined /\ at = 1 /\ cwd = <<>> /\ status = "ok" /\ env = FALSE
    /\ due = {} /\ ran = {} /\ calls = 0 /\ reply = <<>>

\* pair_id: a directory and words.
Id(dir, c) == <<dir, c.words>>

\* run, up to its reply: a declined line runs as it was and leaves no trace.
Ask(l, a, w) ==
    /\ calls < MaxCalls /\ calls' = calls + 1
    /\ line' = l /\ agent' = a /\ world' = w
    /\ rw' = Decide(l, a, w)
    /\ pc' = IF Decide(l, a, w).ok THEN "hook" ELSE "idle"
    /\ due' = {p \in Range(Decide(l, a, w).parts) : ~p.afterOther /\ ~p.piped}
    /\ at' = 1 /\ cwd' = <<>> /\ status' = "ok" /\ env' = FALSE /\ ran' = {}
    /\ UNCHANGED <<log, reply>>

By(i) == <<calls, i>>

RecordHook ==
    /\ pc = "hook"
    /\ \E p \in due :
         /\ \A q \in due : p.at <= q.at
         /\ Record(Call, Hook(Id(<<>>, line[p.at]), By(p.at), now))
         /\ due' = due \ {p}
    /\ UNCHANGED <<pc, line, world, agent, rw, at, cwd, status, env, ran, calls, reply>>

\* The hook's process ends; the host runs the line it replied.
HookEnds ==
    /\ pc = "hook" /\ due = {} /\ Idle(Call)
    /\ pc' = "shell"
    /\ UNCHANGED <<line, world, agent, rw, at, cwd, status, env, due, ran, calls, reply, log>>

\* A hook that dies makes the host run the line as it was.
HookDies ==
    /\ pc = "hook" /\ Killed(Call)
    /\ pc' = "idle" /\ due' = {}
    /\ UNCHANGED <<line, world, agent, rw, at, cwd, status, env, ran, calls, reply>>

-----------------------------------------------------------------------------
(* The shell *)

Between == IF at = 1 THEN ";" ELSE line[at - 1].sep
Skipped == \/ Between = "&&" /\ status = "fail"
           \/ Between = "||" /\ status = "ok"
Rewrites(i) == \E k \in DOMAIN rw.parts : rw.parts[k].at = i

\* The command at `at` ends, or is not run.
Past == at' = at + 1
InShell == pc = "shell" /\ at <= Len(line)

Skip ==
    /\ InShell /\ Skipped /\ Past
    /\ UNCHANGED <<pc, line, world, agent, rw, cwd, status, env, due, ran, calls, reply, log>>

Cd ==
    /\ InShell /\ ~Skipped /\ line[at].cd # "" /\ line[at].pipe = "none"
    /\ IF Append(cwd, line[at].cd) \in world.dirs
       THEN cwd' = Append(cwd, line[at].cd) /\ status' = "ok"
       ELSE status' = "fail" /\ UNCHANGED cwd
    /\ Past
    /\ UNCHANGED <<pc, line, world, agent, rw, env, due, ran, calls, reply, log>>

\* A command the hook left alone; the shell runs a piped one in a process of its own.
Other ==
    /\ InShell /\ ~Skipped /\ ~Rewrites(at) /\ ~(line[at].cd # "" /\ line[at].pipe = "none")
    /\ \E to \in IF line[at].moves /\ line[at].pipe = "none" THEN {cwd, <<"elsewhere">>} ELSE {cwd} :
           cwd' = to
    /\ env' = (env \/ (line[at].env /\ line[at].pipe = "none"))
    /\ \E s \in {"ok", "fail"} : status' = s
    /\ Past
    /\ UNCHANGED <<pc, line, world, agent, rw, due, ran, calls, reply, log>>

\* record_run, at the end of a greeg process.
Greeg ==
    /\ InShell /\ ~Skipped /\ Rewrites(at)
    /\ Record(Call, Run(Id(cwd, line[at]), By(at), now))
    /\ ran' = ran \cup {[at |-> at, cwd |-> cwd, env |-> env]}
    /\ pc' = "greeg"
    /\ UNCHANGED <<line, world, agent, rw, at, cwd, status, env, due, calls, reply>>

\* Its status is the search's, with or without a record.
GreegEnds ==
    /\ pc = "greeg" /\ ((Idle(Call) /\ UNCHANGED log) \/ Killed(Call))
    /\ \E s \in {"ok", "fail"} : status' = s
    /\ pc' = "shell" /\ Past
    /\ UNCHANGED <<line, world, agent, rw, cwd, env, due, ran, calls, reply>>

LineEnds ==
    /\ pc = "shell" /\ at > Len(line)
    /\ pc' = "idle"
    /\ UNCHANGED <<line, world, agent, rw, at, cwd, status, env, due, ran, calls, reply, log>>

-----------------------------------------------------------------------------

\* `greeg hook explain` on one simple command, apart from everything else.
Untouched == pc = "idle" /\ calls = 0 /\ now = 0 /\ clears = 0 /\ reads = 0

Explain(w) ==
    /\ pc' = "explained"
    /\ reply' = <<w, IF w[1].text = "rg" THEN RewriteRg(Tail(w)) ELSE RewriteGrep(Tail(w))>>
    /\ UNCHANGED <<line, world, agent, rw, at, cwd, status, env, due, ran, calls, log>>

\* Another session runs the same command, or greeg by hand.
Elsewhere(w, kind) ==
    /\ w # Call /\ pc \in {"hook", "shell", "greeg"}
    /\ \A a \in acked : a.rec.by # <<w>>
    /\ Record(w, [kind |-> kind, id |-> <<<<>>, "x">>, by |-> <<w>>, ts |-> now])
    /\ UNCHANGED shell

Next ==
    \/ pc = "idle" /\ \E l \in Lines0, a \in Agents, w \in Worlds : Ask(l, a, w)
    \/ RecordHook \/ HookEnds \/ HookDies
    \/ Skip \/ Cd \/ Other \/ Greeg \/ GreegEnds \/ LineEnds
    \/ Untouched /\ \E w \in WordLists : Explain(w)
    \/ \E w \in Writers, k \in {"hook", "run"} : Elsewhere(w, k)
    \/ LogNext /\ UNCHANGED shell

Spec == Init /\ [][Next]_vars

-----------------------------------------------------------------------------

(* What the hook checked still holds where each rewritten command runs: no
   command before it changed the environment it is read in, an unquoted glob
   reaches it as it was written, a lone path is the directory it was, a
   recorded command runs in the directory its record names (so that it pairs
   and can be replayed), and Codex, which runs a rewrite unasked, runs nothing
   but what was rewritten.  Lines with `||` are excepted for the lone path:
   see KnownDirectory. *)
RunsAsChecked ==
    \A r \in ran :
        LET p == CHOOSE q \in Range(rw.parts) : q.at = r.at IN
        /\ ~r.env
        /\ p.glob => r.cwd \in world.literal
        /\ ~p.afterOther => r.cwd = <<>>
        /\ p.lone /\ (\A i \in DOMAIN line : line[i].sep # "||") => Append(r.cwd, "d") \in world.dirs
        /\ agent = "codex" => \A i \in DOMAIN line : Rewrites(i)

(* rewrite.rs says a later command runs in the directory of the `cd`s before
   it "only if each of them succeeded", and takes that for granted where every
   separator after one is `&&`: a grep whose lone path was found to be a
   directory is run where it is one. *)
KnownDirectory ==
    \A r \in ran :
        LET p == CHOOSE q \in Range(rw.parts) : q.at = r.at IN
        p.lone => Append(r.cwd, "d") \in world.dirs

(* Whatever rg or grep would have searched for, in which files and with which
   options, is what greeg makes of the words it is given instead: no pattern
   is taken for a subcommand or a flag, no value for a flag, and grep's
   exclusions still win over its inclusions. *)
SameAsAsked ==
    pc = "explained" =>
        IF reply[1][1].text = "rg" THEN SameSearch(Tail(reply[1]), reply[2])
        ELSE SameGrep(Tail(reply[1]), reply[2], Names)

=============================================================================
