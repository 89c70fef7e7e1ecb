------------------------------ MODULE MCAgents ------------------------------
(* What greeg does for an agent: the commands its hook rewrites, the log of *)
(* what came of them (AgentCalls), and the configuration files that install *)
(* the hook (HookInstall).  Nothing is shared between the two, so one moves *)
(* in each behaviour.                                                       *)
EXTENDS AgentCalls, TLC

CONSTANTS
    w1, w2, u1, u2,
    Procs, NoProc, Config, Skill, Agent, Ours, Handlers, UserConfigs, Skills, MaxRuns, MaxEdits, MaxFailures

VARIABLES
    part,
    file, durable, pathLock, proc, editing, made, runs, edits, failures, want, raced

H == INSTANCE HookInstall WITH
        MaxFaults <- MaxFailures, lock <- pathLock, inodes <- made, faults <- failures

installing == <<file, durable, pathLock, proc, editing, made, runs, edits, failures, want, raced>>
parts == <<part, vars, installing>>

ASSUME CallsAssumption ==
    WritersAssumption /\ LimitsAssumption /\ CallAssumption /\ LinesAssumption /\ WordsAssumption
ASSUME InstallAssumption == H!NamesAssumption /\ H!BodiesAssumption /\ H!BoundsAssumption

Rg == [Plain EXCEPT !.search = "rg"]
GrepDir == [Plain EXCEPT !.search = "grep", !.reader = "dir", !.words = "g", !.pipe = "reader"]
GrepGlob == [Plain EXCEPT !.search = "grep", !.glob = TRUE]
GrepAny == [Plain EXCEPT !.search = "grep", !.reader = "any", !.words = "g"]
CdA == [Plain EXCEPT !.cd = "a"]
Make == [Plain EXCEPT !.moves = TRUE]
Export == [Plain EXCEPT !.env = TRUE]

With(c, sep) == [c EXCEPT !.sep = sep]
And(c, d) == <<With(c, "&&"), d>>

MCLines ==
    {<<Rg>>, <<Rg, Rg>>, <<GrepDir>>, <<GrepGlob>>,
     And(CdA, Rg), And(CdA, GrepDir), <<CdA, GrepDir>>, <<With(CdA, "||"), GrepDir>>,
     And(CdA, GrepGlob), And(Make, GrepDir), And(Make, Rg), <<Export, Rg>>,
     <<[Export EXCEPT !.pipe = "head"], Rg>>, And(Rg, GrepDir), And(Rg, GrepGlob),
     <<With(CdA, "&&"), With(CdA, "&&"), GrepDir>>,
     <<With(Rg, "||"), With(Make, "&&"), Rg>>,
     <<With(CdA, "&&"), With(Rg, "||"), GrepDir>>,
     <<[Rg EXCEPT !.pipe = "head"], Rg>>, <<[Rg EXCEPT !.pipe = "reader"]>>,
     <<[GrepAny EXCEPT !.pipe = "reader"]>>, <<[GrepDir EXCEPT !.merged = TRUE]>>,
     <<[GrepAny EXCEPT !.quiet = TRUE], Rg>>, <<[Rg EXCEPT !.regex = FALSE]>>}

\* The line of KnownDirectory's counterexample.
OrLines == {<<With(Rg, "||"), With(CdA, "&&"), GrepDir>>, <<Rg>>}

Everywhere == {<<>>, <<"a">>, <<"a", "a">>}
MCWorlds ==
    {[dirs |-> d, literal |-> l, config |-> FALSE] :
        d \in {{<<>>, <<"d">>}, {<<>>, <<"a">>, <<"a", "d">>},
               {<<>>, <<"a">>, <<"d">>, <<"a", "a">>, <<"a", "a", "d">>}},
        l \in {Everywhere, {<<>>}}}
    \cup {[dirs |-> {<<>>, <<"d">>}, literal |-> Everywhere, config |-> TRUE]}

W(t) == Word(t)
Texts == {W("-i"), W("-t"), W("-g"), W("-A"), W("-e"), W("--"), W("-u"), W("-F"),
          W("--max-filesize"), W("def"), W("3"), W("foo"), W("-n"), W("-"), W("-l"),
          Given("--max-filesize", "3"), Given("--color", "never"), W("--color"), W("never")}
GrepTexts == {W("-r"), W("-e"), W("--"), W("-F"), W("-E"), W("-A"), W("3"), W("def"), W("-i"),
              W("-"), Given("--color", "always"),
              Given("--include", "f1"), Given("--exclude", "f1"), Given("--exclude", "f2"),
              Given("--include", "f2")}

Core == {W("-i"), W("-e"), W("--"), W("def"), W("foo"), W("-g")}
GrepCore == {W("-e"), W("--"), W("def"), Given("--include", "f1"), Given("--exclude", "f1"),
             Given("--exclude", "f2")}

MCWordLists ==
    {<<W("rg")>> \o w : w \in SeqOf(Texts, 3) \cup SeqOf(Core, 4)}
    \cup {<<W("grep"), W("-r")>> \o w : w \in SeqOf(GrepTexts, 3) \cup SeqOf(GrepCore, 4)}

\* The rest of the log's life is explored beside these lines only, with one
\* thing less beside two commands; the others run with nothing but the shell's
\* own choices.
BusyLines == {<<Rg>>, <<Rg, Rg>>}
BusyWorld == [dirs |-> {<<>>, <<"a">>, <<"a", "d">>}, literal |-> Everywhere, config |-> FALSE]
Focus ==
    \/ part = "install"
    \/ line = <<>> /\ now + clears + reads + faults <= 3
    \/ line \in BusyLines /\ world = BusyWorld /\ agent = "claude" /\ now + clears + reads + faults <= 3 - Len(line)
    \/ now = 0 /\ clears = 0 /\ reads = 0 /\ faults = 0 /\ Idle(w2)

\* A hook of somebody else alone, beside ours, and below other metadata.
HookEntry(m, x, hs) == [matcher |-> m, extra |-> x, hooks |-> hs]
MCConfigs == {<<HookEntry("Bash", FALSE, {u1})>>,
              <<HookEntry("other", FALSE, {Ours}), HookEntry("Bash", FALSE, {u1, Ours})>>}

Symmetry == Permutations(Procs)

-----------------------------------------------------------------------------
PartsInit ==
    /\ part \in {"calls", "install"} /\ Init
    /\ IF part = "calls" THEN file = [f \in H!Files |-> H!NoFile] ELSE TRUE
    /\ H!Init

PartsNext ==
    \/ part = "calls" /\ Next /\ UNCHANGED <<part, installing>>
    \/ part = "install" /\ H!Next /\ UNCHANGED <<part, vars>>

PartsSpec == PartsInit /\ [][PartsNext]_parts

(* The log keeps every record for two rotations, rotates a full file only,  *)
(* is read without doubles, and pairs a run with its own hook (stats.rs     *)
(* `append`, `read`).                                                       *)
LogSound == Kept /\ RotatedFull /\ ReadOnce /\ OwnHook

(* Installs and uninstalls, however they interleave and fail, leave what    *)
(* users made of a file, and never a torn one (hook_config.rs `commit`).    *)
EditsSurvive == H!EditsSurvive /\ H!NeverTorn

(* A command that says it succeeded has done both files, and what it        *)
(* changed itself is there, whole, if the power goes (hook.rs `install`,    *)
(* `uninstall`, hook_config.rs `Pending::commit`, `Config::remove`).        *)
OkIsDone == H!OkIsDone /\ H!OkIsDurable
=============================================================================
