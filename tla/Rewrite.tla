------------------------------ MODULE Rewrite ------------------------------
(***************************************************************************)
(* What the hook does with a shell command line (greeg: rewrite.rs, hook.rs*)
(* `decide`): which commands of a list become `greeg`, with which words,   *)
(* and when the line is left alone.                                        *)
(*                                                                         *)
(* A word is its text, and its value if it is `--flag=value`; short flags  *)
(* stand alone, not in groups.  A line is a sequence of commands, each     *)
(* with the separator that follows it: how bytes are quoted, split and     *)
(* trimmed is left out, and so is syntax that `list_segments` refuses.     *)
(***************************************************************************)
EXTENDS Naturals, Sequences, SequencesExt

-----------------------------------------------------------------------------
(* The words of a search *)

\* No text: a flag's value that is not there.
NoText == ""

LongFlags == {"--no-ignore", "--hidden", "--color", "--max-filesize", "--include",
              "--exclude", "--from-grep"}
Words ==
    {w \in [text : STRING, value : STRING] : w.value # NoText => w.text \in LongFlags}

Word(text) == [text |-> text, value |-> NoText]
Given(text, value) == [text |-> text, value |-> value]

\* Flags, and what else starts with a dash; "-" alone, which names stdin, does
\* too but is no flag.
Dashes == {"-i", "-n", "-u", "-F", "-t", "-A", "-e", "-Z", "--", "--no-ignore",
           "--hidden", "--color", "--max-filesize", "-r", "-l", "-E", "-s", "-R",
           "--include", "--exclude", "-g", "--from-grep"}
Dashed == Dashes \cup {"-"}
Verbs == {"def"}
Numbers == {"3", "0", "max"}

\* short_flag, long_flag
Kind(text) ==
    CASE text \in {"-i", "-l", "-s", "--no-ignore", "--hidden"} -> "keep"
      [] text = "-n" -> "drop"
      [] text = "--color" -> "color"
      [] text = "-F" -> "fixed"
      [] text = "-u" -> "unrestricted"
      [] text \in {"-t", "-g", "-A", "-e", "--max-filesize"} -> "value"
      [] OTHER -> "unsupported"

NoWords == [flags |-> <<>>, patterns |-> <<>>, positional |-> <<>>, fixed |-> FALSE,
            unrestricted |-> 0, size |-> <<>>, dd |-> FALSE, awaits |-> NoText, err |-> FALSE]

\* Parsed::apply
Apply(p, name, value) ==
    CASE Kind(name) = "keep" -> [p EXCEPT !.flags = Append(@, Word(name))]
      [] Kind(name) = "drop" -> p
      [] Kind(name) = "color" -> [p EXCEPT !.err = value \notin {"never", "always", "auto", "ansi"}]
      [] Kind(name) = "fixed" -> [p EXCEPT !.fixed = TRUE]
      [] Kind(name) = "unrestricted" -> [p EXCEPT !.unrestricted = @ + 1]
      [] Kind(name) = "unsupported" -> [p EXCEPT !.err = TRUE]
      [] name = "-e" -> [p EXCEPT !.patterns = Append(@, value)]
      [] name = "--max-filesize" ->
           [p EXCEPT !.size = Append(@, value), !.err = value \notin Numbers \/ p.size # <<>>]
      [] name = "-A" ->
           [p EXCEPT !.flags = @ \o <<Word(name), Word(value)>>, !.err = value \notin Numbers]
      [] name \in {"-t", "-g"} ->
           [p EXCEPT !.flags = @ \o IF value \in Dashed THEN <<Given(name, value)>>
                                    ELSE <<Word(name), Word(value)>>]

Positional(p, w) == [p EXCEPT !.positional = Append(@, [text |-> w.text, dd |-> p.dd])]

\* One word of `parse`.
Read(p, w) ==
    CASE p.err -> p
      [] ~p.err /\ p.awaits # NoText -> [Apply(p, p.awaits, w.text) EXCEPT !.awaits = NoText]
      [] ~p.err /\ p.awaits = NoText /\ (p.dd \/ w.text \notin Dashes) -> Positional(p, w)
      [] ~p.err /\ p.awaits = NoText /\ ~p.dd /\ w.text = "--" -> [p EXCEPT !.dd = TRUE]
      [] OTHER ->
           IF w.value # NoText THEN IF Kind(w.text) \in {"value", "color"}
                                THEN Apply(p, w.text, w.value) ELSE [p EXCEPT !.err = TRUE]
           ELSE IF Kind(w.text) \in {"value", "color"} THEN [p EXCEPT !.awaits = w.text]
           ELSE Apply(p, w.text, NoText)

Parse(words) == FoldLeft(Read, NoWords, words)

(* Mutant: the pattern goes as it is. *)
GreegWordsPlain(flags, pattern, paths, size) ==
    <<Word("--max-filesize"), Word(size)>> \o flags
    \o [i \in 1 .. 1 + Len(paths) |->
          Word(IF i = 1 THEN pattern.text ELSE paths[i - 1].text)]

\* The loop of `greeg_words`: `--` before the first word that must not read as a
\* flag.
Placed(texts) ==
    LET dd == {i \in DOMAIN texts : texts[i].dd}
        words == [i \in DOMAIN texts |-> Word(texts[i].text)]
    IN  IF dd = {} THEN words ELSE InsertAt(words, Min(dd), Word("--"))

\* greeg_words: `-e` before a pattern spelled like a subcommand.
GreegWords(flags, pattern, paths, size) ==
    LET first == [pattern EXCEPT !.dd = @ \/ pattern.text \in Dashed]
    IN  <<Word("--max-filesize"), Word(size)>> \o flags
        \o (IF ~first.dd /\ first.text \in Verbs THEN <<Word("-e")>> ELSE <<>>)
        \o Placed(<<first>> \o paths)

Declined == [ok |-> FALSE, words |-> <<>>]
Rewritten(words) == [ok |-> TRUE, words |-> words]

\* rewrite_rg
RewriteRg(words) ==
    LET p == Parse(words)
        pattern == IF p.patterns # <<>> THEN [text |-> p.patterns[1], dd |-> FALSE]
                   ELSE p.positional[1]
        paths == IF p.patterns # <<>> THEN p.positional ELSE Tail(p.positional)
        wide == CASE p.unrestricted = 0 -> <<>>
                  [] p.unrestricted = 1 -> <<Word("--no-ignore")>>
                  [] OTHER -> <<Word("--no-ignore"), Word("--hidden")>>
    IN  IF \/ p.err \/ p.awaits # NoText \/ Len(p.patterns) > 1 \/ p.unrestricted > 2
           \/ p.patterns = <<>> /\ p.positional = <<>>
           \/ \E i \in DOMAIN paths : paths[i].text = "-"
        THEN Declined
        ELSE Rewritten(GreegWords(p.flags \o wide \o (IF p.fixed THEN <<Word("-F")>> ELSE <<>>),
                                  pattern, paths,
                                  IF p.size = <<>> THEN "max" ELSE p.size[1]))

-----------------------------------------------------------------------------
(* What a search means: to rg, and to greeg, whose command line takes a    *)
(* first word spelled like a verb for the verb and, but for -e, refuses a  *)
(* value that starts with a dash.                                          *)

\* A flag whose value is the next word.
Opens(w) == w.text \in {"-t", "-g", "-A"} /\ w.value = NoText

\* The flags among some words, each with its value.
Flags(words) ==
    {<<words[i].text, IF Opens(words[i]) THEN words[i + 1].text ELSE words[i].value>> :
       i \in {j \in DOMAIN words : j > 1 => ~Opens(words[j - 1])}}

\* Texts of positional words.
TextsOf(positional) == [i \in DOMAIN positional |-> positional[i].text]

Meaning(p) ==
    LET wide == p.unrestricted
    IN  [flags |-> Flags(p.flags) \cup (IF wide > 0 THEN {<<"--no-ignore", NoText>>} ELSE {})
                                  \cup (IF wide > 1 THEN {<<"--hidden", NoText>>} ELSE {}),
         fixed |-> p.fixed,
         size |-> IF p.size = <<>> THEN "max" ELSE p.size[1],
         texts |-> p.patterns \o TextsOf(p.positional)]

GreegRead(p, w) ==
    IF ~p.err /\ p.awaits \notin {NoText, "-e"} /\ w.text \in Dashes
    THEN [p EXCEPT !.err = TRUE]
    ELSE IF ~p.err /\ p.awaits = NoText /\ ~p.dd /\ p.positional = <<>> /\ p.patterns = <<>>
            /\ w.text \in Verbs
    THEN [p EXCEPT !.err = TRUE]
    ELSE Read(p, w)

GreegReads(words) == FoldLeft(GreegRead, NoWords, words)

SameSearch(words, reply) ==
    reply.ok => LET g == GreegReads(reply.words)
                IN  ~g.err /\ Meaning(g) = Meaning(Parse(words))

-----------------------------------------------------------------------------
(* A recursive grep *)

NoGrep == [recursive |-> FALSE, numbered |-> FALSE, matcher |-> NoText, flags |-> <<>>,
           include |-> <<>>, exclude |-> <<>>, patterns |-> <<>>, positional |-> <<>>,
           dd |-> FALSE, awaits |-> NoText, err |-> FALSE]

\* set_matcher
SetMatcher(g, m) == [g EXCEPT !.matcher = m, !.err = @ \/ g.matcher \notin {NoText, m}]

GrepValued == {"-e", "--include", "--exclude", "-A"}

GrepValue(g, name, value) ==
    CASE name = "-e" -> [g EXCEPT !.patterns = Append(@, value)]
      [] name = "--include" -> [g EXCEPT !.include = Append(@, value)]
      [] name = "--exclude" -> [g EXCEPT !.exclude = Append(@, value)]
      [] name = "-A" -> [g EXCEPT !.flags = @ \o <<Word(name), Word(value)>>,
                                  !.err = @ \/ value \notin Numbers]

GrepFlag(g, name) ==
    CASE name = "-r" -> [g EXCEPT !.recursive = TRUE]
      [] name = "-n" -> [g EXCEPT !.numbered = TRUE]
      [] name \in {"-i", "-l"} -> [g EXCEPT !.flags = Append(@, Word(name))]
      [] name = "-E" -> SetMatcher(g, "E")
      [] name = "-F" -> SetMatcher(g, "F")
      [] OTHER -> [g EXCEPT !.err = TRUE]

\* One word of the loop in `rewrite_grep`.
ReadGrep(g, w) ==
    CASE g.err -> g
      [] ~g.err /\ g.awaits # NoText -> [GrepValue(g, g.awaits, w.text) EXCEPT !.awaits = NoText]
      [] ~g.err /\ g.awaits = NoText /\ (g.dd \/ w.text \notin Dashes) -> Positional(g, w)
      [] ~g.err /\ g.awaits = NoText /\ ~g.dd /\ w.text = "--" -> [g EXCEPT !.dd = TRUE]
      [] OTHER ->
           CASE w.text \in GrepValued /\ w.value # NoText -> GrepValue(g, w.text, w.value)
             [] w.text \in GrepValued /\ w.value = NoText -> [g EXCEPT !.awaits = w.text]
             [] w.text = "--color" ->
                  [g EXCEPT !.err = w.value \notin {NoText, "never", "auto", "always"}]
             [] OTHER -> IF w.value # NoText THEN [g EXCEPT !.err = TRUE] ELSE GrepFlag(g, w.text)

Grep(words) == FoldLeft(ReadGrep, NoGrep, words)

\* Globs given with -g: "not" is an exclusion.
\* grep's exclusions win whatever their order; a later glob wins in greeg.
Globs(include, exclude) ==
    [i \in DOMAIN include |-> <<"only", include[i]>>] \o [i \in DOMAIN exclude |-> <<"not", exclude[i]>>]

\* rewrite_grep; posix_regex is left out.
RewriteGrep(words) ==
    LET g == Grep(words)
        e == g.patterns # <<>>
        pattern == IF e THEN [text |-> g.patterns[1], dd |-> FALSE] ELSE g.positional[1]
        given == IF e THEN g.positional ELSE Tail(g.positional)
        paths == IF given = <<>> THEN <<[text |-> ".", dd |-> FALSE]>> ELSE given
        fixed == IF g.matcher = "F" THEN <<Word("-F")>> ELSE <<>>
    IN  IF \/ g.err \/ g.awaits # NoText \/ ~g.recursive \/ Len(g.patterns) > 1
           \/ ~e /\ g.positional = <<>>
           \/ \E i \in DOMAIN paths : paths[i].text = "-"
        THEN Declined
        ELSE [ok |-> TRUE, words |-> GreegWords(g.flags \o fixed, pattern, paths, "max"),
              globs |-> Globs(g.include, g.exclude)]

\* The files a search looks at: to grep, and to greeg (the last glob that
\* names a file decides; a file no glob names is in if every glob excludes).
GrepTakes(g, file) ==
    /\ \A i \in DOMAIN g.exclude : g.exclude[i] # file
    /\ g.include = <<>> \/ \E i \in DOMAIN g.include : g.include[i] = file

GreegTakes(globs, file) ==
    LET named == {i \in DOMAIN globs : globs[i][2] = file}
    IN  IF named = {} THEN \A i \in DOMAIN globs : globs[i][1] = "not"
        ELSE \E i \in named : globs[i][1] = "only" /\ \A j \in named : j <= i

GrepMeaning(g) ==
    LET p == [NoWords EXCEPT !.flags = g.flags, !.patterns = g.patterns, !.fixed = g.matcher = "F",
                             !.positional = g.positional]
        texts == Meaning(p).texts
    IN  [Meaning(p) EXCEPT !.texts = IF Len(texts) = 1 THEN Append(texts, ".") ELSE texts]

SameGrep(words, reply, files) ==
    reply.ok => LET g == GreegReads(reply.words)
                IN  /\ ~g.err /\ Meaning(g) = GrepMeaning(Grep(words))
                    /\ \A f \in files : GrepTakes(Grep(words), f) = GreegTakes(reply.globs, f)

-----------------------------------------------------------------------------
(* Lines *)

\* `search`: whether it is rg or grep in a form rewritten when alone; `reader`:
\* whether its lines may go to another reader than head ("no"), whatever it
\* searches ("any"), or if its one operand d is a directory ("dir"); `glob`: an
\* unquoted --include glob; `regex`: greeg's matcher takes its pattern; `cd`:
\* the path of `cd PATH`; `moves`: another command that can change directory;
\* `pipe`: what reads it.
Plain == [search |-> "no", reader |-> "no", glob |-> FALSE, regex |-> TRUE, cd |-> "",
          words |-> "x", moves |-> FALSE, env |-> FALSE, pipe |-> "none",
          quiet |-> FALSE, merged |-> FALSE, sep |-> ";"]

\* The commands there are: what is a search is nothing else.
Command ==
    {c \in [search : {"no", "rg", "grep"}, reader : {"no", "any", "dir"}, glob : BOOLEAN,
            regex : BOOLEAN, cd : STRING, words : STRING, moves : BOOLEAN, env : BOOLEAN,
            pipe : {"none", "reader", "head"}, quiet : BOOLEAN, merged : BOOLEAN,
            sep : {";", "&&", "||"}] :
       c.search # "no" => c.cd = "" /\ ~c.moves /\ ~c.env}

\* rewrite_words and into_reader, then the check of redirections.
Reads(c) == c.search # "no" /\ (c.pipe = "reader" => c.reader # "no" /\ ~c.merged)
Alone(c) == Reads(c) /\ ~(c.search = "grep" /\ c.quiet)

\* The path of `cd`s run so far, or that another command may have moved.
Unknown == <<"?">>

Start == [parts |-> <<>>, other |-> FALSE, env |-> FALSE, readers |-> FALSE,
          cds |-> <<>>, at |-> 1]

Takes(s, c) == Alone(c) /\ ~(s.other /\ c.glob)

(* Mutant: what runs before a search is of no matter. *)
PartOfAnywhere(s, c) ==
    [at |-> s.at, afterOther |-> FALSE, piped |-> c.pipe # "none", glob |-> c.glob,
     regex |-> c.regex, lone |-> c.pipe = "reader" /\ c.reader = "dir", cds |-> s.cds]

PartOf(s, c) ==
    [at |-> s.at, afterOther |-> s.other, piped |-> c.pipe # "none", glob |-> c.glob,
     regex |-> c.regex, lone |-> c.pipe = "reader" /\ c.reader = "dir", cds |-> s.cds]

\* One command of the loop in `rewrite_full`.
Walk(s, c) ==
    LET took == Takes(s, c)
        cds == IF took \/ s.cds = Unknown THEN s.cds
               ELSE IF c.cd # "" /\ c.pipe = "none" THEN Append(s.cds, c.cd) ELSE Unknown
    IN  [parts |-> IF took THEN Append(s.parts, PartOf(s, c)) ELSE s.parts,
         other |-> s.other \/ ~took,
         env |-> s.env \/ (~took /\ c.env),
         readers |-> s.readers \/ (Reads(c) /\ c.pipe = "reader"),
         cds |-> IF c.sep # "&&" /\ cds # <<>> THEN Unknown ELSE cds,
         at |-> s.at + 1]

\* By number of commands walked, what the loop knows then.
Walked(line) ==
    LET walked[i \in 0 .. Len(line)] == IF i = 0 THEN Start ELSE Walk(walked[i - 1], line[i])
    IN  walked

RewriteFull(line) ==
    LET s == Walked(line)[Len(line)]
    IN  [ok |-> s.parts # <<>> /\ ~s.env, parts |-> s.parts,
         whole |-> ~s.other /\ ~s.readers]

\* `world.dirs` are the directories as paths from where the line starts;
\* `world.literal` those where no name starts as an unquoted glob does.
Decide(line, agent, world) ==
    LET rw == RewriteFull(line)
        parts == {rw.parts[i] : i \in DOMAIN rw.parts}
    IN  IF /\ ~world.config
           /\ rw.ok
           /\ \A p \in parts : p.regex
           /\ \A p \in parts : p.glob => <<>> \in world.literal
           /\ \A p \in parts : p.lone => p.cds # Unknown /\ Append(p.cds, "d") \in world.dirs
           /\ agent = "codex" => rw.whole
        THEN rw ELSE [ok |-> FALSE, parts |-> <<>>, whole |-> FALSE]

=============================================================================
