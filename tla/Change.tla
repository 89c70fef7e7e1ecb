------------------------------- MODULE Change -------------------------------
(***************************************************************************)
(* What a checkout changed (greeg-query: change.rs `changes`,              *)
(* `changed_defs`): git's line ranges on either side of each file, and the *)
(* definitions those lines touch, found again on the other side by kind,   *)
(* scope and name.  The work tree is read after git has compared it, so it *)
(* may have been edited in between.                                        *)
(***************************************************************************)
EXTENDS Integers, Sequences, FiniteSets, FiniteSetsExt, SequencesExt

CONSTANTS
    Olds,        \* what the file may be at the base, or Absent
    News,        \* what it may be in the work tree, or Absent
    Absent,
    MaxChanges   \* bound: edits after git compared the sides

VARIABLES
    old, new,    \* the file at the base and in the work tree
    stage,       \* "compare", "read" or "reported"
    hunks,       \* changed lines of the two sides: ChangedFile.old_lines, new_lines
    compared,    \* history: the work tree git compared
    changed,     \* ChangedFile.defs
    changes      \* edits after the comparison

diff == <<old, new, stage, hunks, compared, changed, changes>>

-----------------------------------------------------------------------------
(* A text is a sequence of definitions; each has a declaration line and a   *)
(* body line, and lies in a class declared before it or at top level.  A    *)
(* class spans its members.                                                 *)

Declaration(d) == [in |-> d.in, kind |-> d.kind, name |-> d.name, sig |-> d.sig]
Body(d) == [in |-> d.in, body |-> d.body]
LinesOf(text) ==
    [n \in 1 .. 2 * Len(text) |->
        LET d == text[(n + 1) \div 2] IN IF n % 2 = 1 THEN Declaration(d) ELSE Body(d)]

First(i) == 2 * i - 1
Members(text, i) == {j \in DOMAIN text : j > i /\ text[j].in = text[i].name /\ text[i].kind \in {"class", "impl"}}
End(text, i) == 2 * Max({i} \cup Members(text, i))
Spans(text, i, n) == First(i) <= n /\ n <= End(text, i)

\* What a file may be: a class that begins within another ends within it.
Nested(text) == \A i, j \in DOMAIN text : i < j /\ First(j) <= End(text, i) => End(text, j) <= End(text, i)
Assumption == \A t \in Olds \cup News : t # Absent => t \in Seq({t[i] : i \in DOMAIN t}) /\ Nested(t)

\* Side::innermost: the shortest span, the first of those.
Innermost(text, n) ==
    LET holds == {i \in DOMAIN text : Spans(text, i, n)}
        size(i) == End(text, i) - First(i)
    IN CHOOSE i \in holds : \A j \in holds : size(i) < size(j) \/ (size(i) = size(j) /\ i <= j)

Touched(text, lines) == {Innermost(text, n) : n \in lines}
Key(d) == <<d.kind, d.in, d.name>>
Scope(d) == <<d.kind, d.in>>

\* The first definition of a side with a key, or 0.
Find(text, key) ==
    LET found == {i \in DOMAIN text : Key(text[i]) = key}
    IN IF found = {} THEN 0 ELSE Min(found)

-----------------------------------------------------------------------------
(* git diff -U0: the lines that a longest common subsequence leaves out; of *)
(* several, git takes one or another.                                       *)
Alignments(a, b) ==
    LET x == LinesOf(a) y == LinesOf(b)
        equal == {p \in (1 .. Len(x)) \X (1 .. Len(y)) : x[p[1]] = y[p[2]]}
        rising == {s \in SUBSET equal : \A p, q \in s : p # q => (p[1] < q[1] /\ p[2] < q[2]) \/ (q[1] < p[1] /\ q[2] < p[2])}
    IN {s \in rising : \A t \in rising : Cardinality(t) <= Cardinality(s)}

LinesIn(text) == IF text = Absent THEN {} ELSE 1 .. Len(LinesOf(text))
Diffs(a, b) ==
    IF a = Absent \/ b = Absent THEN {[old |-> LinesIn(a), new |-> LinesIn(b)]}
    ELSE {[old |-> LinesIn(a) \ {p[1] : p \in s}, new |-> LinesIn(b) \ {p[2] : p \in s}] : s \in Alignments(a, b)}

-----------------------------------------------------------------------------
(* changed_defs *)

Report(side, text, i, how, other) ==
    [side |-> side, at |-> i, line |-> First(i), kind |-> text[i].kind, in |-> text[i].in,
     name |-> text[i].name, change |-> how, other |-> other]

\* modified: definition i of the old side became definition j of the new one.
Modified(o, i, n, j) ==
    Report("new", n, j, IF o[i].sig = n[j].sig THEN "body" ELSE "signature", i)

TouchedIn(text, lines) == Touched(text, lines \cap LinesIn(text))
FoundNew(o, n, i) == Find(n, Key(o[i]))

\* By definition of the new side, the touched old ones found there; the first
\* of them is compared with it.
Became(o, n, j) == {i \in TouchedIn(o, hunks.old) : FoundNew(o, n, i) = j}
Gone(o, n) == {i \in TouchedIn(o, hunks.old) : FoundNew(o, n, i) = 0}
Come(o, n) == {j \in TouchedIn(n, hunks.new) : Find(o, Key(n[j])) = 0}

\* The old side is walked in the order of its changed lines.
FirstTouched(o, S) ==
    CHOOSE i \in S : \E l \in hunks.old \cap LinesIn(o) :
        Innermost(o, l) = i /\ \A m \in hunks.old \cap LinesIn(o) : m < l => Innermost(o, m) \notin S

Modifications(o, n) ==
    {Modified(o, FirstTouched(o, Became(o, n, j)), n, j) : j \in {k \in DOMAIN n : Became(o, n, k) # {}}}
    \cup {Modified(o, Find(o, Key(n[j])), n, j) :
            j \in {k \in TouchedIn(n, hunks.new) : Became(o, n, k) = {} /\ Find(o, Key(n[k])) # 0}}

\* The only removed and the only added definition of one kind in one scope.
RenamedFrom(o, n, j) ==
    LET olds == {i \in Gone(o, n) : Scope(o[i]) = Scope(n[j])}
        news == {k \in Come(o, n) : Scope(n[k]) = Scope(n[j])}
    IN IF Cardinality(olds) = 1 /\ Cardinality(news) = 1 THEN olds ELSE {}

Additions(o, n) ==
    {IF RenamedFrom(o, n, j) # {} THEN Report("new", n, j, "renamed", Min(RenamedFrom(o, n, j)))
     ELSE Report("new", n, j, "added", 0) : j \in Come(o, n)}
RemovalsGuessed(o, n) ==
    {Report("old", o, i, "removed", 0) :
        i \in {k \in Gone(o, n) : ~\E j \in Come(o, n) : Scope(o[k]) = Scope(n[j])}}
Removals(o, n) ==
    {Report("old", o, i, "removed", 0) :
        i \in Gone(o, n) \ UNION {RenamedFrom(o, n, j) : j \in Come(o, n)}}

All(side, text, how) == {Report(side, text, i, how, 0) : i \in DOMAIN text}
NotImpl(defs) == {d \in defs : d.kind # "impl"}

ChangedDefs(o, n) ==
    CASE o = Absent /\ n = Absent -> {}
      [] o = Absent /\ n # Absent -> NotImpl(All("new", n, "added"))
      [] o # Absent /\ n = Absent -> NotImpl(All("old", o, "removed"))
      [] OTHER -> NotImpl(Modifications(o, n) \cup Additions(o, n) \cup Removals(o, n))

-----------------------------------------------------------------------------
Init ==
    /\ old \in Olds /\ new \in News /\ old # new
    /\ stage = "compare" /\ hunks = [old |-> {}, new |-> {}]
    /\ compared = new /\ changed = {} /\ changes = 0

Compare ==
    /\ stage = "compare" /\ stage' = "read"
    /\ hunks' \in Diffs(old, new)
    /\ compared' = new
    /\ UNCHANGED <<old, new, changed, changes>>

\* The file is edited after git read it, before read_worktree does.
EditWorktree(t) ==
    /\ stage = "read" /\ changes < MaxChanges /\ changes' = changes + 1
    /\ t # new /\ new' = t
    /\ UNCHANGED <<old, stage, hunks, compared, changed>>

\* A file deleted when it was compared is not read.
ReadWorktree ==
    /\ stage = "read" /\ stage' = "reported"
    /\ changed' = ChangedDefs(old, IF compared = Absent THEN Absent ELSE new)
    /\ UNCHANGED <<old, new, hunks, compared, changes>>

Next == Compare \/ ReadWorktree \/ \E t \in News : EditWorktree(t)

Spec == Init /\ [][Next]_diff

-----------------------------------------------------------------------------
Settled == stage = "reported" /\ new = compared /\ old # Absent /\ new # Absent
Sole(text, key) == Cardinality({i \in DOMAIN text : Key(text[i]) = key}) <= 1
Plain(key) == key[1] # "impl" /\ Sole(old, key) /\ Sole(new, key)

(* Each definition is reported once: a new one by one change, an old one    *)
(* removed or renamed, not both, and none of two names, whatever was edited *)
(* meanwhile (change.rs `changed_defs`).                                    *)
ReportedOnce ==
    /\ \A d, e \in changed : d # e => <<d.side, d.at>> # <<e.side, e.at>>
    /\ \A d, e \in changed : d # e /\ d.change = "renamed" =>
          /\ ~(e.change = "renamed" /\ d.other = e.other)
          /\ ~(e.change = "removed" /\ e.at = d.other)

(* Whoever must update uses hears of it: a definition whose declaration is  *)
(* gone from the compared file is removed or renamed, one whose declaration *)
(* differs is reported so with both its sides, and nothing else is          *)
(* (change.rs `DefChange::breaking`, "uses of the old name may break").     *)
BreakingFound ==
    Settled =>
        \A i \in DOMAIN old : LET key == Key(old[i]) j == Find(new, key) IN
            Plain(key) =>
                /\ j = 0 /\ First(i) \in hunks.old =>
                      \E d \in changed : \/ d.change = "removed" /\ d.at = i
                                         \/ d.change = "renamed" /\ d.other = i
                /\ j # 0 => ((old[i].sig # new[j].sig) <=>
                                \E d \in changed : d.change = "signature" /\ d.at = j /\ d.other = i)

(* Every changed line is answered for: the innermost definition it lies in, *)
(* on either side, is reported (change.rs: "the definitions those lines     *)
(* touch on either side").                                                  *)
LinesAnswered ==
    Settled =>
        /\ \A n \in hunks.new : LET j == Innermost(new, n) IN
              new[j].kind # "impl" => \E d \in changed : d.side = "new" /\ d.at = j
        /\ \A n \in hunks.old : LET i == Innermost(old, n) IN
              Plain(Key(old[i])) =>
                \E d \in changed : \/ d.side = "old" /\ d.at = i
                                   \/ d.side = "new" /\ d.other = i

(* "Its declaration changed" (change.rs `DefChange::Signature`): what is    *)
(* reported so is a definition whose declaration line is among the changed  *)
(* ones, on one side or the other.                                          *)
SignatureChanged ==
    Settled =>
        \A d \in changed : d.change = "signature" =>
            First(d.at) \in hunks.new \/ First(d.other) \in hunks.old
=============================================================================
