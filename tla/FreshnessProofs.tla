-------------------------- MODULE FreshnessProofs --------------------------
(***************************************************************************)
(* Proofs about Freshness, for trees of any shape up to its depth, any     *)
(* number of builders and queries, and every bound.                        *)
(*                                                                         *)
(* ChangesShow and AnswerFresh rest on one invariant, IInv.  It says what  *)
(* may be relied on of each thing a process or the index holds:            *)
(*  - of the record of a file (RecordOK): without a doubt, its time is past *)
(*    and the file has its content as long as it has its time;             *)
(*  - of the stamps of directories (StampsOK, Covers): they are no newer    *)
(*    than the directory, and older if something unknown came to it;       *)
(*  - of a check (StatOK, ListOK): what it has seen of the files nobody has *)
(*    touched since it began is still so;                                  *)
(*  - of a file being read (ReadingOK): the bytes are those of its stamp,  *)
(*    if that was old enough.                                              *)
(* A part is stated of a process's record rather than of `proc`, so that a  *)
(* step is a statement about the record it leaves.                         *)
(***************************************************************************)
EXTENDS Freshness, TLAPS

Existed(e) == \A w \in Way(e) : tree[w].stamp # Absent
Gone(e) == ~Reach(e) \/ Below(e) \subseteq hidden

\* The greatest time a directory can have.
Latest == IF "sameTick" \in Changes THEN now ELSE MaxTime + ops + 1

TreeOK ==
    /\ tree[Root].there
    /\ \A e \in Entries : tree[e].there => Existed(e)
    /\ \A f \in Files : tree[f].stamp = Absent <=> tree[f].content = 0
    /\ \A f \in Files : tree[f].content <= ops + 1
    /\ \A d \in Dirs : tree[d].stamp.time <= Latest
    /\ now > 0

\* Of a file's record.
RecordOK(f, r) == r # NoRec =>
    /\ Existed(f)
    /\ r.content <= tree[f].content
    /\ r.symbols # 0 => r.content # 0 /\ r.content <= r.symbols /\ r.symbols <= tree[f].content
    /\ r.doubt = "none" =>
         /\ r.stamp.time < now /\ r.symbols \in {0, r.content}
         /\ tree[f].stamp.time = r.stamp.time =>
              IF r.content = 0 THEN Gone(f) ELSE tree[f].content = r.content

RecordsOK(live) == \A f \in Files : RecordOK(f, live[f])

ExactRec(r, f) == r.content = Truth(f) /\ r.symbols \in {0, Truth(f)}

\* Of directories' stamps.
StampsOK(stamps) ==
    \A d \in Dirs : /\ stamps[d].time <= tree[d].stamp.time
                    /\ stamps[d] # Absent => Existed(d)

\* What is in a directory that is known, and not still to be listed, is known
\* or shows.
Covers(known, stamps, left) ==
    \A e \in Entries \ {Root} :
        Reach(e) /\ e \notin known /\ Parent[e] \in known \ left =>
            \/ Below(e) \subseteq hidden
            \/ stamps[Parent[e]].time < tree[Parent[e]].stamp.time

IndexOK(i) ==
    /\ RecordsOK(i.live)
    /\ StampsOK(i.dirs)
    /\ Covers(Known(i), i.dirs, {})
    /\ i.version > 0 => i.dirs[Root] # Absent
    /\ i.version = 0 => i.live = NoIndex.live /\ i.dirs = NoIndex.dirs

VerifiedOK(i) ==
    /\ i.verified <= now
    /\ i.version > 0 =>
         \A f \in Files \ hidden : ExactRec(i.live[f], f) \/ touched[f] >= i.verified

-----------------------------------------------------------------------------
(* Of a process's record r, with the index i.                               *)

Quiet(r, f) == f \notin r.since \cup hidden

OpenedOK(r, i) ==
    /\ IndexOK(r.opened)
    /\ r.opened.version <= i.version /\ r.opened.epoch <= i.epoch
    /\ r.opened.version = i.version => r.opened.live = i.live /\ r.opened.dirs = i.dirs

ClocksOK(r) ==
    /\ r.checked <= now /\ r.from <= now /\ r.started <= now
    /\ \A f \in r.since : touched[f] >= r.checked

\* An entry that has been looked at, while a check takes stamps.
SeenOK(r, w) ==
    /\ r.saw[w] = Absent => Gone(w)
    /\ w \in Files /\ Quiet(r, w) /\ r.saw[w] # Absent =>
           Reach(w) /\ r.saw[w].time = tree[w].stamp.time
    /\ w \in Dirs => r.saw[w].time <= tree[w].stamp.time

\* What is on the way to a file that is not known showed in its directory.
ShownOK(r) ==
    \A e \in Entries \ {Root} : \A f \in Files :
        /\ e \in Way(f) /\ e \notin Known(r.opened)
        /\ Parent[e] \in Known(r.opened) \ r.left /\ Quiet(r, f) /\ Reach(f)
        => r.opened.dirs[Parent[e]].time < r.saw[Parent[e]].time

StatOK(p, r) == r.pc = "stat" =>
    /\ p \in Queries /\ r.opened.version > 0 /\ r.left \subseteq Known(r.opened)
    /\ r.found = Idle.found /\ r.gone = {} /\ r.dirs = Idle.dirs
    /\ \A w \in Known(r.opened) \ r.left : SeenOK(r, w)
    /\ ShownOK(r)

\* What the index would hold if it were published with what was found.
FoundIn(r) == {f \in Files : r.found[f] # Absent}
StampsIn(r) == [d \in Dirs |-> IF r.dirs[d] # Absent THEN r.dirs[d] ELSE r.opened.dirs[d]]
KnownIn(r) == (Live(r.opened) \ r.gone) \cup FoundIn(r) \cup {d \in Dirs : StampsIn(r)[d] # Absent}
ToList(r) == IF r.pc = "list" THEN r.left ELSE {}

\* A file nobody has touched is known, or a directory on its way is to be listed.
LeadsTo(r) ==
    \A f \in Files : Quiet(r, f) /\ Reach(f) =>
        \A e \in Way(f) \ KnownIn(r) : e # Root /\ Parent[e] \in KnownIn(r) => Parent[e] \in ToList(r)

ListOK(p, r) == r.pc \in {"list", "read", "reading"} =>
    /\ p \in Queries => r.opened.version > 0
    /\ p \in Builders => r.opened = NoIndex
    /\ Root \in KnownIn(r) /\ StampsOK(r.dirs)
    /\ ToList(r) \subseteq Dirs
    /\ \A f \in FoundIn(r) : Existed(f)
    /\ r.gone \subseteq Live(r.opened) /\ \A f \in r.gone : Gone(f)
    /\ \A f \in Live(r.opened) \ (r.gone \cup FoundIn(r)) : Quiet(r, f) => ExactRec(r.opened.live[f], f)
    /\ Covers(KnownIn(r), StampsIn(r), ToList(r))
    /\ LeadsTo(r)

\* Files still to be read, or being read.
Pending(r) == r.left \cup (IF r.pc \in {"reading", "parsing"} THEN {r.cur} ELSE {})

ReadsOK(p, r) == r.pc \in {"read", "reading"} =>
    /\ r.left \subseteq FoundIn(r) /\ r.unsettled \subseteq FoundIn(r) \ Pending(r)
    /\ \A f \in FoundIn(r) \ Pending(r) : r.got[f] # NoRec /\ (Quiet(r, f) => ExactRec(r.got[f], f))
    /\ \A f \in Files \ FoundIn(r) : r.got[f] = NoRec
    /\ \A f \in Files : r.got[f].symbols \in {0, r.got[f].content}

GotOK(p, r) ==
    /\ RecordsOK(r.got)
    /\ p \in Queries => \A f \in Files : ~r.got[f].base
    /\ r.pc \in {"stat", "list"} => r.got = Idle.got /\ r.unsettled = {}

ReadingOK(p, r) == r.pc \in {"reading", "parsing"} =>
    /\ r.cur \in Files \ r.left /\ Existed(r.cur)
    /\ r.bytes # 0 /\ r.bytes <= tree[r.cur].content
    /\ r.before.time < r.started /\ tree[r.cur].stamp.time = r.before.time =>
           tree[r.cur].content = r.bytes
    /\ r.pc = "reading" => r.cur \in FoundIn(r) /\ (Quiet(r, r.cur) => Truth(r.cur) = r.bytes)
    /\ r.pc = "parsing" => r.got[r.cur].content # 0 /\ r.got[r.cur].content <= r.bytes

ParseOK(p, r, i) == r.pc \in {"parse", "parsing"} =>
    /\ p \in Builders /\ r.opened.version > 0
    /\ \A f \in r.left : f \in Files /\ r.got[f].content # 0
    /\ i.epoch = r.opened.epoch =>
         \A f \in Files : i.live[f].base => r.got[f] # NoRec /\ r.got[f].content = i.live[f].content

AnswerOK(p, r) == r.pc = "answer" =>
    /\ r.gone \subseteq Live(r.opened) /\ \A f \in r.gone : Gone(f)
    /\ \A f \in Files : Quiet(r, f) => f \in r.gone \cup FoundIn(r) \/ ExactRec(r.opened.live[f], f)

ProcOK(p, r, i) ==
    /\ OpenedOK(r, i) /\ ClocksOK(r) /\ StatOK(p, r) /\ ListOK(p, r) /\ ReadsOK(p, r)
    /\ GotOK(p, r) /\ ReadingOK(p, r) /\ ParseOK(p, r, i) /\ AnswerOK(p, r)

IInv ==
    /\ TypeOK /\ TreeOK
    /\ IndexOK(index) /\ VerifiedOK(index)
    /\ \A p \in Procs : ProcOK(p, proc[p], index)

-----------------------------------------------------------------------------
(* The way to an entry.                                                     *)

LEMMA WayUp ==
    ASSUME NEW e \in Entries
    PROVE  /\ Way(e) \subseteq Entries /\ e \in Way(e) /\ Root \in Way(e)
           /\ Way(e) \ {e} \subseteq Dirs
           /\ e # Root => Parent[e] \in Dirs /\ Way(e) = {e} \cup Way(Parent[e]) /\ Parent[e] # e
<1>1. Root \in Entries /\ Dirs \subseteq Entries /\ Root \in Dirs
  BY TreeAssumption DEF Entries
<1>2. \A d \in Entries \ {Root} : Parent[d] \in Dirs
  BY TreeAssumption
<1>3. Root \in Way(e)
  BY DepthAssumption
<1>4. CASE e = Root
  BY <1>1, <1>3, <1>4 DEF Way
<1>5. CASE e # Root /\ Parent[e] = Root
  BY <1>1, <1>2, <1>3, <1>5 DEF Way
<1>6. CASE e # Root /\ Parent[e] # Root
  <2>1. /\ Parent[e] \in Entries \ {Root} /\ Parent[Parent[e]] \in Dirs
        /\ Way(e) = {e, Parent[e], Parent[Parent[e]]}
    BY <1>1, <1>2, <1>6 DEF Way
  <2>2. Parent[Parent[e]] = Root
    BY <1>3, <1>6, <2>1
  <2>3. Way(Parent[e]) = {Parent[e], Root}
    BY <1>6, <2>2 DEF Way
  <2> QED BY <1>1, <1>2, <1>3, <1>6, <2>1, <2>2, <2>3
<1> QED BY <1>4, <1>5, <1>6

LEMMA WayOn ==
    ASSUME NEW e \in Entries, NEW w \in Way(e)
    PROVE  w \in Entries /\ Way(w) \subseteq Way(e)
<1>1. w \in Entries
  BY WayUp
<1>2. CASE e = Root
  BY <1>1, <1>2 DEF Way
<1>3. CASE e # Root
  <2>1. Way(e) = {e} \cup Way(Parent[e]) /\ Parent[e] \in Entries
    BY <1>3, WayUp, TreeAssumption DEF Entries
  <2>2. CASE Parent[e] = Root
    BY <1>1, <2>1, <2>2 DEF Way
  <2>3. CASE Parent[e] # Root
    <3>1. Way(Parent[e]) = {Parent[e]} \cup Way(Parent[Parent[e]]) /\ Parent[Parent[e]] \in Entries
      BY <2>1, <2>3, WayUp, TreeAssumption DEF Entries
    <3>2. Parent[Parent[e]] = Root
      <4>1. Root \in Way(e)
        BY WayUp
      <4> QED BY <1>3, <2>3, <4>1 DEF Way
    <3>3. Way(Root) = {Root}
      BY DEF Way
    <3> QED BY <1>1, <2>1, <3>1, <3>2, <3>3
  <2> QED BY <2>2, <2>3
<1> QED BY <1>2, <1>3

LEMMA BelowOwn ==
    ASSUME NEW f \in Files
    PROVE  f \in Entries /\ f # Root /\ Below(f) = {f}
<1>1. f \in Entries /\ f # Root /\ f \notin Dirs
  BY TreeAssumption DEF Entries
<1>2. \A g \in Files : f \in Way(g) => f = g
  BY <1>1, WayUp DEF Entries
<1> QED BY <1>1, <1>2, WayUp DEF Below

LEMMA BelowOn ==
    ASSUME NEW e \in Entries, NEW w \in Way(e)
    PROVE  Below(e) \subseteq Below(w)
<1> SUFFICES ASSUME NEW f \in Files, e \in Way(f) PROVE w \in Way(f)
  BY DEF Below
<1> QED BY WayOn DEF Entries

LEMMA ReachUp ==
    ASSUME NEW e \in Entries, NEW w \in Way(e), Reach(e)
    PROVE  Reach(w)
BY WayOn DEF Reach, ReachIn

\* On the way to an entry the first that is not in a set has its parent there.
LEMMA Topmost ==
    ASSUME NEW known, Root \in known, NEW e \in Entries, e \notin known
    PROVE  \E w \in Way(e) \ known : w # Root /\ Parent[w] \in known
<1>1. e # Root /\ Parent[e] \in Entries /\ Way(e) = {e} \cup Way(Parent[e]) /\ e \in Way(e)
  BY WayUp, TreeAssumption DEF Entries
<1>2. CASE Parent[e] \in known
  BY <1>1, <1>2
<1>3. CASE Parent[e] \notin known
  <2>1. Parent[e] # Root /\ Parent[e] \in Way(e)
    BY <1>1, <1>3, WayUp
  <2>2. Parent[Parent[e]] = Root
    <3>1. Root \in Way(e)
      BY WayUp
    <3> QED BY <1>1, <2>1, <3>1 DEF Way
  <2> QED BY <1>3, <2>1, <2>2
<1> QED BY <1>2, <1>3

LEMMA GoneUp ==
    ASSUME NEW f \in Files, NEW w \in Way(f), Gone(w)
    PROVE  ~Reach(f) \/ f \in hidden
<1>1. f \in Entries /\ f \in Below(w)
  BY DEF Entries, Below
<1> QED BY <1>1, ReachUp DEF Gone

-----------------------------------------------------------------------------
(* What users do to the tree.                                               *)

TreeType == [Entries -> [there : BOOLEAN, stamp : Stamps, content : Nat]]

ExistedIn(t, e) == \A w \in Way(e) : t[w].stamp # Absent

\* What every change of the tree to t leaves true: it touches no file but
\* those named; a file it changes gets a new content and the present time; and
\* what it makes reachable it hides, or is new and shows in its directory.
Edit(t, files, hides) ==
    /\ t \in TreeType /\ files \subseteq Files /\ hides \subseteq Files
    /\ \A e \in Entries : tree[e].stamp # Absent => t[e].stamp # Absent
    /\ \A f \in Files \ files :
         /\ ReachIn(t, f) <=> Reach(f)
         /\ t[f].content = tree[f].content /\ t[f].stamp.time = tree[f].stamp.time
    /\ \A f \in Files : \/ /\ t[f].content = tree[f].content
                           /\ t[f].stamp.time = tree[f].stamp.time
                        \/ t[f].content = ops + 2 /\ t[f].stamp.time = now
    /\ \A d \in Dirs : tree[d].stamp.time <= t[d].stamp.time
    /\ \A e \in Entries : ReachIn(t, e) /\ ~Reach(e) =>
         \/ Below(e) \subseteq hides
         \/ /\ e # Root /\ ~Existed(e)
            /\ tree[Parent[e]].stamp.time < t[Parent[e]].stamp.time
    /\ t[Root].there
    /\ \A e \in Entries : t[e].there => ExistedIn(t, e)
    /\ \A f \in Files : t[f].stamp = Absent <=> t[f].content = 0
    /\ \A d \in Dirs : t[d].stamp.time <= IF "sameTick" \in Changes THEN now ELSE MaxTime + ops + 2

\* A change that leaves everything where it is.
LEMMA EditInPlace ==
    ASSUME TypeOK, TreeOK, NEW t \in TreeType, NEW files \in SUBSET Files,
           \A e \in Entries : t[e].there = tree[e].there,
           \A e \in Entries : tree[e].stamp # Absent => t[e].stamp # Absent,
           \A f \in Files : t[f].stamp = Absent <=> t[f].content = 0,
           \A f \in Files \ files : t[f].content = tree[f].content
                                    /\ t[f].stamp.time = tree[f].stamp.time,
           \A f \in files : t[f].content = ops + 2 /\ t[f].stamp.time = now,
           \A d \in Dirs : /\ tree[d].stamp.time <= t[d].stamp.time
                           /\ t[d].stamp.time <= IF "sameTick" \in Changes THEN now
                                                 ELSE MaxTime + ops + 2
    PROVE  Edit(t, files, {})
<1>1. Root \in Entries /\ Files \subseteq Entries /\ Dirs \subseteq Entries
  BY TreeAssumption DEF Entries
<1>2. \A e \in Entries : ReachIn(t, e) <=> Reach(e)
  BY WayUp DEF Reach, ReachIn
<1>3. \A e \in Entries : Way(e) \subseteq Entries
  BY WayUp
<1>4. \A e \in Entries : t[e].there => ExistedIn(t, e)
  BY <1>3 DEF TreeOK, Existed, ExistedIn
<1>5. t[Root].there
  BY <1>1 DEF TreeOK
<1> QED BY <1>1, <1>2, <1>4, <1>5 DEF Edit

\* The entry list of a directory: its mtime shows the change, or SameMtime.
LEMMA ListedIs ==
    ASSUME TypeOK, TreeOK, NEW t \in TreeType, NEW d \in Dirs, t[d].stamp = tree[d].stamp
    PROVE  /\ Listed(t, d) \in TreeType
           /\ \A e \in Entries \ {d} : Listed(t, d)[e] = t[e]
           /\ Listed(t, d)[d].there = t[d].there
           /\ Listed(t, d)[d].stamp # Absent
           /\ tree[d].stamp.time <= Listed(t, d)[d].stamp.time
           /\ Listed(t, d)[d].stamp.time <= IF "sameTick" \in Changes THEN now ELSE MaxTime + ops + 2
           /\ SameMtime(d) \/ tree[d].stamp.time < Listed(t, d)[d].stamp.time
<1> DEFINE x == IF "sameTick" \in Changes THEN now ELSE MaxTime + Fresh
<1>1. d \in Entries /\ now \in Nat /\ ops \in Nat /\ MaxTime \in Nat
  BY ScaleAssumption DEF Entries, TypeOK
<1>2. x \in Nat /\ x > 0 /\ x <= IF "sameTick" \in Changes THEN now ELSE MaxTime + ops + 2
  BY <1>1 DEF Fresh, TreeOK
<1>3. tree[d].stamp.time \in Nat /\ tree[d].stamp.time <= Latest
  BY <1>1 DEF TypeOK, TreeOK, Stamps
<1>4. tree[d].stamp.time <= x /\ (SameMtime(d) \/ tree[d].stamp.time < x)
  BY <1>1, <1>3 DEF Latest, Fresh, SameMtime
<1> HIDE DEF x
<1>5. Listed(t, d) = [t EXCEPT ![d].stamp.time = x]
  BY DEF Listed, x
<1>6. /\ Listed(t, d) \in TreeType
      /\ \A e \in Entries \ {d} : Listed(t, d)[e] = t[e]
      /\ Listed(t, d)[d].there = t[d].there
      /\ Listed(t, d)[d].stamp.time = x
  BY <1>1, <1>2, <1>5 DEF TreeType, Stamps
<1>7. Listed(t, d)[d].stamp # Absent
  BY <1>2, <1>6 DEF Absent
<1> QED BY <1>2, <1>4, <1>6, <1>7

LEMMA ParentIs ==
    ASSUME NEW e \in Entries \ {Root}
    PROVE  Parent[e] \in Dirs /\ Parent[e] \in Entries /\ Parent[e] # e
BY WayUp, TreeAssumption DEF Entries

LEMMA DirTimes ==
    ASSUME TypeOK, TreeOK, NEW d \in Dirs
    PROVE  /\ tree[d].stamp.time \in Nat
           /\ tree[d].stamp.time <= IF "sameTick" \in Changes THEN now ELSE MaxTime + ops + 2
<1>1. /\ tree[d].stamp.time \in Nat /\ tree[d].stamp.time <= Latest
      /\ now \in Nat /\ ops \in Nat /\ MaxTime \in Nat
  BY ScaleAssumption DEF TypeOK, TreeOK, Stamps, Entries
<1> QED BY <1>1 DEF Latest

LEMMA WriteEdits ==
    ASSUME TypeOK, TreeOK, NEW f \in Files, Write(f)
    PROVE  Edit(tree', {f}, {}) /\ Change("write", tree', {f}, {})
<1> DEFINE t == [tree EXCEPT ![f].stamp.time = now, ![f].content = Fresh]
<1>1. Change("write", t, {f}, {}) /\ tree' = t
  BY DEF Write, Change
<1>2. f \in Entries /\ f \notin Dirs /\ now \in Nat /\ now > 0 /\ ops \in Nat /\ MaxTime \in Nat
  BY TreeAssumption, ScaleAssumption DEF Entries, TypeOK, TreeOK
<1>3. /\ t \in TreeType /\ \A e \in Entries \ {f} : t[e] = tree[e]
      /\ t[f].there = tree[f].there /\ t[f].stamp.time = now /\ t[f].content = ops + 2
  <2> DEFINE u == [tree EXCEPT ![f].stamp.time = now]
  <2>1. /\ u \in TreeType /\ \A e \in Entries \ {f} : u[e] = tree[e]
        /\ u[f].there = tree[f].there /\ u[f].stamp.time = now
    BY <1>2 DEF TypeOK, TreeType, Stamps
  <2>2. t = [u EXCEPT ![f].content = ops + 2]
    BY DEF Fresh
  <2> HIDE DEF u, t
  <2> QED BY <1>2, <2>1, <2>2 DEF TreeType
<1> HIDE DEF t
<1>4. t[f].stamp # Absent
  BY <1>2, <1>3 DEF Absent
<1>6. \A d \in Dirs : /\ tree[d].stamp.time <= t[d].stamp.time
                      /\ t[d].stamp.time <= IF "sameTick" \in Changes THEN now ELSE MaxTime + ops + 2
  BY <1>2, <1>3, DirTimes DEF Entries
<1>7. \A e \in Files : t[e].stamp = Absent <=> t[e].content = 0
  BY <1>2, <1>3, <1>4 DEF TreeOK, Entries
<1>8. Edit(t, {f}, {})
  BY <1>2, <1>3, <1>4, <1>6, <1>7, EditInPlace DEF Entries
<1> QED BY <1>1, <1>8

LEMMA ReplaceEdits ==
    ASSUME TypeOK, TreeOK, NEW f \in Files, Replace(f)
    PROVE  Edit(tree', {f}, {}) /\ Change("replace", tree', {f}, {})
<1> DEFINE u == [tree EXCEPT ![f].stamp = [time |-> now, ino |-> Fresh], ![f].content = Fresh]
           d == Parent[f]
           t == Listed(u, d)
<1>1. Change("replace", t, {f}, {}) /\ tree' = t
  BY DEF Replace, Change
<1>2. /\ f \in Entries /\ f \notin Dirs /\ f # Root
      /\ now \in Nat /\ now > 0 /\ ops \in Nat /\ MaxTime \in Nat
  BY TreeAssumption, ScaleAssumption DEF Entries, TypeOK, TreeOK
<1>3. d \in Dirs /\ d \in Entries /\ d # f
  BY <1>2, ParentIs
<1>4. /\ u \in TreeType /\ \A e \in Entries \ {f} : u[e] = tree[e]
      /\ u[f].there = tree[f].there /\ u[f].stamp.time = now /\ u[f].content = ops + 2
  <2> DEFINE v == [tree EXCEPT ![f].stamp = [time |-> now, ino |-> ops + 2]]
  <2>1. /\ v \in TreeType /\ \A e \in Entries \ {f} : v[e] = tree[e]
        /\ v[f].there = tree[f].there /\ v[f].stamp.time = now
    BY <1>2 DEF TypeOK, TreeType, Stamps
  <2>2. u = [v EXCEPT ![f].content = ops + 2]
    BY DEF Fresh
  <2> HIDE DEF u, v
  <2> QED BY <1>2, <2>1, <2>2 DEF TreeType
<1> HIDE DEF u, d
<1>5. /\ t \in TreeType /\ \A e \in Entries \ {d} : t[e] = u[e]
      /\ t[d].there = tree[d].there /\ t[d].stamp # Absent
      /\ tree[d].stamp.time <= t[d].stamp.time
      /\ t[d].stamp.time <= IF "sameTick" \in Changes THEN now ELSE MaxTime + ops + 2
  BY <1>3, <1>4, ListedIs
<1> HIDE DEF t
<1>6. t[f].stamp # Absent
  BY <1>2, <1>3, <1>4, <1>5 DEF Absent
<1>7. \A e \in Files : t[e].stamp = Absent <=> t[e].content = 0
  BY <1>2, <1>3, <1>4, <1>5, <1>6, TreeAssumption DEF TreeOK, Entries
<1>8. \A c \in Dirs : /\ tree[c].stamp.time <= t[c].stamp.time
                      /\ t[c].stamp.time <= IF "sameTick" \in Changes THEN now ELSE MaxTime + ops + 2
  BY <1>2, <1>3, <1>4, <1>5, DirTimes DEF Entries
<1>9. /\ \A e \in Entries : t[e].there = tree[e].there
      /\ \A e \in Entries : tree[e].stamp # Absent => t[e].stamp # Absent
  BY <1>2, <1>3, <1>4, <1>5, <1>6
<1>10. /\ \A e \in Files \ {f} : t[e].content = tree[e].content /\ t[e].stamp.time = tree[e].stamp.time
       /\ t[f].content = ops + 2 /\ t[f].stamp.time = now
  BY <1>2, <1>3, <1>4, <1>5, TreeAssumption DEF Entries
<1>11. Edit(t, {f}, {})
  BY <1>5, <1>7, <1>8, <1>9, <1>10, EditInPlace
<1> QED BY <1>1, <1>11

LEMMA NumberAnewEdits ==
    ASSUME TypeOK, TreeOK, NumberAnew
    PROVE  Edit(tree', {}, {}) /\ Change("inodes", tree', {}, {})
<1> DEFINE t == [e \in Entries |-> IF tree[e].stamp = Absent THEN tree[e]
                                   ELSE [tree[e] EXCEPT !.stamp.ino = @ + MaxOps + 2]]
<1>1. Change("inodes", t, {}, {}) /\ tree' = t
  BY DEF NumberAnew, Change
<1>2. MaxOps \in Nat /\ tree \in TreeType
  BY ScaleAssumption DEF TypeOK, TreeType
<1>3. \A e \in Entries :
         /\ t[e] \in [there : BOOLEAN, stamp : Stamps, content : Nat]
         /\ t[e].there = tree[e].there /\ t[e].content = tree[e].content
         /\ t[e].stamp.time = tree[e].stamp.time /\ (t[e].stamp = Absent <=> tree[e].stamp = Absent)
  <2> SUFFICES ASSUME NEW e \in Entries, tree[e].stamp # Absent
      PROVE /\ t[e] \in [there : BOOLEAN, stamp : Stamps, content : Nat]
            /\ t[e].there = tree[e].there /\ t[e].content = tree[e].content
            /\ t[e].stamp.time = tree[e].stamp.time /\ t[e].stamp # Absent
    BY <1>2 DEF TreeType
  <2> DEFINE i == tree[e].stamp.ino + MaxOps + 2
             c == [tree[e] EXCEPT !.stamp.ino = i]
  <2>1. tree[e] \in [there : BOOLEAN, stamp : Stamps, content : Nat] /\ i \in Nat /\ i > 0
    BY <1>2 DEF TreeType, Stamps
  <2>2. t[e] = c
    OBVIOUS
  <2> HIDE DEF i
  <2>3. /\ c \in [there : BOOLEAN, stamp : Stamps, content : Nat]
        /\ c.there = tree[e].there /\ c.content = tree[e].content
        /\ c.stamp.time = tree[e].stamp.time /\ c.stamp.ino = i
    BY <2>1 DEF Stamps
  <2>4. c.stamp # Absent
    BY <2>1, <2>3 DEF Absent
  <2> QED BY <2>2, <2>3, <2>4
<1>4. t \in TreeType
  BY <1>3 DEF TreeType
<1> HIDE DEF t
<1>5. \A f \in Files : t[f].stamp = Absent <=> t[f].content = 0
  BY <1>3 DEF TreeOK, Entries
<1>6. Edit(t, {}, {})
  BY <1>3, <1>4, <1>5, DirTimes, EditInPlace DEF Entries
<1> QED BY <1>1, <1>6

LEMMA RemoveEdits ==
    ASSUME TypeOK, TreeOK, NEW f \in Files, Remove(f)
    PROVE  Edit(tree', {f}, {}) /\ Change("remove", tree', {f}, {})
<1> DEFINE u == [tree EXCEPT ![f].there = FALSE]
           d == Parent[f]
           t == Listed(u, d)
<1>1. Change("remove", t, {f}, {}) /\ tree' = t
  BY DEF Remove, Change
<1>2. /\ f \in Entries /\ f \notin Dirs /\ f # Root /\ tree \in TreeType
  BY TreeAssumption DEF Entries, TypeOK, TreeType
<1>3. d \in Dirs /\ d \in Entries /\ d # f
  BY <1>2, ParentIs
<1>4. /\ u \in TreeType /\ \A e \in Entries \ {f} : u[e] = tree[e]
      /\ u[f].there = FALSE /\ u[f].stamp = tree[f].stamp /\ u[f].content = tree[f].content
  BY <1>2 DEF TreeType
<1> HIDE DEF u, d
<1>5. /\ t \in TreeType /\ \A e \in Entries \ {d} : t[e] = u[e]
      /\ t[d].there = tree[d].there /\ t[d].stamp # Absent
      /\ tree[d].stamp.time <= t[d].stamp.time
      /\ t[d].stamp.time <= IF "sameTick" \in Changes THEN now ELSE MaxTime + ops + 2
  BY <1>3, <1>4, ListedIs
<1> HIDE DEF t
<1>6. \A e \in Entries : /\ t[e].there <=> tree[e].there /\ e # f
                         /\ tree[e].stamp # Absent => t[e].stamp # Absent
  <2> SUFFICES ASSUME NEW e \in Entries
      PROVE (t[e].there <=> tree[e].there /\ e # f) /\ (tree[e].stamp # Absent => t[e].stamp # Absent)
    OBVIOUS
  <2>1. CASE e = d
    BY <1>3, <1>5, <2>1
  <2>2. CASE e = f
    BY <1>3, <1>4, <1>5, <2>2
  <2>3. CASE e \notin {f, d}
    BY <1>4, <1>5, <2>3
  <2> QED BY <2>1, <2>2, <2>3
<1>7. \A e \in Files : t[e].stamp = tree[e].stamp /\ t[e].content = tree[e].content
  BY <1>2, <1>3, <1>4, <1>5, TreeAssumption DEF Entries
<1>8. \A c \in Dirs : /\ tree[c].stamp.time <= t[c].stamp.time
                      /\ t[c].stamp.time <= IF "sameTick" \in Changes THEN now ELSE MaxTime + ops + 2
  BY <1>2, <1>3, <1>4, <1>5, DirTimes DEF Entries
<1>9. \A e \in Entries : ReachIn(t, e) => Reach(e)
  BY <1>6, WayUp DEF Reach, ReachIn
<1>10. \A e \in Files \ {f} : ReachIn(t, e) <=> Reach(e)
  <2> SUFFICES ASSUME NEW e \in Files, e # f, Reach(e) PROVE ReachIn(t, e)
    BY <1>9 DEF Entries
  <2>1. f \notin Way(e) /\ Way(e) \subseteq Entries
    BY <1>2, WayUp DEF Entries
  <2> QED BY <1>6, <2>1 DEF Reach, ReachIn
<1>11. \A e \in Entries : t[e].there => ExistedIn(t, e)
  BY <1>6, WayUp DEF TreeOK, Existed, ExistedIn
<1>12. t[Root].there /\ \A e \in Files : t[e].stamp = Absent <=> t[e].content = 0
  BY <1>2, <1>6, <1>7, TreeAssumption DEF TreeOK, Entries
<1>13. Edit(t, {f}, {})
  BY <1>5, <1>6, <1>7, <1>8, <1>9, <1>10, <1>11, <1>12 DEF Edit
<1> QED BY <1>1, <1>13

LEMMA MoveAwayEdits ==
    ASSUME TypeOK, TreeOK, NEW d \in Dirs, MoveAway(d)
    PROVE  Edit(tree', Below(d), {}) /\ Change("away", tree', Below(d), {})
<1> DEFINE u == [tree EXCEPT ![d].there = FALSE]
           c == Parent[d]
           t == Listed(u, c)
<1>1. Change("away", t, Below(d), {}) /\ tree' = t
  BY DEF MoveAway, Change
<1>2. d \in Entries /\ d # Root /\ tree \in TreeType
  BY DEF Entries, TypeOK, TreeType, MoveAway
<1>3. c \in Dirs /\ c \in Entries /\ c # d
  BY <1>2, ParentIs
<1>4. /\ u \in TreeType /\ \A e \in Entries \ {d} : u[e] = tree[e]
      /\ u[d].there = FALSE /\ u[d].stamp = tree[d].stamp
  BY <1>2 DEF TreeType
<1> HIDE DEF u, c
<1>5. /\ t \in TreeType /\ \A e \in Entries \ {c} : t[e] = u[e]
      /\ t[c].there = tree[c].there /\ t[c].stamp # Absent
      /\ tree[c].stamp.time <= t[c].stamp.time
      /\ t[c].stamp.time <= IF "sameTick" \in Changes THEN now ELSE MaxTime + ops + 2
  BY <1>3, <1>4, ListedIs
<1> HIDE DEF t
<1>6. \A e \in Entries : /\ t[e].there <=> tree[e].there /\ e # d
                         /\ tree[e].stamp # Absent => t[e].stamp # Absent
  <2> SUFFICES ASSUME NEW e \in Entries
      PROVE (t[e].there <=> tree[e].there /\ e # d) /\ (tree[e].stamp # Absent => t[e].stamp # Absent)
    OBVIOUS
  <2>1. CASE e = c
    BY <1>3, <1>5, <2>1
  <2>2. CASE e = d
    BY <1>3, <1>4, <1>5, <2>2
  <2>3. CASE e \notin {d, c}
    BY <1>4, <1>5, <2>3
  <2> QED BY <2>1, <2>2, <2>3
<1>7. \A e \in Files : t[e] = tree[e]
  BY <1>2, <1>3, <1>4, <1>5, TreeAssumption DEF Entries
<1>8. \A e \in Dirs : /\ tree[e].stamp.time <= t[e].stamp.time
                      /\ t[e].stamp.time <= IF "sameTick" \in Changes THEN now ELSE MaxTime + ops + 2
  BY <1>2, <1>3, <1>4, <1>5, DirTimes DEF Entries
<1>9. \A e \in Entries : ReachIn(t, e) => Reach(e)
  BY <1>6, WayUp DEF Reach, ReachIn
<1>10. \A e \in Files \ Below(d) : ReachIn(t, e) <=> Reach(e)
  <2> SUFFICES ASSUME NEW e \in Files, d \notin Way(e), Reach(e) PROVE ReachIn(t, e)
    BY <1>9 DEF Entries, Below
  <2>1. Way(e) \subseteq Entries
    BY <1>2, WayUp DEF Entries
  <2> QED BY <1>6, <2>1 DEF Reach, ReachIn
<1>11. \A e \in Entries : t[e].there => ExistedIn(t, e)
  BY <1>6, WayUp DEF TreeOK, Existed, ExistedIn
<1>12. t[Root].there /\ \A e \in Files : t[e].stamp = Absent <=> t[e].content = 0
  BY <1>2, <1>6, <1>7, TreeAssumption DEF TreeOK, Entries
<1>13. Edit(t, Below(d), {})
  BY <1>5, <1>6, <1>7, <1>8, <1>9, <1>10, <1>11, <1>12 DEF Edit, Below
<1> QED BY <1>1, <1>13

\* What may be reached once x has come: what it holds was below a directory.
LEMMA CameTo ==
    ASSUME TypeOK, TreeOK, NEW t \in TreeType, NEW x \in Entries \ {Root}, Reach(Parent[x]),
           \A e \in Entries : t[e].there <=> tree[e].there \/ e = x,
           \A e \in Entries : tree[e].stamp # Absent => t[e].stamp # Absent,
           t[x].stamp # Absent
    PROVE  /\ \A e \in Entries : Reach(e) => ReachIn(t, e)
           /\ \A e \in Entries : x \notin Way(e) => (ReachIn(t, e) <=> Reach(e))
           /\ \A e \in Entries : t[e].there => ExistedIn(t, e)
           /\ t[Root].there
<1>1. \A e \in Entries : Way(e) \subseteq Entries
  BY WayUp
<1>2. \A e \in Entries : Reach(e) => ReachIn(t, e)
  BY <1>1 DEF Reach, ReachIn
<1>3. \A e \in Entries : x \notin Way(e) => (ReachIn(t, e) <=> Reach(e))
  BY <1>1 DEF Reach, ReachIn
<1>4. \A e \in Entries : tree[e].there => ExistedIn(t, e)
  BY <1>1 DEF TreeOK, Existed, ExistedIn
<1>5. ExistedIn(t, x)
  <2>1. Way(x) = {x} \cup Way(Parent[x]) /\ Parent[x] \in Entries
    BY WayUp, ParentIs
  <2>2. Parent[x] \in Way(Parent[x])
    BY <2>1, WayUp
  <2>3. ExistedIn(t, Parent[x])
    BY <1>4, <2>1, <2>2 DEF Reach, ReachIn
  <2> QED BY <2>1, <2>3 DEF ExistedIn
<1>6. t[Root].there
  BY TreeAssumption DEF TreeOK, Entries
<1> QED BY <1>2, <1>3, <1>4, <1>5, <1>6

LEMMA CreateEdits ==
    ASSUME TypeOK, TreeOK, NEW f \in Files, Create(f)
    PROVE  \E kind : \E hides \in SUBSET Files :
               Edit(tree', {f}, hides) /\ Change(kind, tree', {f}, hides)
<1> DEFINE u == [tree EXCEPT ![f] = [there |-> TRUE, content |-> Fresh,
                                     stamp |-> [time |-> now, ino |-> Fresh]]]
           d == Parent[f]
           t == Listed(u, d)
           hides == IF tree[f].content # 0 \/ SameMtime(d) THEN {f} ELSE {}
           kind == IF tree[f].content = 0 THEN "create" ELSE "again"
<1>1. Change(kind, t, {f}, hides) /\ tree' = t /\ ~tree[f].there /\ Reach(d)
  BY DEF Create, Change
<1>2. /\ f \in Entries /\ f \notin Dirs /\ f # Root /\ tree \in TreeType
      /\ now \in Nat /\ now > 0 /\ ops \in Nat
  BY TreeAssumption DEF Entries, TypeOK, TreeOK, TreeType
<1>3. d \in Dirs /\ d \in Entries /\ d # f
  BY <1>2, ParentIs
<1>4. /\ u \in TreeType /\ \A e \in Entries \ {f} : u[e] = tree[e]
      /\ u[f].there /\ u[f].stamp.time = now /\ u[f].content = ops + 2
  BY <1>2 DEF TreeType, Stamps, Fresh
<1> HIDE DEF u, d
<1>5. /\ t \in TreeType /\ \A e \in Entries \ {d} : t[e] = u[e]
      /\ t[d].there = tree[d].there /\ t[d].stamp # Absent
      /\ tree[d].stamp.time <= t[d].stamp.time
      /\ t[d].stamp.time <= IF "sameTick" \in Changes THEN now ELSE MaxTime + ops + 2
      /\ SameMtime(d) \/ tree[d].stamp.time < t[d].stamp.time
  BY <1>3, <1>4, ListedIs
<1> HIDE DEF t, kind
<1>6. t[f].stamp # Absent
  BY <1>2, <1>3, <1>4, <1>5 DEF Absent
<1>7. \A e \in Entries : /\ t[e].there <=> tree[e].there \/ e = f
                         /\ tree[e].stamp # Absent => t[e].stamp # Absent
  <2> SUFFICES ASSUME NEW e \in Entries
      PROVE (t[e].there <=> tree[e].there \/ e = f) /\ (tree[e].stamp # Absent => t[e].stamp # Absent)
    OBVIOUS
  <2>1. CASE e = d
    BY <1>3, <1>5, <2>1
  <2>2. CASE e = f
    BY <1>3, <1>4, <1>5, <1>6, <2>2
  <2>3. CASE e \notin {f, d}
    BY <1>4, <1>5, <2>3
  <2> QED BY <2>1, <2>2, <2>3
<1>8. \A e \in Files \ {f} : t[e] = tree[e]
  BY <1>2, <1>3, <1>4, <1>5, TreeAssumption DEF Entries
<1>9. t[f].content = ops + 2 /\ t[f].stamp.time = now
  BY <1>2, <1>3, <1>4, <1>5
<1>10. \A e \in Files : t[e].stamp = Absent <=> t[e].content = 0
  BY <1>2, <1>6, <1>8, <1>9 DEF TreeOK
<1>11. \A e \in Dirs : /\ tree[e].stamp.time <= t[e].stamp.time
                       /\ t[e].stamp.time <= IF "sameTick" \in Changes THEN now ELSE MaxTime + ops + 2
  BY <1>2, <1>3, <1>4, <1>5, DirTimes DEF Entries
<1>12. /\ \A e \in Entries : f \notin Way(e) => (ReachIn(t, e) <=> Reach(e))
       /\ \A e \in Entries : t[e].there => ExistedIn(t, e)
       /\ t[Root].there
  BY <1>1, <1>2, <1>5, <1>6, <1>7, CameTo DEF d
<1>13. \A e \in Entries : f \in Way(e) => e = f
  BY <1>2, WayUp
<1>14. \A e \in Files \ {f} : ReachIn(t, e) <=> Reach(e)
  BY <1>12, <1>13 DEF Entries
<1>15. Below(f) \subseteq hides \/ (~Existed(f) /\ tree[d].stamp.time < t[d].stamp.time)
  <2>1. CASE tree[f].content # 0 \/ SameMtime(d)
    BY <2>1, BelowOwn
  <2>2. CASE tree[f].content = 0 /\ ~SameMtime(d)
    BY <1>2, <1>5, <2>2, WayUp DEF TreeOK, Existed
  <2> QED BY <2>1, <2>2
<1>16. hides \subseteq {f}
  OBVIOUS
<1> HIDE DEF hides
<1>17. \A e \in Entries : ReachIn(t, e) /\ ~Reach(e) =>
         \/ Below(e) \subseteq hides
         \/ e # Root /\ ~Existed(e) /\ tree[Parent[e]].stamp.time < t[Parent[e]].stamp.time
  BY <1>2, <1>12, <1>13, <1>15 DEF d
<1>18. Edit(t, {f}, hides)
  BY <1>5, <1>7, <1>8, <1>9, <1>10, <1>11, <1>12, <1>14, <1>16, <1>17 DEF Edit
<1> QED BY <1>1, <1>16, <1>18

LEMMA MoveBackEdits ==
    ASSUME TypeOK, TreeOK, NEW d \in Dirs, MoveBack(d)
    PROVE  Edit(tree', Below(d), Below(d)) /\ Change("back", tree', Below(d), Below(d))
<1> DEFINE u == [tree EXCEPT ![d].there = TRUE]
           c == Parent[d]
           t == Listed(u, c)
<1>1. Change("back", t, Below(d), Below(d)) /\ tree' = t /\ tree[d].stamp # Absent /\ Reach(c)
  BY DEF MoveBack, Change
<1>2. d \in Entries /\ d # Root /\ tree \in TreeType
  BY DEF Entries, TypeOK, TreeType, MoveBack
<1>3. c \in Dirs /\ c \in Entries /\ c # d
  BY <1>2, ParentIs
<1>4. /\ u \in TreeType /\ \A e \in Entries \ {d} : u[e] = tree[e]
      /\ u[d].there /\ u[d].stamp = tree[d].stamp
  BY <1>2 DEF TreeType
<1> HIDE DEF u, c
<1>5. /\ t \in TreeType /\ \A e \in Entries \ {c} : t[e] = u[e]
      /\ t[c].there = tree[c].there /\ t[c].stamp # Absent
      /\ tree[c].stamp.time <= t[c].stamp.time
      /\ t[c].stamp.time <= IF "sameTick" \in Changes THEN now ELSE MaxTime + ops + 2
  BY <1>3, <1>4, ListedIs
<1> HIDE DEF t
<1>6. t[d].stamp # Absent
  BY <1>1, <1>2, <1>3, <1>4, <1>5
<1>7. \A e \in Entries : /\ t[e].there <=> tree[e].there \/ e = d
                         /\ tree[e].stamp # Absent => t[e].stamp # Absent
  <2> SUFFICES ASSUME NEW e \in Entries
      PROVE (t[e].there <=> tree[e].there \/ e = d) /\ (tree[e].stamp # Absent => t[e].stamp # Absent)
    OBVIOUS
  <2>1. CASE e = c
    BY <1>3, <1>5, <2>1
  <2>2. CASE e = d
    BY <1>3, <1>4, <1>5, <1>6, <2>2
  <2>3. CASE e \notin {c, d}
    BY <1>4, <1>5, <2>3
  <2> QED BY <2>1, <2>2, <2>3
<1>8. \A e \in Files : t[e] = tree[e]
  BY <1>2, <1>3, <1>4, <1>5, TreeAssumption DEF Entries
<1>9. \A e \in Files : t[e].stamp = Absent <=> t[e].content = 0
  BY <1>8 DEF TreeOK
<1>10. \A e \in Dirs : /\ tree[e].stamp.time <= t[e].stamp.time
                       /\ t[e].stamp.time <= IF "sameTick" \in Changes THEN now ELSE MaxTime + ops + 2
  BY <1>2, <1>3, <1>4, <1>5, DirTimes DEF Entries
<1>11. /\ \A e \in Entries : d \notin Way(e) => (ReachIn(t, e) <=> Reach(e))
       /\ \A e \in Entries : t[e].there => ExistedIn(t, e)
       /\ t[Root].there
  BY <1>1, <1>2, <1>5, <1>6, <1>7, CameTo DEF c
<1>12. \A e \in Entries : d \in Way(e) => Below(e) \subseteq Below(d)
  BY BelowOn
<1>13. Edit(t, Below(d), Below(d))
  BY <1>5, <1>7, <1>8, <1>9, <1>10, <1>11, <1>12 DEF Edit, Below, Entries
<1> QED BY <1>1, <1>13

LEMMA MakeDirEdits ==
    ASSUME TypeOK, TreeOK, NEW d \in Dirs, MakeDir(d)
    PROVE  \E hides \in SUBSET Files : Edit(tree', {}, hides) /\ Change("create", tree', {}, hides)
<1> DEFINE u == [tree EXCEPT ![d].there = TRUE, ![d].stamp = [time |-> now, ino |-> Fresh]]
           c == Parent[d]
           t == Listed(u, c)
           hides == IF SameMtime(c) THEN Below(d) ELSE {}
<1>1. Change("create", t, {}, hides) /\ tree' = t /\ tree[d].stamp = Absent /\ Reach(c)
      /\ now + Window <= MaxTime
  BY DEF MakeDir, Change
<1>2. /\ d \in Entries /\ tree \in TreeType /\ now \in Nat /\ now > 0 /\ ops \in Nat
      /\ MaxTime \in Nat /\ Window \in Nat
  BY ScaleAssumption DEF Entries, TypeOK, TreeOK, TreeType
<1>3. ~tree[d].there /\ d # Root
  BY <1>1, <1>2, WayUp DEF TreeOK, Existed
<1>4. c \in Dirs /\ c \in Entries /\ c # d
  BY <1>2, <1>3, ParentIs
<1>5. /\ u \in TreeType /\ \A e \in Entries \ {d} : u[e] = tree[e]
      /\ u[d].there /\ u[d].stamp.time = now
  <2> DEFINE v == [tree EXCEPT ![d].there = TRUE]
  <2>1. v \in TreeType /\ (\A e \in Entries \ {d} : v[e] = tree[e]) /\ v[d].there
    BY <1>2 DEF TreeType
  <2> DEFINE s == [time |-> now, ino |-> ops + 2]
  <2>2. u = [v EXCEPT ![d].stamp = s]
    BY DEF Fresh
  <2>3. s \in Stamps /\ s.time = now
    BY <1>2 DEF Stamps
  <2> HIDE DEF u, v, s
  <2> QED BY <1>2, <2>1, <2>2, <2>3 DEF TreeType
<1> HIDE DEF u, c
<1>6. /\ t \in TreeType /\ \A e \in Entries \ {c} : t[e] = u[e]
      /\ t[c].there = tree[c].there /\ t[c].stamp # Absent
      /\ tree[c].stamp.time <= t[c].stamp.time
      /\ t[c].stamp.time <= IF "sameTick" \in Changes THEN now ELSE MaxTime + ops + 2
      /\ SameMtime(c) \/ tree[c].stamp.time < t[c].stamp.time
  BY <1>4, <1>5, ListedIs
<1> HIDE DEF t
<1>7. t[d].stamp # Absent /\ t[d].stamp.time = now /\ tree[d].stamp.time = 0
  BY <1>1, <1>2, <1>4, <1>5, <1>6 DEF Absent
<1>8. \A e \in Entries : /\ t[e].there <=> tree[e].there \/ e = d
                         /\ tree[e].stamp # Absent => t[e].stamp # Absent
  <2> SUFFICES ASSUME NEW e \in Entries
      PROVE (t[e].there <=> tree[e].there \/ e = d) /\ (tree[e].stamp # Absent => t[e].stamp # Absent)
    OBVIOUS
  <2>1. CASE e = c
    BY <1>4, <1>6, <2>1
  <2>2. CASE e = d
    BY <1>2, <1>4, <1>5, <1>6, <1>7, <2>2
  <2>3. CASE e \notin {c, d}
    BY <1>5, <1>6, <2>3
  <2> QED BY <2>1, <2>2, <2>3
<1>9. \A e \in Files : t[e] = tree[e]
  BY <1>2, <1>4, <1>5, <1>6, TreeAssumption DEF Entries
<1>10. \A e \in Files : t[e].stamp = Absent <=> t[e].content = 0
  BY <1>9 DEF TreeOK
<1>11. \A e \in Dirs : /\ tree[e].stamp.time <= t[e].stamp.time
                       /\ t[e].stamp.time <= IF "sameTick" \in Changes THEN now ELSE MaxTime + ops + 2
  <2> SUFFICES ASSUME NEW e \in Dirs
      PROVE /\ tree[e].stamp.time <= t[e].stamp.time
            /\ t[e].stamp.time <= IF "sameTick" \in Changes THEN now ELSE MaxTime + ops + 2
    OBVIOUS
  <2>1. CASE e = d
    BY <1>1, <1>2, <1>7, <2>1
  <2>2. CASE e # d
    BY <1>4, <1>5, <1>6, <2>2, DirTimes DEF Entries
  <2> QED BY <2>1, <2>2
<1>12. /\ \A e \in Entries : d \notin Way(e) => (ReachIn(t, e) <=> Reach(e))
       /\ \A e \in Entries : t[e].there => ExistedIn(t, e)
       /\ t[Root].there
  BY <1>1, <1>2, <1>3, <1>6, <1>7, <1>8, CameTo DEF c
\* what is below a directory that did not exist is not there
<1>13. \A e \in Entries : d \in Way(e) /\ e # d => ~t[e].there
  BY <1>1, <1>8 DEF TreeOK, Existed
<1>14. \A e \in Entries : d \in Way(e) /\ e # d => ~ReachIn(t, e) /\ ~Reach(e)
  BY <1>8, <1>13, WayUp DEF Reach, ReachIn
<1>15. \A e \in Files : ReachIn(t, e) <=> Reach(e)
  BY <1>12, <1>14, TreeAssumption DEF Entries
<1>16. ~Existed(d)
  BY <1>1, <1>2, WayUp DEF Existed
<1>17. Below(d) \subseteq hides \/ tree[c].stamp.time < t[c].stamp.time
  BY <1>6
<1>18. hides \subseteq Files
  BY DEF Below
<1> HIDE DEF hides
<1>19. \A e \in Entries : ReachIn(t, e) /\ ~Reach(e) =>
         \/ Below(e) \subseteq hides
         \/ e # Root /\ ~Existed(e) /\ tree[Parent[e]].stamp.time < t[Parent[e]].stamp.time
  BY <1>3, <1>12, <1>14, <1>16, <1>17 DEF c
<1>20. Edit(t, {}, hides)
  BY <1>6, <1>8, <1>9, <1>10, <1>11, <1>12, <1>15, <1>18, <1>19 DEF Edit
<1> QED BY <1>1, <1>18, <1>20

LEMMA UserEdits ==
    ASSUME TypeOK, TreeOK, User
    PROVE  \E kind : \E files, hides \in SUBSET Files :
               Edit(tree', files, hides) /\ Change(kind, tree', files, hides)
<1>1. ASSUME NEW f \in Files, Write(f) \/ Replace(f) \/ Remove(f)
      PROVE  \E kind : Edit(tree', {f}, {}) /\ Change(kind, tree', {f}, {})
  BY <1>1, WriteEdits, ReplaceEdits, RemoveEdits
<1>2. \A d \in Dirs : Below(d) \subseteq Files
  BY DEF Below
<1>3. CASE \E f \in Files : Write(f) \/ Replace(f) \/ Remove(f)
  BY <1>1, <1>3
<1>4. CASE \E f \in Files : Create(f)
  BY <1>4, CreateEdits
<1>5. CASE \E d \in Dirs : MoveAway(d)
  BY <1>2, <1>5, MoveAwayEdits
<1>6. CASE \E d \in Dirs : MoveBack(d)
  BY <1>2, <1>6, MoveBackEdits
<1>7. CASE \E d \in Dirs : MakeDir(d)
  BY <1>7, MakeDirEdits
<1>8. CASE NumberAnew
  BY <1>8, NumberAnewEdits
<1> QED BY <1>3, <1>4, <1>5, <1>6, <1>7, <1>8 DEF User

-----------------------------------------------------------------------------
(* What holds of the tree goes on holding while others change it.           *)

\* A step that leaves what processes hold as it is: time passes, or a user
\* changes the tree.
Outside(files) ==
    /\ files \subseteq Files /\ hidden \subseteq hidden'
    /\ now \in Nat /\ now' \in Nat /\ now <= now' /\ ops \in Nat /\ tree \in TreeType /\ tree' \in TreeType
    /\ index' = index
    /\ \A f \in Files : touched'[f] = IF f \in files THEN now ELSE touched[f]
    /\ \A p \in Procs : proc'[p] = [proc[p] EXCEPT !.since = @ \cup files]
    /\ \A e \in Entries : tree[e].stamp # Absent => tree'[e].stamp # Absent
    /\ \A f \in Files \ files :
         /\ Reach(f)' <=> Reach(f)
         /\ tree'[f].content = tree[f].content /\ tree'[f].stamp.time = tree[f].stamp.time
    /\ \A f \in Files : \/ /\ tree'[f].content = tree[f].content
                           /\ tree'[f].stamp.time = tree[f].stamp.time
                        \/ tree'[f].content > tree[f].content /\ tree'[f].stamp.time >= now
    /\ \A d \in Dirs : tree[d].stamp.time <= tree'[d].stamp.time
    /\ \A e \in Entries : Reach(e)' /\ ~Reach(e) =>
         \/ Below(e) \subseteq hidden'
         \/ /\ e # Root /\ ~Existed(e)
            /\ tree[Parent[e]].stamp.time < tree'[Parent[e]].stamp.time

LEMMA UserOutside ==
    ASSUME TypeOK, TreeOK, User
    PROVE  TypeOK' /\ TreeOK' /\ \E files \in SUBSET Files : Outside(files)
<1>0. PICK kind : \E files, hides \in SUBSET Files :
          Edit(tree', files, hides) /\ Change(kind, tree', files, hides)
  BY UserEdits
<1>1. PICK files \in SUBSET Files, hides \in SUBSET Files :
          Edit(tree', files, hides) /\ Change(kind, tree', files, hides)
  BY <1>0
<1>2. /\ now' = now /\ ops' = ops + 1 /\ index' = index /\ builds' = builds
      /\ hidden' = hidden \cup hides
      /\ touched' = [f \in Files |-> IF f \in files THEN now ELSE touched[f]]
      /\ proc' = [p \in Procs |-> [proc[p] EXCEPT !.since = @ \cup files]]
  BY <1>1 DEF Change
<1>3. /\ now \in Nat /\ ops \in Nat /\ MaxTime \in Nat /\ now > 0
      /\ tree \in TreeType /\ tree' \in TreeType
  BY <1>1, ScaleAssumption DEF TypeOK, TreeType, TreeOK, Edit
<1>4. TypeOK'
  <2>1. proc' \in [Procs -> Process]
    <3> SUFFICES ASSUME NEW p \in Procs
        PROVE [proc[p] EXCEPT !.since = @ \cup files] \in Process
      BY <1>2
    <3>1. proc[p] \in Process
      BY DEF TypeOK
    <3> QED BY <3>1 DEF Process
  <2>2. \A p \in Procs : proc'[p].cur = proc[p].cur /\ proc'[p].pc = proc[p].pc
    <3> SUFFICES ASSUME NEW p \in Procs
        PROVE proc'[p].cur = proc[p].cur /\ proc'[p].pc = proc[p].pc
      OBVIOUS
    <3>1. proc[p] \in Process
      BY DEF TypeOK
    <3> QED BY <1>2, <3>1 DEF Process
  <2>3. touched' \in [Files -> Nat]
    BY <1>2, <1>3 DEF TypeOK
  <2>4. tree' \in [Entries -> [there : BOOLEAN, stamp : Stamps, content : Nat]]
    BY <1>3 DEF TreeType
  <2>5. {now', ops', builds'} \subseteq Nat /\ index' \in IndexType /\ hidden' \subseteq Files
    BY <1>2 DEF TypeOK
  <2>6. \A p \in Procs : proc'[p].cur \in Files <=> proc'[p].pc \in {"reading", "parsing"}
    BY <2>2 DEF TypeOK
  <2> QED BY <2>1, <2>3, <2>4, <2>5, <2>6 DEF TypeOK
<1>5. \A f \in Files : tree[f].content \in Nat /\ tree[f].content <= ops + 1
  BY <1>3 DEF TreeOK, TreeType, Entries
<1>6. TreeOK'
  <2>1. \A f \in Files : tree'[f].content <= ops' + 1
    BY <1>1, <1>2, <1>3, <1>5 DEF Edit
  <2>2. \A d \in Dirs : tree'[d].stamp.time <= Latest'
    <3>1. Latest' = IF "sameTick" \in Changes THEN now ELSE MaxTime + ops + 2
      BY <1>2, <1>3 DEF Latest
    <3> QED BY <1>1, <3>1 DEF Edit
  <2>3. \A e \in Entries : tree'[e].there => Existed(e)'
    BY <1>1 DEF Edit, ExistedIn, Existed
  <2>4. tree'[Root].there /\ \A f \in Files : tree'[f].stamp = Absent <=> tree'[f].content = 0
    BY <1>1 DEF Edit
  <2> QED BY <1>2, <1>3, <2>1, <2>2, <2>3, <2>4 DEF TreeOK
<1>7. Outside(files)
  <2>1. \A e \in Entries : ReachIn(tree', e) <=> Reach(e)'
    BY DEF Reach, ReachIn
  <2>2. \A f \in Files : \/ /\ tree'[f].content = tree[f].content
                            /\ tree'[f].stamp.time = tree[f].stamp.time
                         \/ tree'[f].content > tree[f].content /\ tree'[f].stamp.time >= now
    BY <1>1, <1>3, <1>5 DEF Edit
  <2>3. \A e \in Entries : Reach(e)' /\ ~Reach(e) =>
          \/ Below(e) \subseteq hidden'
          \/ /\ e # Root /\ ~Existed(e)
             /\ tree[Parent[e]].stamp.time < tree'[Parent[e]].stamp.time
    BY <1>1, <1>2, <2>1 DEF Edit
  <2>4. \A f \in Files \ files :
          /\ Reach(f)' <=> Reach(f)
          /\ tree'[f].content = tree[f].content /\ tree'[f].stamp.time = tree[f].stamp.time
    BY <1>1, <2>1 DEF Edit, Entries
  <2> QED BY <1>1, <1>2, <1>3, <2>2, <2>3, <2>4 DEF Outside, Edit
<1> QED BY <1>4, <1>6, <1>7

LEMMA TickOutside ==
    ASSUME TypeOK, TreeOK, Tick
    PROVE  TypeOK' /\ TreeOK' /\ Outside({})
<1>1. /\ now' = now + 1 /\ now \in Nat /\ ops \in Nat /\ tree \in TreeType /\ now > 0
      /\ UNCHANGED <<tree, ops, builds, index, touched, hidden, proc>>
  BY DEF TypeOK, TreeOK, Tick, TreeType
<1>2. TypeOK'
  BY <1>1 DEF TypeOK
<1>3. \A d \in Dirs : tree[d].stamp.time \in Nat
  BY <1>1 DEF TreeType, Stamps, Entries
<1>4. \A d \in Dirs : tree'[d].stamp.time <= Latest'
  BY <1>1, <1>3 DEF TreeOK, Latest
<1>5. TreeOK'
  BY <1>1, <1>4 DEF TreeOK, Existed
<1>6. \A e \in Entries : Reach(e)' <=> Reach(e)
  BY <1>1 DEF Reach, ReachIn
<1>7. \A p \in Procs : proc'[p] = [proc[p] EXCEPT !.since = @ \cup {}]
  BY <1>1 DEF TypeOK, Process
<1> QED BY <1>1, <1>2, <1>3, <1>5, <1>6, <1>7 DEF Outside, Entries

LEMMA ExistedKept ==
    ASSUME NEW files, Outside(files), NEW e \in Entries, Existed(e)
    PROVE  Existed(e)'
BY WayUp DEF Existed, Outside

LEMMA GoneKept ==
    ASSUME NEW files, Outside(files), NEW e \in Entries, Existed(e), Gone(e)
    PROVE  Gone(e)'
BY DEF Gone, Outside

LEMMA TruthKept ==
    ASSUME NEW files, Outside(files), NEW f \in Files \ files
    PROVE  Truth(f)' = Truth(f)
BY DEF Truth, Outside

LEMMA RecordKept ==
    ASSUME NEW files, Outside(files), NEW f \in Files, NEW r \in Records, RecordOK(f, r)
    PROVE  RecordOK(f, r)'
<1> SUFFICES ASSUME r # NoRec PROVE RecordOK(f, r)'
  BY DEF RecordOK
<1>0. f \in Entries
  BY DEF Entries
<1>1. /\ Existed(f) /\ r.content <= tree[f].content
      /\ r.symbols # 0 => r.content # 0 /\ r.content <= r.symbols /\ r.symbols <= tree[f].content
  BY DEF RecordOK
<1>2. /\ r.content \in Nat /\ r.symbols \in Nat /\ r.stamp.time \in Nat /\ now \in Nat /\ now' \in Nat /\ now <= now'
      /\ tree[f].content \in Nat /\ tree'[f].content \in Nat
      /\ tree[f].stamp.time \in Nat /\ tree'[f].stamp.time \in Nat
  BY <1>0 DEF Records, Stamps, Outside, TreeType
<1>3. \/ tree'[f].content = tree[f].content /\ tree'[f].stamp.time = tree[f].stamp.time
      \/ tree'[f].content > tree[f].content /\ tree'[f].stamp.time >= now
  BY DEF Outside
<1>4. Existed(f)' /\ (Gone(f) => Gone(f)')
  BY <1>0, <1>1, ExistedKept, GoneKept
<1>5. /\ r.content <= tree'[f].content
      /\ r.symbols # 0 => r.content # 0 /\ r.content <= r.symbols /\ r.symbols <= tree'[f].content
  BY <1>1, <1>2, <1>3
<1>6. ASSUME r.doubt = "none"
      PROVE  /\ r.stamp.time < now' /\ r.symbols \in {0, r.content}
             /\ tree'[f].stamp.time = r.stamp.time =>
                  IF r.content = 0 THEN Gone(f)' ELSE tree'[f].content = r.content
  <2>1. /\ r.stamp.time < now /\ r.symbols \in {0, r.content}
        /\ tree[f].stamp.time = r.stamp.time =>
             IF r.content = 0 THEN Gone(f) ELSE tree[f].content = r.content
    BY <1>6 DEF RecordOK
  <2> QED BY <1>2, <1>3, <1>4, <2>1
<1> QED BY <1>4, <1>5, <1>6 DEF RecordOK

LEMMA RecordsKept ==
    ASSUME NEW files, Outside(files), NEW live \in [Files -> Records], RecordsOK(live)
    PROVE  RecordsOK(live)'
BY RecordKept DEF RecordsOK

LEMMA StampsKept ==
    ASSUME NEW files, Outside(files), NEW stamps \in [Dirs -> Stamps], StampsOK(stamps)
    PROVE  StampsOK(stamps)'
<1> SUFFICES ASSUME NEW d \in Dirs
    PROVE stamps[d].time <= tree'[d].stamp.time /\ (stamps[d] # Absent => Existed(d)')
  BY DEF StampsOK
<1>1. d \in Entries /\ stamps[d].time \in Nat /\ tree[d].stamp.time \in Nat /\ tree'[d].stamp.time \in Nat
  BY DEF Stamps, Outside, TreeType, Entries
<1>2. tree[d].stamp.time <= tree'[d].stamp.time /\ stamps[d].time <= tree[d].stamp.time
  BY DEF Outside, StampsOK
<1> QED BY <1>1, <1>2, ExistedKept DEF StampsOK

LEMMA CoversKept ==
    ASSUME NEW files, Outside(files), NEW known, NEW stamps \in [Dirs -> Stamps], NEW left,
           \A d \in Dirs : stamps[d].time <= tree[d].stamp.time,
           Covers(known, stamps, left)
    PROVE  Covers(known, stamps, left)'
<1> SUFFICES ASSUME NEW e \in Entries \ {Root}, Reach(e)', e \notin known, Parent[e] \in known \ left
    PROVE \/ Below(e) \subseteq hidden'
          \/ stamps[Parent[e]].time < tree'[Parent[e]].stamp.time
  BY DEF Covers, Below, Way
<1> DEFINE d == Parent[e]
<1>1. /\ d \in Dirs /\ stamps[d].time \in Nat /\ tree[d].stamp.time \in Nat /\ tree'[d].stamp.time \in Nat
      /\ stamps[d].time <= tree[d].stamp.time /\ tree[d].stamp.time <= tree'[d].stamp.time
  BY ParentIs DEF Stamps, Outside, TreeType, Entries
<1>2. CASE Reach(e)
  <2>1. Below(e) \subseteq hidden \/ stamps[d].time < tree[d].stamp.time
    BY <1>2 DEF Covers
  <2> QED BY <1>1, <2>1 DEF Outside
<1>3. CASE ~Reach(e)
  <2>1. Below(e) \subseteq hidden' \/ tree[d].stamp.time < tree'[d].stamp.time
    BY <1>3 DEF Outside
  <2> QED BY <1>1, <2>1
<1> QED BY <1>2, <1>3

LEMMA IndexKept ==
    ASSUME NEW files, Outside(files), NEW i \in IndexType, IndexOK(i)
    PROVE  IndexOK(i)'
<1>1. i.live \in [Files -> Records] /\ i.dirs \in [Dirs -> Stamps]
  BY DEF IndexType
<1>2. RecordsOK(i.live)' /\ StampsOK(i.dirs)'
  BY <1>1, RecordsKept, StampsKept DEF IndexOK
<1>3. Covers(Known(i), i.dirs, {})'
  <2>1. Covers(Known(i), i.dirs, {}) /\ \A d \in Dirs : i.dirs[d].time <= tree[d].stamp.time
    BY DEF IndexOK, StampsOK
  <2> DEFINE k == Known(i)
  <2>2. Covers(k, i.dirs, {})'
    <3> HIDE DEF k
    <3>1. Covers(k, i.dirs, {})
      BY <2>1 DEF k
    <3> QED BY <1>1, <2>1, <3>1, CoversKept
  <2> QED BY <2>2 DEF Known, Live
<1> QED BY <1>2, <1>3 DEF IndexOK, NoIndex

\* The parts of a process's record, all but `since` as they were.
LEMMA FieldsKept ==
    ASSUME NEW files \in SUBSET Files, NEW r \in Process
    PROVE  LET s == [r EXCEPT !.since = @ \cup files] IN
           /\ s \in Process /\ s.since = r.since \cup files
           /\ s.pc = r.pc /\ s.opened = r.opened /\ s.checked = r.checked /\ s.left = r.left
           /\ s.saw = r.saw /\ s.found = r.found /\ s.gone = r.gone /\ s.dirs = r.dirs
           /\ s.got = r.got /\ s.unsettled = r.unsettled /\ s.from = r.from /\ s.cur = r.cur
           /\ s.before = r.before /\ s.started = r.started /\ s.bytes = r.bytes
BY DEF Process

\* What is known of a file nobody has touched is known of one nobody touches.
LEMMA QuietKept ==
    ASSUME NEW files, Outside(files), NEW r, NEW s, s.since = r.since \cup files,
           NEW f \in Files, Quiet(s, f)'
    PROVE  /\ Quiet(r, f) /\ (Reach(f)' <=> Reach(f)) /\ Truth(f)' = Truth(f)
           /\ tree'[f].stamp.time = tree[f].stamp.time
           /\ \A x : ExactRec(x, f)' <=> ExactRec(x, f)
<1>1. f \in Files \ files /\ Quiet(r, f)
  BY DEF Quiet, Outside
<1> QED BY <1>1, TruthKept DEF Outside, ExactRec

LEMMA KnownExisted ==
    ASSUME TypeOK, NEW i \in IndexType, IndexOK(i), NEW w \in Known(i)
    PROVE  w \in Entries /\ Existed(w)
<1>1. CASE w \in Live(i)
  BY <1>1 DEF Live, IndexOK, RecordsOK, RecordOK, Entries
<1>2. CASE w \in Dirs /\ i.dirs[w] # Absent
  BY <1>2 DEF IndexOK, StampsOK, Entries
<1> QED BY <1>1, <1>2 DEF Known

LEMMA StatKept ==
    ASSUME TypeOK, NEW files \in SUBSET Files, Outside(files), NEW p \in Procs,
           NEW r \in Process, NEW s \in Process, s.since = r.since \cup files,
           s.pc = r.pc, s.opened = r.opened, s.left = r.left, s.saw = r.saw,
           s.found = r.found, s.gone = r.gone, s.dirs = r.dirs,
           IndexOK(r.opened), StatOK(p, r)
    PROVE  StatOK(p, s)'
<1> SUFFICES ASSUME r.pc = "stat" PROVE StatOK(p, s)'
  BY DEF StatOK
<1>1. /\ p \in Queries /\ r.opened.version > 0 /\ r.left \subseteq Known(r.opened)
      /\ r.found = Idle.found /\ r.gone = {} /\ r.dirs = Idle.dirs
      /\ \A w \in Known(r.opened) \ r.left : SeenOK(r, w)
      /\ ShownOK(r)
  BY DEF StatOK
<1>2. ASSUME NEW w \in Known(r.opened) \ r.left PROVE SeenOK(s, w)'
  <2>1. SeenOK(r, w) /\ w \in Entries /\ Existed(w)
    BY <1>1, KnownExisted DEF Process
  <2>2. r.saw[w] = Absent => Gone(w)'
    BY <2>1, GoneKept DEF SeenOK
  <2>3. ASSUME w \in Files, Quiet(s, w)', r.saw[w] # Absent
        PROVE  Reach(w)' /\ r.saw[w].time = tree'[w].stamp.time
    BY <2>1, <2>3, QuietKept DEF SeenOK
  <2>4. ASSUME w \in Dirs PROVE r.saw[w].time <= tree'[w].stamp.time
    <3>1. r.saw[w].time \in Nat /\ tree[w].stamp.time \in Nat /\ tree'[w].stamp.time \in Nat
      BY <2>1 DEF Process, Outside, TreeType, Stamps
    <3> QED BY <2>1, <2>4, <3>1 DEF SeenOK, Outside
  <2> QED BY <2>2, <2>3, <2>4 DEF SeenOK
<1>3. ShownOK(s)'
  <2> SUFFICES ASSUME NEW e \in Entries \ {Root}, NEW f \in Files, e \in Way(f),
                      e \notin Known(r.opened), Parent[e] \in Known(r.opened) \ r.left,
                      Quiet(s, f)', Reach(f)'
      PROVE r.opened.dirs[Parent[e]].time < r.saw[Parent[e]].time
    BY DEF ShownOK, Way, Known, Live
  <2>1. Quiet(r, f) /\ Reach(f)
    BY QuietKept
  <2> QED BY <1>1, <2>1 DEF ShownOK
<1>4. (\A w \in Known(r.opened) \ r.left : SeenOK(s, w)') /\ Known(r.opened)' = Known(r.opened)
  BY <1>2 DEF Known, Live
<1> QED BY <1>1, <1>3, <1>4 DEF StatOK, Known, Live, Idle

LEMMA ListKept ==
    ASSUME TypeOK, NEW files \in SUBSET Files, Outside(files), NEW p \in Procs,
           NEW r \in Process, NEW s \in Process, s.since = r.since \cup files,
           s.pc = r.pc, s.opened = r.opened, s.left = r.left,
           s.found = r.found, s.gone = r.gone, s.dirs = r.dirs,
           IndexOK(r.opened), ListOK(p, r)
    PROVE  ListOK(p, s)'
<1> SUFFICES ASSUME r.pc \in {"list", "read", "reading"} PROVE ListOK(p, s)'
  BY DEF ListOK
<1>1. FoundIn(s) = FoundIn(r) /\ StampsIn(s) = StampsIn(r) /\ ToList(s) = ToList(r)
  BY DEF FoundIn, StampsIn, ToList
<1>2. KnownIn(s) = KnownIn(r)
  BY <1>1 DEF KnownIn, Live
<1> DEFINE known == KnownIn(r)
           stamps == StampsIn(r)
           left == ToList(r)
<1>3. /\ p \in Queries => r.opened.version > 0
      /\ p \in Builders => r.opened = NoIndex
      /\ Root \in known /\ StampsOK(r.dirs)
      /\ left \subseteq Dirs
      /\ \A f \in FoundIn(r) : Existed(f)
      /\ r.gone \subseteq Live(r.opened) /\ \A f \in r.gone : Gone(f)
      /\ \A f \in Live(r.opened) \ (r.gone \cup FoundIn(r)) : Quiet(r, f) => ExactRec(r.opened.live[f], f)
      /\ Covers(known, stamps, left)
      /\ LeadsTo(r)
  BY DEF ListOK
<1>4. r.opened \in IndexType /\ r.dirs \in [Dirs -> Stamps]
  BY DEF Process
<1>5. stamps \in [Dirs -> Stamps] /\ \A d \in Dirs : stamps[d].time <= tree[d].stamp.time
  BY <1>3, <1>4 DEF StampsIn, IndexType, IndexOK, StampsOK
<1>6. StampsOK(r.dirs)'
  BY <1>3, <1>4, StampsKept
<1>7. \A f \in FoundIn(r) : Existed(f)'
  BY <1>3, ExistedKept DEF FoundIn, Entries
<1>8. \A f \in r.gone : Gone(f)'
  BY <1>3, <1>4, GoneKept, KnownExisted DEF Known
<1>9. ASSUME NEW f \in Live(r.opened) \ (r.gone \cup FoundIn(r)), Quiet(s, f)'
      PROVE  ExactRec(r.opened.live[f], f)'
  <2>1. f \in Files
    BY DEF Live
  <2>2. Quiet(r, f) /\ (ExactRec(r.opened.live[f], f)' <=> ExactRec(r.opened.live[f], f))
    BY <1>9, <2>1, QuietKept
  <2> QED BY <1>3, <2>2
<1>10. Covers(known, stamps, left)'
  <2> HIDE DEF known, stamps, left
  <2>1. Covers(known, stamps, left)
    BY <1>3
  <2> QED BY <1>5, <2>1, CoversKept
<1>11. ASSUME NEW f \in Files, Quiet(s, f)', Reach(f)', NEW e \in Way(f) \ known, e # Root, Parent[e] \in known
       PROVE  Parent[e] \in left
  <2>1. Quiet(r, f) /\ Reach(f)
    BY <1>11, QuietKept
  <2> QED BY <1>3, <1>11, <2>1 DEF LeadsTo
<1> HIDE DEF known, stamps, left
<1>12. LeadsTo(s)'
  <2>1. /\ KnownIn(s)' = known /\ ToList(s)' = left
    BY <1>1, <1>2 DEF known, left, KnownIn, FoundIn, StampsIn, ToList, Live
  <2> QED BY <1>11, <2>1 DEF LeadsTo, Way
<1>13. /\ KnownIn(s)' = known /\ StampsIn(s)' = stamps /\ ToList(s)' = left
       /\ FoundIn(s)' = FoundIn(r) /\ Live(s.opened)' = Live(r.opened)
  BY <1>1, <1>2 DEF known, stamps, left, KnownIn, FoundIn, StampsIn, ToList, Live
<1>14. Root \in known /\ left \subseteq Dirs
  BY <1>3 DEF known, left
<1> QED BY <1>3, <1>6, <1>7, <1>8, <1>9, <1>10, <1>12, <1>13, <1>14 DEF ListOK, NoIndex

LEMMA ReadsKept ==
    ASSUME NEW files \in SUBSET Files, Outside(files), NEW p \in Procs,
           NEW r \in Process, NEW s \in Process, s.since = r.since \cup files,
           s.pc = r.pc, s.left = r.left, s.found = r.found, s.cur = r.cur,
           s.got = r.got, s.unsettled = r.unsettled, ReadsOK(p, r)
    PROVE  ReadsOK(p, s)'
<1> SUFFICES ASSUME r.pc \in {"read", "reading"} PROVE ReadsOK(p, s)'
  BY DEF ReadsOK
<1>1. FoundIn(s)' = FoundIn(r) /\ Pending(s)' = Pending(r)
  BY DEF FoundIn, Pending
<1>2. ASSUME NEW f \in FoundIn(r) \ Pending(r)
      PROVE  r.got[f] # NoRec /\ (Quiet(s, f)' => ExactRec(r.got[f], f)')
  <2>1. f \in Files /\ r.got[f] # NoRec /\ (Quiet(r, f) => ExactRec(r.got[f], f))
    BY DEF ReadsOK, FoundIn
  <2> QED BY <2>1, QuietKept
<1> QED BY <1>1, <1>2 DEF ReadsOK, NoRec

LEMMA ReadingKept ==
    ASSUME NEW files \in SUBSET Files, Outside(files), NEW p \in Procs,
           NEW r \in Process, NEW s \in Process, s.since = r.since \cup files,
           s.pc = r.pc, s.left = r.left, s.found = r.found, s.cur = r.cur, s.got = r.got,
           s.before = r.before, s.started = r.started, s.bytes = r.bytes,
           r.started <= now, ReadingOK(p, r)
    PROVE  ReadingOK(p, s)'
<1> SUFFICES ASSUME r.pc \in {"reading", "parsing"} PROVE ReadingOK(p, s)'
  BY DEF ReadingOK
<1> DEFINE f == r.cur
<1>1. /\ f \in Files \ r.left /\ f \in Entries /\ Existed(f)
      /\ r.bytes # 0 /\ r.bytes <= tree[f].content
      /\ r.before.time < r.started /\ tree[f].stamp.time = r.before.time => tree[f].content = r.bytes
      /\ r.pc = "reading" => f \in FoundIn(r) /\ (Quiet(r, f) => Truth(f) = r.bytes)
      /\ r.pc = "parsing" => r.got[f].content # 0 /\ r.got[f].content <= r.bytes
  BY DEF ReadingOK, Entries
<1>2. /\ tree[f].content \in Nat /\ tree'[f].content \in Nat /\ r.bytes \in Nat
      /\ tree[f].stamp.time \in Nat /\ tree'[f].stamp.time \in Nat
      /\ r.before.time \in Nat /\ r.started \in Nat /\ now \in Nat
  BY <1>1 DEF Process, Outside, TreeType, Stamps
<1>3. \/ tree'[f].content = tree[f].content /\ tree'[f].stamp.time = tree[f].stamp.time
      \/ tree'[f].content > tree[f].content /\ tree'[f].stamp.time >= now
  BY <1>1 DEF Outside
<1>4. /\ r.bytes <= tree'[f].content
      /\ r.before.time < r.started /\ tree'[f].stamp.time = r.before.time => tree'[f].content = r.bytes
  BY <1>1, <1>2, <1>3
<1>5. Existed(f)'
  BY <1>1, ExistedKept
<1>6. Quiet(s, f)' => Quiet(r, f) /\ Truth(f)' = Truth(f)
  BY <1>1, QuietKept
<1> QED BY <1>1, <1>4, <1>5, <1>6 DEF ReadingOK, FoundIn

LEMMA AnswerKept ==
    ASSUME TypeOK, NEW files \in SUBSET Files, Outside(files), NEW p \in Procs,
           NEW r \in Process, NEW s \in Process, s.since = r.since \cup files,
           s.pc = r.pc, s.opened = r.opened, s.found = r.found, s.gone = r.gone,
           IndexOK(r.opened), AnswerOK(p, r)
    PROVE  AnswerOK(p, s)'
<1> SUFFICES ASSUME r.pc = "answer" PROVE AnswerOK(p, s)'
  BY DEF AnswerOK
<1>1. r.opened \in IndexType /\ r.gone \subseteq Live(r.opened) /\ \A f \in r.gone : Gone(f)
  BY DEF AnswerOK, Process
<1>2. \A f \in r.gone : Gone(f)'
  BY <1>1, GoneKept, KnownExisted DEF Known
<1>3. ASSUME NEW f \in Files, Quiet(s, f)'
      PROVE f \in r.gone \cup FoundIn(r) \/ ExactRec(r.opened.live[f], f)'
  BY <1>3, QuietKept DEF AnswerOK
<1>4. FoundIn(s)' = FoundIn(r) /\ Live(s.opened)' = Live(r.opened)
  BY DEF FoundIn, Live
<1> QED BY <1>1, <1>2, <1>3, <1>4 DEF AnswerOK

LEMMA ClocksKept ==
    ASSUME NEW files \in SUBSET Files, Outside(files), TypeOK,
           NEW r \in Process, NEW s \in Process, s.since = r.since \cup files,
           s.checked = r.checked, s.from = r.from, s.started = r.started, ClocksOK(r)
    PROVE  ClocksOK(s)'
<1>1. /\ r.checked \in Nat /\ r.from \in Nat /\ r.started \in Nat /\ r.since \subseteq Files
      /\ now \in Nat /\ now' \in Nat /\ now <= now' /\ touched \in [Files -> Nat]
  BY DEF Process, Outside, TypeOK
<1>2. \A f \in s.since : touched'[f] >= r.checked
  BY <1>1 DEF ClocksOK, Outside
<1> QED BY <1>1, <1>2 DEF ClocksOK

LEMMA VerifiedKept ==
    ASSUME NEW files \in SUBSET Files, Outside(files), TypeOK, NEW i \in IndexType, VerifiedOK(i)
    PROVE  VerifiedOK(i)'
<1>1. /\ i.verified \in Nat /\ now \in Nat /\ now' \in Nat /\ now <= now' /\ i.verified <= now
  BY DEF IndexType, Outside, VerifiedOK
<1> SUFFICES ASSUME i.version > 0, NEW f \in Files \ hidden'
    PROVE ExactRec(i.live[f], f)' \/ touched'[f] >= i.verified
  BY <1>1 DEF VerifiedOK
<1>2. f \in Files \ hidden
  BY DEF Outside
<1>3. CASE f \in files
  BY <1>1, <1>3 DEF Outside
<1>4. CASE f \notin files
  <2>1. ExactRec(i.live[f], f)' <=> ExactRec(i.live[f], f)
    BY <1>4, TruthKept DEF ExactRec
  <2> QED BY <1>2, <1>4, <2>1 DEF VerifiedOK, Outside
<1> QED BY <1>3, <1>4

LEMMA ProcKept ==
    ASSUME NEW files \in SUBSET Files, Outside(files), TypeOK, NEW p \in Procs,
           NEW r \in Process, NEW i \in IndexType, ProcOK(p, r, i)
    PROVE  ProcOK(p, [r EXCEPT !.since = @ \cup files], i)'
<1> DEFINE s == [r EXCEPT !.since = @ \cup files]
<1>1. /\ s \in Process /\ s.since = r.since \cup files
      /\ s.pc = r.pc /\ s.opened = r.opened /\ s.checked = r.checked /\ s.left = r.left
      /\ s.saw = r.saw /\ s.found = r.found /\ s.gone = r.gone /\ s.dirs = r.dirs
      /\ s.got = r.got /\ s.unsettled = r.unsettled /\ s.from = r.from /\ s.cur = r.cur
      /\ s.before = r.before /\ s.started = r.started /\ s.bytes = r.bytes
  BY FieldsKept
<1> HIDE DEF s
<1>2. OpenedOK(s, i)'
  <2>1. r.opened \in IndexType /\ IndexOK(r.opened)
    BY DEF Process, ProcOK, OpenedOK
  <2>2. IndexOK(r.opened)'
    BY <2>1, IndexKept
  <2>3. OpenedOK(r, i)'
    BY <2>2 DEF ProcOK, OpenedOK
  <2> QED BY <1>1, <2>3 DEF OpenedOK, IndexOK, Known, Live
<1>3. IndexOK(r.opened) /\ r.started <= now
  BY DEF ProcOK, OpenedOK, ClocksOK
<1>4. ClocksOK(s)'
  BY <1>1, ClocksKept DEF ProcOK
<1>5. StatOK(p, s)'
  BY <1>1, <1>3, StatKept DEF ProcOK
<1>6. ListOK(p, s)'
  BY <1>1, <1>3, ListKept DEF ProcOK
<1>7. ReadsOK(p, s)'
  BY <1>1, ReadsKept DEF ProcOK
<1>8. GotOK(p, s)'
  <2>1. r.got \in [Files -> Records] /\ RecordsOK(r.got)
    BY DEF Process, ProcOK, GotOK
  <2>2. RecordsOK(r.got)'
    BY <2>1, RecordsKept
  <2> QED BY <1>1, <2>2 DEF ProcOK, GotOK, RecordsOK, Idle
<1>9. ReadingOK(p, s)'
  BY <1>1, <1>3, ReadingKept DEF ProcOK
<1>10. ParseOK(p, s, i)'
  BY <1>1 DEF ProcOK, ParseOK, NoRec
<1>11. AnswerOK(p, s)'
  BY <1>1, <1>3, AnswerKept DEF ProcOK
<1>12. ProcOK(p, s, i)'
  BY <1>2, <1>4, <1>5, <1>6, <1>7, <1>8, <1>9, <1>10, <1>11 DEF ProcOK
<1> QED BY <1>12 DEF s

LEMMA OutsideKeeps ==
    ASSUME IInv, NEW files \in SUBSET Files, Outside(files), TypeOK', TreeOK'
    PROVE  IInv'
<1>1. TypeOK /\ index \in IndexType /\ index' = index
  BY DEF IInv, TypeOK, Outside
<1>2. \A i \in IndexType : (IndexOK(i) => IndexOK(i)') /\ (VerifiedOK(i) => VerifiedOK(i)')
  BY <1>1, IndexKept, VerifiedKept
<1>3. IndexOK(index)' /\ VerifiedOK(index)'
  BY <1>1, <1>2 DEF IInv
<1>4. ASSUME NEW p \in Procs PROVE ProcOK(p, proc[p], index)'
  <2>1. \A r \in Process : \A i \in IndexType :
           ProcOK(p, r, i) => ProcOK(p, [r EXCEPT !.since = @ \cup files], i)'
    BY <1>1, ProcKept
  <2>2. proc[p] \in Process /\ ProcOK(p, proc[p], index) /\ proc'[p] = [proc[p] EXCEPT !.since = @ \cup files]
    BY <1>1 DEF IInv, TypeOK, Outside
  <2> QED BY <1>1, <2>1, <2>2
<1> QED BY <1>3, <1>4 DEF IInv

-----------------------------------------------------------------------------
(* The steps of processes: the tree stays as it is.                         *)

LEMMA StillOK ==
    ASSUME UNCHANGED <<tree, now, ops, touched, hidden>>
    PROVE  /\ TreeOK' <=> TreeOK
           /\ \A i : IndexOK(i)' <=> IndexOK(i)
           /\ \A i : VerifiedOK(i)' <=> VerifiedOK(i)
           /\ \A p, r, i : ProcOK(p, r, i)' <=> ProcOK(p, r, i)
<1>1. \A e : /\ Reach(e)' <=> Reach(e)
             /\ Existed(e)' <=> Existed(e)
             /\ Gone(e)' <=> Gone(e)
             /\ Truth(e)' = Truth(e)
  BY DEF Reach, ReachIn, Existed, Gone, Truth, Below, Way
<1>2. /\ \A r, f : ExactRec(r, f)' <=> ExactRec(r, f)
      /\ \A r, f : Quiet(r, f)' <=> Quiet(r, f)
      /\ \A live : RecordsOK(live)' <=> RecordsOK(live)
      /\ \A stamps : StampsOK(stamps)' <=> StampsOK(stamps)
      /\ \A known, stamps, left : Covers(known, stamps, left)' <=> Covers(known, stamps, left)
  BY <1>1 DEF ExactRec, Quiet, RecordsOK, RecordOK, StampsOK, Covers, Below, Way
<1>3. TreeOK' <=> TreeOK
  BY <1>1 DEF TreeOK, Latest
<1>4. \A i : IndexOK(i)' <=> IndexOK(i)
  BY <1>2 DEF IndexOK, Known, Live, NoIndex
<1>5. \A i : VerifiedOK(i)' <=> VerifiedOK(i)
  BY <1>2 DEF VerifiedOK
<1>6. ASSUME NEW p, NEW r, NEW i PROVE ProcOK(p, r, i)' <=> ProcOK(p, r, i)
  <2>1. OpenedOK(r, i)' <=> OpenedOK(r, i)
    BY <1>4 DEF OpenedOK
  <2>2. ClocksOK(r)' <=> ClocksOK(r)
    BY DEF ClocksOK
  <2>3. StatOK(p, r)' <=> StatOK(p, r)
    <3>1. ShownOK(r)' <=> ShownOK(r)
      BY <1>1, <1>2 DEF ShownOK, Known, Live, Way
    <3>2. \A w : SeenOK(r, w)' <=> SeenOK(r, w)
      BY <1>1, <1>2 DEF SeenOK
    <3> QED BY <3>1, <3>2 DEF StatOK, Known, Live, Idle
  <2>4. ListOK(p, r)' <=> ListOK(p, r)
    <3>1. LeadsTo(r)' <=> LeadsTo(r)
      BY <1>1, <1>2 DEF LeadsTo, KnownIn, FoundIn, StampsIn, ToList, Live, Way
    <3> QED BY <1>1, <1>2, <3>1 DEF ListOK, KnownIn, FoundIn, StampsIn, ToList, Live, NoIndex
  <2>5. ReadsOK(p, r)' <=> ReadsOK(p, r)
    BY <1>2 DEF ReadsOK, FoundIn, Pending, NoRec
  <2>6. GotOK(p, r)' <=> GotOK(p, r)
    BY <1>2 DEF GotOK, Idle
  <2>7. ReadingOK(p, r)' <=> ReadingOK(p, r)
    BY <1>1, <1>2 DEF ReadingOK, FoundIn
  <2>8. ParseOK(p, r, i)' <=> ParseOK(p, r, i)
    BY DEF ParseOK, NoRec
  <2>9. AnswerOK(p, r)' <=> AnswerOK(p, r)
    BY <1>1, <1>2 DEF AnswerOK, FoundIn, Live
  <2> QED BY <2>1, <2>2, <2>3, <2>4, <2>5, <2>6, <2>7, <2>8, <2>9 DEF ProcOK
<1> QED BY <1>3, <1>4, <1>5, <1>6

LEMMA StepKeeps ==
    ASSUME IInv, NEW p \in Procs, NEW r \in Process, NEW j \in IndexType,
           Become(p, r), index' = j, UNCHANGED <<tree, now, ops, touched, hidden>>,
           builds' \in Nat, r.cur \in Files <=> r.pc \in {"reading", "parsing"},
           IndexOK(j), VerifiedOK(j), ProcOK(p, r, j),
           \A q \in Procs \ {p} : ProcOK(q, proc[q], j)
    PROVE  IInv'
<1>1. proc'[p] = r /\ \A q \in Procs \ {p} : proc'[q] = proc[q]
  BY DEF Become, IInv, TypeOK
<1>2. TypeOK'
  <2>1. proc' \in [Procs -> Process]
    BY DEF Become, IInv, TypeOK
  <2> QED BY <1>1, <2>1 DEF IInv, TypeOK
<1>3. TreeOK'
  BY StillOK DEF IInv
<1>4. IndexOK(index)' /\ VerifiedOK(index)'
  <2>1. IndexOK(j)' /\ VerifiedOK(j)'
    BY StillOK
  <2> QED BY <2>1
<1>5. ASSUME NEW q \in Procs PROVE ProcOK(q, proc[q], index)'
  <2> DEFINE s == proc'[q]
  <2>1. ProcOK(q, s, j)
    BY <1>1
  <2>2. \A x : ProcOK(q, x, j)' <=> ProcOK(q, x, j)
    BY StillOK
  <2> QED BY <2>1, <2>2
<1> QED BY <1>2, <1>3, <1>4, <1>5 DEF IInv

\* A step that leaves the index alone is a matter of the record it leaves.
LEMMA SoloKeeps ==
    ASSUME IInv, NEW p \in Procs, NEW r \in Process, Become(p, r),
           UNCHANGED <<tree, now, ops, touched, hidden, index>>, builds' \in Nat,
           r.cur \in Files <=> r.pc \in {"reading", "parsing"}, ProcOK(p, r, index)
    PROVE  IInv'
<1> DEFINE j == index
<1>1. j \in IndexType /\ IndexOK(j) /\ VerifiedOK(j) /\ \A q \in Procs : ProcOK(q, proc[q], j)
  BY DEF IInv, TypeOK
<1>2. index' = j
  OBVIOUS
<1> HIDE DEF j
<1>3. \A i \in IndexType : /\ index' = i /\ IndexOK(i) /\ VerifiedOK(i) /\ ProcOK(p, r, i)
                           /\ \A q \in Procs \ {p} : ProcOK(q, proc[q], i)
                           => IInv'
  BY StepKeeps
<1> QED BY <1>1, <1>2, <1>3 DEF j

LEMMA Has ==
    ASSUME IInv, NEW p \in Procs
    PROVE  /\ TypeOK /\ TreeOK /\ proc[p] \in Process /\ ProcOK(p, proc[p], index)
           /\ index \in IndexType /\ IndexOK(index) /\ VerifiedOK(index)
           /\ tree \in TreeType /\ now \in Nat /\ now > 0 /\ ops \in Nat /\ builds \in Nat
           /\ hidden \subseteq Files /\ touched \in [Files -> Nat]
           /\ proc[p].cur \in Files <=> proc[p].pc \in {"reading", "parsing"}
BY DEF IInv, TypeOK, TreeOK, TreeType

LEMMA NoIndexIs ==
    /\ NoIndex \in IndexType /\ Known(NoIndex) = {} /\ NoRec \in Records /\ Absent \in Stamps
    /\ NoIndex.version = 0 /\ NoIndex.epoch = 0
    /\ \A f \in Files : NoIndex.live[f] = NoRec
    /\ \A d \in Dirs : NoIndex.dirs[d] = Absent
BY DEF NoIndex, IndexType, Known, Live, NoRec, Records, Absent, Stamps

LEMMA NoIndexOK ==
    ASSUME TypeOK
    PROVE  IndexOK(NoIndex)
<1>1. RecordsOK(NoIndex.live)
  BY NoIndexIs DEF RecordsOK, RecordOK
<1>2. StampsOK(NoIndex.dirs)
  BY NoIndexIs DEF StampsOK, Absent, TypeOK, Stamps, Entries
<1>3. Covers(Known(NoIndex), NoIndex.dirs, {})
  BY NoIndexIs DEF Covers
<1> QED BY <1>1, <1>2, <1>3, NoIndexIs DEF IndexOK

\* The record of a process that has nothing but an index, or not even that.
Blank(r) ==
    /\ r.found = Idle.found /\ r.gone = {} /\ r.dirs = Idle.dirs /\ r.got = Idle.got
    /\ r.unsettled = {} /\ r.from = 0 /\ r.cur = Root /\ r.started = 0

LEMMA IdleIs ==
    /\ Idle \in Process /\ Idle.pc = "idle" /\ Idle.opened = NoIndex /\ Idle.checked = 0
    /\ Idle.since = {} /\ Idle.left = {} /\ Blank(Idle) /\ Idle.saw \in [Entries -> Stamps]
    /\ \A f \in Files : Idle.got[f] = NoRec /\ Idle.found[f] = Absent
    /\ \A d \in Dirs : Idle.dirs[d] = Absent
<1>1. Root \in Entries
  BY TreeAssumption DEF Entries
<1> QED BY <1>1, NoIndexIs DEF Idle, Process, Blank

LEMMA BlankOK ==
    ASSUME TypeOK, NEW p \in Procs, NEW r \in Process, Blank(r), NEW j \in IndexType,
           r.pc \in {"idle", "stat", "answer", "raced"},
           OpenedOK(r, j), r.checked <= now, \A f \in r.since : touched[f] >= r.checked,
           StatOK(p, r), AnswerOK(p, r)
    PROVE  ProcOK(p, r, j)
<1>0. now \in Nat /\ 0 <= now
  BY DEF TypeOK
<1>1. ClocksOK(r)
  <2>1. r.from = 0 /\ r.started = 0
    BY DEF Blank
  <2>2. r.from <= now /\ r.started <= now
    BY <1>0, <2>1
  <2> QED BY <2>2 DEF ClocksOK
<1>2. RecordsOK(r.got) /\ \A f \in Files : ~r.got[f].base
  <2>1. \A f \in Files : r.got[f] = NoRec
    BY IdleIs DEF Blank
  <2>2. ~NoRec.base
    BY DEF NoRec
  <2> QED BY <2>1, <2>2 DEF RecordsOK, RecordOK
<1>3. GotOK(p, r)
  BY <1>2 DEF GotOK, Blank
<1> QED BY <1>1, <1>3 DEF ProcOK, ListOK, ReadsOK, ReadingOK, ParseOK

LEMMA IdleOK ==
    ASSUME TypeOK, NEW p \in Procs, NEW j \in IndexType, IndexOK(j)
    PROVE  ProcOK(p, Idle, j)
<1>1. OpenedOK(Idle, j)
  <2>1. j.version \in Nat /\ j.epoch \in Nat
    BY DEF IndexType
  <2>2. 0 <= j.version /\ 0 <= j.epoch
    BY <2>1
  <2>3. j.version = 0 => j.live = NoIndex.live /\ j.dirs = NoIndex.dirs
    BY DEF IndexOK
  <2> QED BY <2>2, <2>3, NoIndexOK, NoIndexIs, IdleIs DEF OpenedOK
<1>2. now \in Nat /\ 0 <= now
  BY DEF TypeOK
<1> QED BY <1>1, <1>2, IdleIs, BlankOK DEF StatOK, AnswerOK

LEMMA RacedOK ==
    ASSUME TypeOK, NEW p \in Procs, NEW j \in IndexType, IndexOK(j)
    PROVE  LET r == [Idle EXCEPT !.pc = "raced", !.opened = j] 
           IN  r \in Process /\ r.cur = Root /\ r.pc = "raced" /\ ProcOK(p, r, j)
<1> DEFINE r == [Idle EXCEPT !.pc = "raced", !.opened = j]
<1>1. /\ r \in Process /\ r.pc = "raced" /\ r.opened = j /\ r.checked = 0 /\ r.since = {} /\ Blank(r)
      /\ r.cur = Root
  BY IdleIs DEF Process, Blank
<1> HIDE DEF r
<1>2. OpenedOK(r, j)
  BY <1>1 DEF OpenedOK, IndexType
<1>3. now \in Nat
  BY DEF TypeOK
<1>4. r \in Process /\ r.cur = Root /\ r.pc = "raced" /\ ProcOK(p, r, j)
  BY <1>1, <1>2, <1>3, BlankOK DEF StatOK, AnswerOK
<1> QED BY <1>4 DEF r

LEMMA CheckingOK ==
    ASSUME TypeOK, NEW p \in Queries, NEW j \in IndexType, IndexOK(j), j.version > 0,
           NEW retry \in BOOLEAN
    PROVE  LET r == Checking(j, retry) IN r \in Process /\ r.cur = Root /\ r.pc = "stat" /\ ProcOK(p, r, j)
<1> DEFINE r == Checking(j, retry)
<1>0. p \in Procs /\ now \in Nat
  BY DEF Procs, TypeOK
<1>1. /\ r \in Process /\ r.pc = "stat" /\ r.opened = j /\ r.checked = now /\ r.since = {} /\ Blank(r)
      /\ r.left = Known(j) /\ r.cur = Root
  <2>1. Known(j) \subseteq Entries
    BY DEF Known, Live, Entries
  <2> QED BY <1>0, <2>1, IdleIs DEF Checking, Process, Blank
<1> HIDE DEF r
<1>2. OpenedOK(r, j)
  BY <1>1 DEF OpenedOK, IndexType
<1>3. StatOK(p, r)
  BY <1>1 DEF StatOK, ShownOK, Blank
<1>4. r \in Process /\ r.cur = Root /\ r.pc = "stat" /\ ProcOK(p, r, j)
  BY <1>0, <1>1, <1>2, <1>3, BlankOK DEF AnswerOK
<1> QED BY <1>4 DEF r

\* The answer from an index that holds exactly what nobody has touched.
LEMMA AnsweringOK ==
    ASSUME TypeOK, NEW p \in Queries, NEW i \in IndexType, NEW since \in SUBSET Files,
           NEW j \in IndexType, IndexOK(i), i.version <= j.version, i.epoch <= j.epoch,
           i.version = j.version => i.live = j.live /\ i.dirs = j.dirs,
           \A f \in Files \ (since \cup hidden) : ExactRec(i.live[f], f)
    PROVE  LET r == [Idle EXCEPT !.pc = "answer", !.opened = i, !.since = since]
           IN  r \in Process /\ r.cur = Root /\ r.pc = "answer" /\ ProcOK(p, r, j)
<1> DEFINE r == [Idle EXCEPT !.pc = "answer", !.opened = i, !.since = since]
<1>0. p \in Procs /\ now \in Nat /\ touched \in [Files -> Nat]
  BY DEF Procs, TypeOK
<1>1. /\ r \in Process /\ r.pc = "answer" /\ r.opened = i /\ r.checked = 0 /\ r.since = since /\ Blank(r)
      /\ r.cur = Root
  BY IdleIs DEF Process, Blank
<1> HIDE DEF r
<1>2. OpenedOK(r, j)
  BY <1>1 DEF OpenedOK
<1>3. AnswerOK(p, r)
  BY <1>1 DEF AnswerOK, Quiet, Blank
<1>4. r \in Process /\ r.cur = Root /\ r.pc = "answer" /\ ProcOK(p, r, j)
  BY <1>0, <1>1, <1>2, <1>3, BlankOK DEF StatOK
<1> QED BY <1>4 DEF r

LEMMA EndAnswerKeeps ==
    ASSUME IInv, NEW p \in Procs, EndAnswer(p)
    PROVE  IInv'
<1>1. Become(p, Idle) /\ UNCHANGED <<tree, now, ops, builds, index, touched, hidden>>
  BY DEF EndAnswer, Step
<1>2. Idle.cur \notin Files
  BY IdleIs, TreeAssumption DEF Blank
<1> QED BY <1>1, <1>2, Has, IdleIs, IdleOK, SoloKeeps

LEMMA OpenFreshKeeps ==
    ASSUME IInv, NEW q \in Queries, OpenFresh(q)
    PROVE  IInv'
<1> DEFINE since == {f \in Files : touched[f] > now - TTL}
           r == IF now - index.verified < TTL
                THEN [Idle EXCEPT !.pc = "answer", !.opened = index, !.since = since]
                ELSE Checking(index, FALSE)
<1>1. /\ Become(q, r) /\ index.version > 0 /\ q \in Procs
      /\ UNCHANGED <<tree, now, ops, builds, index, touched, hidden>>
  BY DEF OpenFresh, Step, Procs
<1>2. Root \notin Files
  BY TreeAssumption
<1>3. r \in Process /\ r.cur = Root /\ r.pc \in {"answer", "stat"} /\ ProcOK(q, r, index)
  <2>1. CASE now - index.verified < TTL
    <3>1. \A f \in Files \ (since \cup hidden) : ExactRec(index.live[f], f)
      <4> SUFFICES ASSUME NEW f \in Files \ hidden, touched[f] <= now - TTL
          PROVE ExactRec(index.live[f], f)
        BY <1>1, Has, ScaleAssumption
      <4>1. /\ touched[f] \in Nat /\ index.verified \in Nat /\ now \in Nat /\ TTL \in Nat
            /\ ExactRec(index.live[f], f) \/ touched[f] >= index.verified
        BY <1>1, Has, ScaleAssumption DEF VerifiedOK, IndexType
      <4> QED BY <2>1, <4>1
    <3>2. index.version \in Nat /\ index.epoch \in Nat
      BY <1>1, Has DEF IndexType
    <3> HIDE DEF since
    <3>3. since \in SUBSET Files
      BY DEF since
    <3>4. /\ TypeOK /\ index \in IndexType /\ IndexOK(index)
          /\ index.version <= index.version /\ index.epoch <= index.epoch
      BY <1>1, <3>2, Has
    <3>5. r = [Idle EXCEPT !.pc = "answer", !.opened = index, !.since = since]
      BY <2>1
    <3> HIDE DEF r
    <3> QED BY <1>1, <3>1, <3>3, <3>4, <3>5, AnsweringOK
  <2>2. CASE ~(now - index.verified < TTL)
    BY <1>1, <2>2, Has, CheckingOK
  <2> QED BY <2>1, <2>2
<1> HIDE DEF r
<1> QED BY <1>1, <1>2, <1>3, Has, SoloKeeps


\* A stat returns what the tree holds.
LEMMA StatOfIs ==
    ASSUME TypeOK, TreeOK, NEW e \in Entries
    PROVE  /\ StatOf(e) \in Stamps
           /\ StatOf(e) = Absent <=> ~Reach(e)
           /\ Reach(e) => StatOf(e) = tree[e].stamp /\ Existed(e)
           /\ StatOf(e).time <= tree[e].stamp.time
<1>1. tree[e].stamp \in Stamps /\ Absent \in Stamps /\ Absent.time = 0
  BY NoIndexIs DEF TypeOK, Absent
<1>2. Reach(e) => Existed(e) /\ tree[e].stamp # Absent
  BY WayUp DEF Reach, ReachIn, TreeOK, Existed
<1>3. tree[e].stamp.time \in Nat
  BY <1>1 DEF Stamps
<1> QED BY <1>1, <1>2, <1>3 DEF StatOf

LEMMA StatEntryKeeps ==
    ASSUME IInv, NEW q \in Queries, StatEntry(q)
    PROVE  IInv'
<1> DEFINE s == proc[q]
<1>1. PICK e \in s.left : /\ s.pc = "stat"
                          /\ Step(q, [s EXCEPT !.left = @ \ {e}, !.saw[e] = StatOf(e)])
  BY DEF StatEntry
<1> DEFINE r == [s EXCEPT !.left = @ \ {e}, !.saw[e] = StatOf(e)]
<1>2. q \in Procs /\ s \in Process /\ ProcOK(q, s, index) /\ TypeOK /\ TreeOK /\ (s.cur \notin Files)
  BY <1>1, Has DEF Procs
<1>3. StatOK(q, s) /\ OpenedOK(s, index) /\ ClocksOK(s) /\ GotOK(q, s)
  BY <1>2 DEF ProcOK
<1>4. e \in Entries /\ e \in Known(s.opened)
  BY <1>1, <1>2, <1>3 DEF StatOK, Process
<1>5. /\ r \in Process /\ r.pc = "stat" /\ r.left = s.left \ {e} /\ r.saw[e] = StatOf(e)
      /\ \A w \in Entries \ {e} : r.saw[w] = s.saw[w]
      /\ r.opened = s.opened /\ r.since = s.since /\ r.checked = s.checked /\ r.from = s.from
      /\ r.started = s.started /\ r.found = s.found /\ r.gone = s.gone /\ r.dirs = s.dirs
      /\ r.got = s.got /\ r.unsettled = s.unsettled /\ r.cur = s.cur
  <2>1. r \in Process
    BY <1>2, <1>4, StatOfIs DEF Process
  <2> QED BY <2>1, <1>1, <1>2, <1>4 DEF Process
<1> HIDE DEF r, s
<1>6. OpenedOK(r, index) /\ ClocksOK(r) /\ GotOK(q, r)
  BY <1>1, <1>3, <1>5 DEF OpenedOK, ClocksOK, GotOK
<1>7. StatOK(q, r)
  <2>1. /\ q \in Queries /\ r.opened.version > 0 /\ r.left \subseteq Known(r.opened)
        /\ r.found = Idle.found /\ r.gone = {} /\ r.dirs = Idle.dirs
    BY <1>1, <1>3, <1>5 DEF StatOK
  <2>2. ASSUME NEW w \in Known(r.opened) \ r.left PROVE SeenOK(r, w)
    <3>1. CASE w = e
      <4>1. /\ StatOf(e) = Absent => Gone(e)
            /\ StatOf(e) # Absent => Reach(e) /\ StatOf(e).time = tree[e].stamp.time
            /\ StatOf(e).time <= tree[e].stamp.time
        BY <1>2, <1>4, StatOfIs DEF Gone
      <4> QED BY <1>5, <3>1, <4>1 DEF SeenOK
    <3>2. CASE w # e
      <4>1. w \in Known(s.opened) \ s.left /\ w \in Entries
        BY <1>5, <3>2 DEF Known, Live, Entries
      <4>2. SeenOK(s, w)
        BY <1>1, <1>3, <4>1 DEF StatOK
      <4> QED BY <1>5, <3>2, <4>1, <4>2 DEF SeenOK, Quiet
    <3> QED BY <3>1, <3>2
  <2>3. ShownOK(r)
    <3> SUFFICES ASSUME NEW c \in Entries \ {Root}, NEW f \in Files,
                        c \in Way(f), c \notin Known(r.opened),
                        Parent[c] \in Known(r.opened) \ r.left, Quiet(r, f), Reach(f)
        PROVE r.opened.dirs[Parent[c]].time < r.saw[Parent[c]].time
      BY DEF ShownOK
    <3>1. Parent[c] \in Entries
      BY WayUp DEF Entries
    <3>2. CASE Parent[c] = e
      <4>0. f \in Entries /\ f \in Below(c) /\ f \notin hidden
        BY DEF Entries, Below, Quiet
      <4>1. f \in Entries /\ Reach(c) /\ f \in Below(c) /\ f \notin hidden
        BY <4>0, ReachUp
      <4>2. Parent[c] \in Way(c)
        BY <3>1, WayUp
      <4>5. Reach(e)
        BY <3>2, <4>1, <4>2, ReachUp
      <4>3. Covers(Known(s.opened), s.opened.dirs, {})
        BY <1>3 DEF OpenedOK, IndexOK
      <4>4. s.opened.dirs[e].time < tree[e].stamp.time
        BY <1>4, <1>5, <3>2, <4>1, <4>3 DEF Covers
      <4> QED BY <1>2, <1>4, <1>5, <3>2, <4>5, <4>4, StatOfIs
    <3>3. CASE Parent[c] # e
      <4>1. Parent[c] \in Known(s.opened) \ s.left /\ Quiet(s, f)
        BY <1>5, <3>3 DEF Quiet
      <4>2. ShownOK(s)
        BY <1>1, <1>3 DEF StatOK
      <4> QED BY <1>5, <3>1, <3>3, <4>1, <4>2 DEF ShownOK
    <3> QED BY <3>2, <3>3
  <2> QED BY <2>1, <2>2, <2>3 DEF StatOK
<1>8. ProcOK(q, r, index)
  BY <1>5, <1>6, <1>7 DEF ProcOK, ListOK, ReadsOK, ReadingOK, ParseOK, AnswerOK
<1>9. Become(q, r) /\ UNCHANGED <<tree, now, ops, builds, index, touched, hidden>>
  BY <1>1 DEF Step, r, s
<1> QED BY <1>2, <1>5, <1>8, <1>9, Has, SoloKeeps

\* What a check concludes of an entry is what it saw of it or of one above it.
LEMMA SawIs ==
    ASSUME IInv, NEW q \in Queries, proc[q].pc = "stat", proc[q].left = {},
           NEW e \in Known(proc[q].opened)
    PROVE  /\ e \in Entries /\ Saw(q, e) \in Stamps
           /\ Saw(q, e) # Absent => Saw(q, e) = proc[q].saw[e]
           /\ Saw(q, e) = Absent => \E w \in Way(e) \cap Known(proc[q].opened) : Gone(w)
           /\ SeenOK(proc[q], e)
<1> DEFINE s == proc[q]
<1>1. q \in Procs /\ s \in Process /\ ProcOK(q, s, index)
  BY Has DEF Procs
<1>2. StatOK(q, s) /\ s.saw \in [Entries -> Stamps]
  BY <1>1 DEF ProcOK, Process
<1>3. \A w \in Known(s.opened) : SeenOK(s, w)
  BY <1>2 DEF StatOK
<1>4. e \in Entries /\ e \in Way(e)
  BY WayUp DEF Known, Live, Entries
<1>5. Absent \in Stamps
  BY NoIndexIs
<1> HIDE DEF s
<1>6. /\ Saw(q, e) = IF \E w \in Way(e) \cap Known(s.opened) : s.saw[w] = Absent THEN Absent ELSE s.saw[e]
  BY DEF Saw, s
<1>7. \A w \in Known(s.opened) : s.saw[w] = Absent => Gone(w)
  BY <1>3 DEF SeenOK
<1>8. Saw(q, e) = Absent => \E w \in Way(e) \cap Known(s.opened) : s.saw[w] = Absent
  BY <1>4, <1>6 DEF s
<1> QED BY <1>2, <1>3, <1>4, <1>5, <1>6, <1>7, <1>8 DEF s

LEMMA ClassifyKeeps ==
    ASSUME IInv, NEW q \in Queries, Classify(q)
    PROVE  IInv'
<1> DEFINE s == proc[q]
           i == s.opened
           known == Known(i)
           live == Live(i)
           moves == InodesMove(q)
           noIno == i.noIno \/ moves
           here == {f \in live : Saw(q, f) # Absent}
           modified == {f \in here : ~Same(Saw(q, f), i.live[f].stamp, noIno) \/ i.live[f].doubt # "none"}
           changed == {d \in known \cap Dirs : Saw(q, d) # Absent /\ ~Same(Saw(q, d), i.dirs[d], noIno)}
           r == [s EXCEPT !.pc = "list", !.left = changed, !.saw = Idle.saw, !.noIno = moves,
                   !.gone = live \ here,
                   !.found = [f \in Files |-> IF f \in modified THEN Saw(q, f) ELSE Absent],
                   !.dirs = [d \in Dirs |-> IF d \in changed THEN Saw(q, d) ELSE Absent]]
<1>1. /\ s.pc = "stat" /\ s.left = {} /\ Become(q, r)
      /\ UNCHANGED <<tree, now, ops, builds, index, touched, hidden>>
  BY DEF Classify, Step
<1>2. q \in Procs /\ q \notin Builders /\ s \in Process /\ ProcOK(q, s, index) /\ TypeOK /\ TreeOK /\ s.cur \notin Files
  BY <1>1, Has, ProcessesAssumption DEF Procs
<1>3. StatOK(q, s) /\ OpenedOK(s, index) /\ ClocksOK(s) /\ GotOK(q, s)
  BY <1>2 DEF ProcOK
<1>4. /\ i \in IndexType /\ IndexOK(i) /\ i.version > 0 /\ live \subseteq Files /\ live \subseteq known
      /\ \A f \in live : i.live[f] # NoRec /\ i.live[f] \in Records
      /\ known = live \cup {d \in Dirs : i.dirs[d] # Absent}
  BY <1>1, <1>2, <1>3 DEF StatOK, OpenedOK, Process, Known, Live, IndexType
<1>5. ShownOK(s)
  BY <1>1, <1>3 DEF StatOK
<1>6. \A e \in known :
         /\ e \in Entries /\ Saw(q, e) \in Stamps
         /\ Saw(q, e) # Absent => Saw(q, e) = s.saw[e]
         /\ Saw(q, e) = Absent => \E w \in Way(e) \cap known : Gone(w)
         /\ SeenOK(s, e)
  BY <1>1, SawIs
<1>7. moves \in BOOLEAN
  BY DEF InodesMove
<1> HIDE DEF moves, known, live, i, s
<1> DEFINE gone == live \ here
           found == [f \in Files |-> IF f \in modified THEN Saw(q, f) ELSE Absent]
           dirs == [d \in Dirs |-> IF d \in changed THEN Saw(q, d) ELSE Absent]
<1>8. /\ found \in [Files -> Stamps] /\ \A f \in Files : found[f] # Absent <=> f \in modified
      /\ dirs \in [Dirs -> Stamps]
      /\ \A d \in Dirs : dirs[d] # Absent <=> d \in changed
      /\ \A d \in changed : dirs[d] = s.saw[d] /\ d \in Dirs /\ d \in known
  BY <1>4, <1>6, NoIndexIs
<1>9. /\ changed \subseteq Dirs /\ gone \subseteq live /\ modified \subseteq live \ gone
  BY <1>4
<1>10. changed \subseteq Entries /\ gone \subseteq Files
  BY <1>4, <1>9 DEF Entries
\* what the sets mean
<1>11. \A f \in gone : Gone(f)
  <2> SUFFICES ASSUME NEW f \in gone PROVE Gone(f)
    OBVIOUS
  <2>1. f \in known /\ Saw(q, f) = Absent /\ f \in Files
    BY <1>4
  <2>2. PICK w \in Way(f) : Gone(w)
    BY <1>6, <2>1
  <2> QED BY <2>1, <2>2, GoneUp, BelowOwn DEF Gone
<1>12. \A f \in live \ (gone \cup modified) : Quiet(s, f) => ExactRec(i.live[f], f)
  <2> SUFFICES ASSUME NEW f \in live \ (gone \cup modified), Quiet(s, f) PROVE ExactRec(i.live[f], f)
    OBVIOUS
  <2>1. /\ f \in Files /\ f \in known /\ Saw(q, f) # Absent
        /\ Same(Saw(q, f), i.live[f].stamp, noIno) /\ i.live[f].doubt = "none"
    BY <1>4
  <2>2. Reach(f) /\ s.saw[f].time = tree[f].stamp.time /\ Saw(q, f) = s.saw[f]
    BY <1>6, <2>1 DEF SeenOK
  <2>3. tree[f].stamp.time = i.live[f].stamp.time
    BY <2>1, <2>2 DEF Same
  <2>4. RecordOK(f, i.live[f]) /\ i.live[f] # NoRec
    BY <1>4, <2>1 DEF IndexOK, RecordsOK
  <2>5. ~Gone(f)
    BY <2>1, <2>2, BelowOwn DEF Gone, Quiet
  <2>6. tree[f].content = i.live[f].content /\ i.live[f].symbols \in {0, i.live[f].content}
    BY <2>1, <2>3, <2>4, <2>5 DEF RecordOK
  <2> QED BY <2>2, <2>6 DEF ExactRec, Truth
<1>13. \A d \in changed : s.saw[d].time <= tree[d].stamp.time /\ Existed(d)
  <2> SUFFICES ASSUME NEW d \in changed PROVE s.saw[d].time <= tree[d].stamp.time /\ Existed(d)
    OBVIOUS
  <2>1. d \in Dirs /\ d \in known /\ d \notin Files
    BY <1>8, TreeAssumption
  <2> QED BY <1>4, <1>6, <2>1 DEF SeenOK, IndexOK, StampsOK
\* what was unknown on the way to a quiet file shows
<1>14. ASSUME NEW f \in Files, Quiet(s, f), Reach(f), NEW e \in Way(f), e # Root, e \notin known,
              Parent[e] \in known
       PROVE  Parent[e] \in changed
  <2> DEFINE d == Parent[e]
  <2>1. f \in Entries /\ e \in Entries /\ d \in Dirs /\ d \in Entries /\ d \in Way(f)
    <3>1. f \in Entries /\ e \in Entries
      BY WayUp DEF Entries
    <3>2. d \in Dirs /\ d \in Entries
      BY <1>14, <3>1, WayUp DEF Entries
    <3>3. d \in Way(e)
      BY <1>14, <3>1, <3>2, WayUp
    <3> QED BY <3>1, <3>2, <3>3, WayOn
  <2>2. i.dirs[d].time < s.saw[d].time
    BY <1>1, <1>5, <1>14, <2>1 DEF ShownOK, known, i
  <2>3. Saw(q, d) # Absent
    <3> SUFFICES ASSUME Saw(q, d) = Absent PROVE FALSE
      OBVIOUS
    <3>1. PICK w \in Way(d) : Gone(w)
      BY <1>6, <1>14
    <3>2. w \in Way(f)
      BY <2>1, <3>1, WayOn
    <3> QED BY <1>14, <3>1, <3>2, GoneUp DEF Quiet
  <2>4. Saw(q, d) = s.saw[d] /\ s.saw[d].time \in Nat /\ i.dirs[d].time \in Nat
    <3>1. Saw(q, d) = s.saw[d] /\ Saw(q, d) \in Stamps /\ i.dirs[d] \in Stamps
      BY <1>4, <1>6, <1>14, <2>1, <2>3 DEF IndexType
    <3> QED BY <3>1 DEF Stamps
  <2>5. ~Same(Saw(q, d), i.dirs[d], noIno)
    BY <2>2, <2>4 DEF Same
  <2> QED BY <1>14, <2>1, <2>3, <2>5
<1>15. /\ r \in Process /\ r.pc = "list" /\ r.left = changed /\ r.gone = gone /\ r.found = found /\ r.dirs = dirs
       /\ r.opened = i /\ r.since = s.since /\ r.checked = s.checked /\ r.from = s.from
       /\ r.started = s.started /\ r.got = s.got /\ r.unsettled = s.unsettled /\ r.cur = s.cur
  <2> HIDE DEF gone, found, dirs, changed
  <2>1. r = [s EXCEPT !.pc = "list", !.left = changed, !.saw = Idle.saw, !.noIno = moves,
                      !.gone = gone, !.found = found, !.dirs = dirs]
    BY DEF gone, found, dirs
  <2> HIDE DEF r
  <2>2. s \in Process /\ Idle.saw \in [Entries -> Stamps]
    BY <1>2, IdleIs
  <2>3. r \in Process
    BY <1>7, <1>8, <1>10, <2>1, <2>2 DEF Process
  <2> QED BY <2>1, <2>2, <2>3 DEF Process, i
<1> HIDE DEF r, gone, found, dirs, changed, modified, here, noIno
<1>16. /\ FoundIn(r) = modified /\ ToList(r) = changed
       /\ \A d \in Dirs : StampsIn(r)[d] = IF d \in changed THEN s.saw[d] ELSE i.dirs[d]
       /\ \A d \in Dirs : StampsIn(r)[d] # Absent <=> i.dirs[d] # Absent
  <2>1. FoundIn(r) = modified
    BY <1>4, <1>8, <1>9, <1>15 DEF FoundIn
  <2>2. ToList(r) = changed
    BY <1>15 DEF ToList
  <2>3. \A d \in Dirs : StampsIn(r)[d] = IF d \in changed THEN s.saw[d] ELSE i.dirs[d]
    BY <1>8, <1>15 DEF StampsIn
  <2>4. \A d \in changed : s.saw[d] # Absent /\ i.dirs[d] # Absent
    BY <1>4, <1>8, TreeAssumption
  <2> QED BY <2>1, <2>2, <2>3, <2>4
<1>17. KnownIn(r) = known \ gone
  <2>1. KnownIn(r) = (live \ gone) \cup modified \cup {d \in Dirs : i.dirs[d] # Absent}
    BY <1>15, <1>16 DEF KnownIn, live, i
  <2> QED BY <1>4, <1>9, <1>10, <2>1, TreeAssumption
<1>18. ListOK(q, r)
  <2>1. Root \in KnownIn(r)
    BY <1>4, <1>10, <1>17, TreeAssumption DEF IndexOK
  <2>2. StampsOK(r.dirs)
    <3> SUFFICES ASSUME NEW d \in Dirs
        PROVE dirs[d].time <= tree[d].stamp.time /\ (dirs[d] # Absent => Existed(d))
      BY <1>15 DEF StampsOK
    <3>1. tree[d].stamp.time \in Nat /\ Absent.time = 0
      BY <1>2 DEF TypeOK, Stamps, Absent, Entries
    <3> QED BY <1>8, <1>13, <3>1
  <2>3. \A f \in FoundIn(r) : Existed(f)
    <3>1. \A f \in live : Existed(f)
      BY <1>4 DEF IndexOK, RecordsOK, RecordOK
    <3> QED BY <1>9, <1>16, <3>1
  <2>4. \A f \in Live(r.opened) \ (r.gone \cup FoundIn(r)) : Quiet(r, f) => ExactRec(r.opened.live[f], f)
    BY <1>12, <1>15, <1>16 DEF Quiet, live
  <2>5. Covers(KnownIn(r), StampsIn(r), ToList(r))
    <3> SUFFICES ASSUME NEW e \in Entries \ {Root}, Reach(e), e \notin KnownIn(r),
                        Parent[e] \in KnownIn(r) \ ToList(r)
        PROVE \/ Below(e) \subseteq hidden
              \/ StampsIn(r)[Parent[e]].time < tree[Parent[e]].stamp.time
      BY DEF Covers
    <3>1. Parent[e] \in Dirs
      BY TreeAssumption
    <3>2. CASE e \in gone
      BY <1>11, <3>2 DEF Gone
    <3>3. CASE e \notin gone
      <4>1. e \notin known /\ Parent[e] \in known \ changed
        BY <1>16, <1>17, <3>3
      <4>2. Covers(known, i.dirs, {})
        BY <1>4 DEF IndexOK, known
      <4>3. Below(e) \subseteq hidden \/ i.dirs[Parent[e]].time < tree[Parent[e]].stamp.time
        BY <4>1, <4>2 DEF Covers
      <4> QED BY <1>16, <3>1, <4>1, <4>3
    <3> QED BY <3>2, <3>3
  <2>6. LeadsTo(r)
    <3> SUFFICES ASSUME NEW f \in Files, Quiet(r, f), Reach(f), NEW e \in Way(f) \ KnownIn(r),
                        e # Root, Parent[e] \in KnownIn(r)
        PROVE Parent[e] \in changed
      BY <1>16 DEF LeadsTo
    <3>1. Quiet(s, f)
      BY <1>15 DEF Quiet
    <3>2. e \notin gone
      <4> SUFFICES ASSUME Gone(e) PROVE FALSE
        BY <1>11
      <4> QED BY <3>1, GoneUp DEF Quiet
    <3> QED BY <1>14, <1>17, <3>1, <3>2
  <2>7. r.opened.version > 0 /\ r.gone \subseteq Live(r.opened) /\ \A f \in r.gone : Gone(f)
    BY <1>4, <1>9, <1>11, <1>15 DEF live
  <2> QED BY <1>2, <1>9, <1>16, <2>1, <2>2, <2>3, <2>4, <2>5, <2>6, <2>7 DEF ListOK
<1>19. OpenedOK(r, index) /\ ClocksOK(r) /\ GotOK(q, r)
  <2>1. r.opened = s.opened
    BY <1>15 DEF i
  <2> QED BY <1>1, <1>3, <1>15, <2>1 DEF OpenedOK, ClocksOK, GotOK
<1>20. ProcOK(q, r, index)
  BY <1>15, <1>18, <1>19 DEF ProcOK, StatOK, ReadsOK, ReadingOK, ParseOK, AnswerOK
<1> QED BY <1>1, <1>2, <1>15, <1>20, Has, SoloKeeps

LEMMA ListDirKeeps ==
    ASSUME IInv, NEW p \in Procs, ListDir(p)
    PROVE  IInv'
<1> DEFINE s == proc[p]
           i == s.opened
<1>1. PICK d \in s.left :
         /\ s.pc = "list"
         /\ LET new == Kids(d) \ Known(i)
            IN  Step(p, [s EXCEPT
                  !.left = (@ \ {d}) \cup (new \cap Dirs),
                  !.found = [f \in Files |-> IF f \in new THEN StatOf(f) ELSE @[f]],
                  !.dirs = [c \in Dirs |-> IF c \in new THEN StatOf(c) ELSE @[c]]])
  BY DEF ListDir
<1> DEFINE new == Kids(d) \ Known(i)
           left == (s.left \ {d}) \cup (new \cap Dirs)
           found == [f \in Files |-> IF f \in new THEN StatOf(f) ELSE s.found[f]]
           dirs == [c \in Dirs |-> IF c \in new THEN StatOf(c) ELSE s.dirs[c]]
           r == [s EXCEPT !.left = left, !.found = found, !.dirs = dirs]
<1>2. Become(p, r) /\ UNCHANGED <<tree, now, ops, builds, index, touched, hidden>>
  BY <1>1 DEF Step
<1>3. s \in Process /\ ProcOK(p, s, index) /\ TypeOK /\ TreeOK /\ s.cur \notin Files
  BY <1>1, Has
<1>4. ListOK(p, s) /\ OpenedOK(s, index) /\ ClocksOK(s) /\ GotOK(p, s) /\ ToList(s) = s.left
  BY <1>1, <1>3 DEF ProcOK, ToList
<1>5. /\ s.left \subseteq Dirs /\ d \in Dirs /\ s.found \in [Files -> Stamps] /\ s.dirs \in [Dirs -> Stamps]
      /\ i \in IndexType
  BY <1>1, <1>3, <1>4 DEF ListOK, Process
<1>6. /\ new \subseteq Entries /\ Root \notin new /\ new \cap Known(i) = {}
      /\ \A e \in new : Parent[e] = d /\ Reach(e)
      /\ \A e \in Entries \ {Root} : Parent[e] = d /\ Reach(e) => e \in new \cup Known(i)
  BY DEF Kids
<1>7. \A e \in new : /\ StatOf(e) \in Stamps /\ StatOf(e) # Absent /\ Existed(e)
                     /\ StatOf(e).time <= tree[e].stamp.time
  BY <1>3, <1>6, StatOfIs
<1> HIDE DEF new
<1>8. /\ left \subseteq Dirs /\ found \in [Files -> Stamps] /\ dirs \in [Dirs -> Stamps]
      /\ \A f \in Files : found[f] # Absent <=> f \in new \/ s.found[f] # Absent
      /\ \A c \in Dirs \ new : dirs[c] = s.dirs[c]
      /\ \A c \in Dirs \cap new : dirs[c] = StatOf(c)
  BY <1>5, <1>7
<1> HIDE DEF left, found, dirs
<1>9. /\ r \in Process /\ r.pc = "list" /\ r.left = left /\ r.gone = s.gone /\ r.found = found /\ r.dirs = dirs
      /\ r.opened = i /\ r.since = s.since /\ r.checked = s.checked /\ r.from = s.from
      /\ r.started = s.started /\ r.got = s.got /\ r.unsettled = s.unsettled /\ r.cur = s.cur
  <2>1. r \in Process
    BY <1>3, <1>8 DEF Process, Entries
  <2> QED BY <1>1, <1>3, <2>1 DEF Process
<1> HIDE DEF r, i, s
<1>10. /\ FoundIn(r) = FoundIn(s) \cup (new \cap Files) /\ ToList(r) = left
       /\ \A c \in Dirs \ new : StampsIn(r)[c] = StampsIn(s)[c]
       /\ \A c \in Dirs \cap new : StampsIn(r)[c] = StatOf(c)
  BY <1>7, <1>8, <1>9 DEF FoundIn, ToList, StampsIn, i
<1>11. KnownIn(r) = KnownIn(s) \cup new
  <2>1. {c \in Dirs : StampsIn(r)[c] # Absent} = {c \in Dirs : StampsIn(s)[c] # Absent} \cup (new \cap Dirs)
    BY <1>7, <1>10
  <2>2. new = (new \cap Files) \cup (new \cap Dirs)
    BY <1>6 DEF Entries
  <2> QED BY <1>9, <1>10, <2>1, <2>2 DEF KnownIn, i
<1>12. Known(i) \subseteq KnownIn(s) \cup s.gone
  <2>1. \A c \in Dirs : i.dirs[c] # Absent => StampsIn(s)[c] # Absent
    BY DEF StampsIn, i
  <2> QED BY <2>1 DEF Known, KnownIn, i
\* what is left of the directory's entries is gone
<1>13. ASSUME NEW e \in Entries \ {Root}, Parent[e] = d, Reach(e), e \notin KnownIn(r)
       PROVE  Gone(e)
  <2>1. e \in s.gone
    BY <1>6, <1>11, <1>12, <1>13
  <2> QED BY <1>1, <1>4, <2>1 DEF ListOK
<1>14. ListOK(p, r)
  <2>1. /\ p \in Queries => r.opened.version > 0
        /\ p \in Builders => r.opened = NoIndex
        /\ Root \in KnownIn(r) /\ ToList(r) \subseteq Dirs
        /\ r.gone \subseteq Live(r.opened) /\ \A f \in r.gone : Gone(f)
    BY <1>1, <1>4, <1>8, <1>9, <1>10, <1>11 DEF ListOK, i
  <2>2. StampsOK(r.dirs)
    <3> SUFFICES ASSUME NEW c \in Dirs
        PROVE dirs[c].time <= tree[c].stamp.time /\ (dirs[c] # Absent => Existed(c))
      BY <1>9 DEF StampsOK
    <3>1. StampsOK(s.dirs)
      BY <1>1, <1>4 DEF ListOK
    <3> QED BY <1>7, <1>8, <3>1 DEF StampsOK
  <2>3. \A f \in FoundIn(r) : Existed(f)
    BY <1>1, <1>4, <1>7, <1>10 DEF ListOK
  <2>4. \A f \in Live(r.opened) \ (r.gone \cup FoundIn(r)) : Quiet(r, f) => ExactRec(r.opened.live[f], f)
    BY <1>1, <1>4, <1>9, <1>10 DEF ListOK, Quiet, i
  <2>5. Covers(KnownIn(r), StampsIn(r), ToList(r))
    <3> SUFFICES ASSUME NEW e \in Entries \ {Root}, Reach(e), e \notin KnownIn(r),
                        Parent[e] \in KnownIn(r) \ left
        PROVE \/ Below(e) \subseteq hidden
              \/ StampsIn(r)[Parent[e]].time < tree[Parent[e]].stamp.time
      BY <1>10 DEF Covers
    <3>1. Parent[e] \in Dirs
      BY TreeAssumption
    <3>2. CASE Parent[e] = d
      BY <1>13, <3>2 DEF Gone
    <3>3. CASE Parent[e] # d
      <4>1. Parent[e] \notin new
        BY <3>1 DEF left
      <4>2. Parent[e] \in KnownIn(s) \ s.left /\ e \notin KnownIn(s)
        BY <1>11, <3>3, <4>1 DEF left
      <4>3. Covers(KnownIn(s), StampsIn(s), s.left)
        BY <1>1, <1>4 DEF ListOK
      <4> QED BY <1>10, <3>1, <4>1, <4>2, <4>3 DEF Covers
    <3> QED BY <3>2, <3>3
  <2>6. LeadsTo(r)
    <3> SUFFICES ASSUME NEW f \in Files, Quiet(r, f), Reach(f), NEW e \in Way(f) \ KnownIn(r),
                        e # Root, Parent[e] \in KnownIn(r)
        PROVE Parent[e] \in left
      BY <1>10 DEF LeadsTo
    <3>1. Quiet(s, f)
      BY <1>9 DEF Quiet
    <3>2. f \in Entries /\ e \in Entries /\ Reach(e)
      <4>1. f \in Entries
        BY DEF Entries
      <4> QED BY <4>1, WayUp, ReachUp
    <3>3. Parent[e] # d
      <4> SUFFICES ASSUME Parent[e] = d PROVE FALSE
        OBVIOUS
      <4>1. Gone(e)
        BY <1>13, <3>2
      <4> QED BY <3>1, <4>1, GoneUp DEF Quiet
    <3>4. Parent[e] \in Dirs
      BY <3>2, TreeAssumption
    <3>5. CASE Parent[e] \in KnownIn(s)
      <4>1. LeadsTo(s)
        BY <1>1, <1>4 DEF ListOK
      <4>2. Parent[e] \in s.left
        BY <1>4, <1>11, <3>1, <3>5, <4>1 DEF LeadsTo
      <4> QED BY <3>3, <4>2 DEF left
    <3>6. CASE Parent[e] \notin KnownIn(s)
      BY <1>11, <3>4, <3>6 DEF left
    <3> QED BY <3>5, <3>6
  <2> QED BY <2>1, <2>2, <2>3, <2>4, <2>5, <2>6 DEF ListOK
<1>15. OpenedOK(r, index) /\ ClocksOK(r) /\ GotOK(p, r)
  <2>1. r.opened = s.opened
    BY <1>9 DEF i
  <2> QED BY <1>1, <1>4, <1>9, <2>1 DEF OpenedOK, ClocksOK, GotOK
<1>16. ProcOK(p, r, index)
  BY <1>9, <1>14, <1>15 DEF ProcOK, StatOK, ReadsOK, ReadingOK, ParseOK, AnswerOK
<1> QED BY <1>2, <1>3, <1>9, <1>16, Has, SoloKeeps

\* When nothing is left to list, everything nobody has touched is known.
LEMMA WalkIsDone ==
    ASSUME NEW p, NEW s \in Process, s.pc \in {"list", "read", "reading"}, ListOK(p, s), ToList(s) = {},
           NEW f \in Files, Quiet(s, f), Reach(f)
    PROVE  f \in (Live(s.opened) \ s.gone) \cup FoundIn(s)
<1>1. f \in Entries /\ f \notin Dirs
  BY TreeAssumption DEF Entries
<1>2. Root \in KnownIn(s) /\ LeadsTo(s)
  BY DEF ListOK
<1>3. f \in KnownIn(s)
  <2> SUFFICES ASSUME f \notin KnownIn(s) PROVE FALSE
    OBVIOUS
  <2>1. PICK w \in Way(f) \ KnownIn(s) : w # Root /\ Parent[w] \in KnownIn(s)
    BY <1>1, <1>2, Topmost
  <2> QED BY <1>2, <2>1 DEF LeadsTo
<1> QED BY <1>1, <1>3 DEF KnownIn

LEMMA Reflected ==
    ASSUME NEW p, NEW s \in Process, s.pc \in {"list", "read", "reading"}, ListOK(p, s), ToList(s) = {},
           NEW f \in Files, Quiet(s, f)
    PROVE  f \in s.gone \cup FoundIn(s) \/ ExactRec(s.opened.live[f], f)
<1>1. CASE f \in Live(s.opened)
  BY <1>1 DEF ListOK
<1>2. CASE f \notin Live(s.opened)
  <2>1. Reach(f) => f \in FoundIn(s)
    BY <1>2, WalkIsDone
  <2>2. s.opened.live[f] = NoRec
    BY <1>2 DEF Live
  <2>3. ~Reach(f) => ExactRec(s.opened.live[f], f)
    BY <2>2 DEF ExactRec, Truth, NoRec
  <2> QED BY <2>1, <2>3
<1> QED BY <1>1, <1>2

LEMMA ToReadKeeps ==
    ASSUME IInv, NEW p \in Procs, ToRead(p)
    PROVE  IInv'
<1> DEFINE s == proc[p]
           from == IF p \in Builders THEN s.checked ELSE now
           r == [s EXCEPT !.pc = "read", !.left = Found(p), !.from = from]
<1>1. /\ s.pc = "list" /\ s.left = {} /\ Become(p, r)
      /\ UNCHANGED <<tree, now, ops, builds, index, touched, hidden>>
  BY DEF ToRead, Step
<1>2. s \in Process /\ ProcOK(p, s, index) /\ s.cur \notin Files /\ now \in Nat /\ TypeOK
  BY <1>1, Has
<1>3. ListOK(p, s) /\ OpenedOK(s, index) /\ ClocksOK(s) /\ GotOK(p, s) /\ ToList(s) = {}
  BY <1>1, <1>2 DEF ProcOK, ToList
<1>4. from \in Nat /\ from <= now
  BY <1>2, <1>3 DEF Process, ClocksOK
<1> HIDE DEF from
<1>5. /\ r \in Process /\ r.pc = "read" /\ r.left = FoundIn(s) /\ r.gone = s.gone /\ r.found = s.found
      /\ r.dirs = s.dirs /\ r.opened = s.opened /\ r.since = s.since /\ r.checked = s.checked
      /\ r.from = from /\ r.started = s.started /\ r.got = s.got /\ r.unsettled = s.unsettled
      /\ r.cur = s.cur
  <2>1. Found(p) = FoundIn(s)
    BY DEF Found, FoundIn
  <2>2. FoundIn(s) \subseteq Entries
    BY DEF FoundIn, Entries
  <2>3. r \in Process
    BY <1>2, <1>4, <2>1, <2>2 DEF Process
  <2> QED BY <1>2, <2>1, <2>3 DEF Process
<1> HIDE DEF r, s
<1>6. /\ FoundIn(r) = FoundIn(s) /\ StampsIn(r) = StampsIn(s) /\ KnownIn(r) = KnownIn(s)
      /\ ToList(r) = {} /\ ToList(s) = {} /\ \A f : Quiet(r, f) <=> Quiet(s, f)
  BY <1>3, <1>5 DEF FoundIn, StampsIn, KnownIn, ToList, Quiet
<1>7. ListOK(p, r)
  <2>1. LeadsTo(r)
    BY <1>1, <1>3, <1>6 DEF ListOK, LeadsTo
  <2> QED BY <1>1, <1>3, <1>5, <1>6, <2>1 DEF ListOK
<1>8. ReadsOK(p, r)
  <2>1. s.unsettled = {} /\ \A f \in Files : s.got[f] = NoRec
    BY <1>1, <1>3, IdleIs DEF GotOK
  <2>2. Pending(r) = FoundIn(r)
    BY <1>5, <1>6 DEF Pending
  <2>0. NoRec.symbols = 0
    BY DEF NoRec
  <2>3. \A f \in Files : r.got[f] = NoRec /\ r.got[f].symbols = 0
    BY <1>5, <2>0, <2>1
  <2>4. r.left \subseteq FoundIn(r) /\ r.unsettled = {} /\ FoundIn(r) \ Pending(r) = {}
    BY <1>5, <1>6, <2>1, <2>2
  <2> QED BY <2>3, <2>4 DEF ReadsOK
<1>9. OpenedOK(r, index) /\ ClocksOK(r) /\ GotOK(p, r)
  BY <1>1, <1>3, <1>4, <1>5 DEF OpenedOK, ClocksOK, GotOK
<1>10. ProcOK(p, r, index)
  BY <1>5, <1>7, <1>8, <1>9 DEF ProcOK, StatOK, ReadingOK, ParseOK, AnswerOK
<1> QED BY <1>1, <1>2, <1>5, <1>10, Has, SoloKeeps

LEMMA DeferKeeps ==
    ASSUME IInv, NEW q \in Queries, Defer(q)
    PROVE  IInv'
<1> DEFINE s == proc[q]
           r == [s EXCEPT !.pc = "answer"]
<1>1. /\ s.pc = "list" /\ s.left = {} /\ Become(q, r) /\ q \in Procs
      /\ UNCHANGED <<tree, now, ops, builds, index, touched, hidden>>
  BY DEF Defer, Step, Procs
<1>2. s \in Process /\ ProcOK(q, s, index) /\ s.cur \notin Files /\ TypeOK
  BY <1>1, Has
<1>3. ListOK(q, s) /\ OpenedOK(s, index) /\ ClocksOK(s) /\ GotOK(q, s) /\ ToList(s) = {}
  BY <1>1, <1>2 DEF ProcOK, ToList
<1>4. /\ r \in Process /\ r.pc = "answer" /\ r.gone = s.gone /\ r.found = s.found
      /\ r.dirs = s.dirs /\ r.opened = s.opened /\ r.since = s.since /\ r.checked = s.checked
      /\ r.from = s.from /\ r.started = s.started /\ r.got = s.got /\ r.cur = s.cur
  BY <1>2 DEF Process
<1> HIDE DEF r, s
<1>5. AnswerOK(q, r)
  <2>1. \A f \in Files : Quiet(s, f) => f \in s.gone \cup FoundIn(s) \/ ExactRec(s.opened.live[f], f)
    BY <1>1, <1>2, <1>3, Reflected
  <2>2. FoundIn(r) = FoundIn(s) /\ \A f : Quiet(r, f) <=> Quiet(s, f)
    BY <1>4 DEF FoundIn, Quiet
  <2>3. s.gone \subseteq Live(s.opened) /\ \A f \in s.gone : Gone(f)
    BY <1>1, <1>3 DEF ListOK
  <2> QED BY <1>4, <2>1, <2>2, <2>3 DEF AnswerOK
<1>6. OpenedOK(r, index) /\ ClocksOK(r) /\ GotOK(q, r)
  BY <1>1, <1>3, <1>4 DEF OpenedOK, ClocksOK, GotOK
<1>7. ProcOK(q, r, index)
  BY <1>4, <1>5, <1>6 DEF ProcOK, StatOK, ListOK, ReadsOK, ReadingOK, ParseOK
<1> QED BY <1>1, <1>2, <1>4, <1>7, Has, SoloKeeps

\* Other processes do not see what an index says of its verification.
LEMMA SameIndex ==
    ASSUME NEW i, NEW j, i.live = j.live, i.dirs = j.dirs, i.version = j.version, i.epoch = j.epoch
    PROVE  /\ IndexOK(i) <=> IndexOK(j)
           /\ \A p, r : ProcOK(p, r, i) <=> ProcOK(p, r, j)
<1>1. Known(i) = Known(j)
  BY DEF Known, Live
<1>2. IndexOK(i) <=> IndexOK(j)
  BY <1>1 DEF IndexOK
<1>3. ASSUME NEW p, NEW r PROVE (OpenedOK(r, i) <=> OpenedOK(r, j)) /\ (ParseOK(p, r, i) <=> ParseOK(p, r, j))
  BY DEF OpenedOK, ParseOK
<1> QED BY <1>2, <1>3 DEF ProcOK

LEMMA ApplyNothingKeeps ==
    ASSUME IInv, NEW q \in Queries, ApplyNothing(q)
    PROVE  IInv'
<1> DEFINE s == proc[q]
           since == s.since
           i == s.opened
           r == [Idle EXCEPT !.pc = "answer", !.opened = i, !.since = since]
           j == [index EXCEPT !.noIno = @ \/ s.noIno,
                   !.verified = IF @ > s.checked THEN @ ELSE s.checked]
<1>1. /\ s.pc = "list" /\ s.left = {} /\ Become(q, r) /\ q \in Procs
      /\ UNCHANGED <<tree, now, ops, builds, touched, hidden>>
      /\ Found(q) = {} /\ s.gone = {}
      /\ (index.version = i.version /\ index' = j) \/ index' = index
  BY DEF ApplyNothing, NoChange, Answering, VerifiedFrom, Procs
<1>2. /\ s \in Process /\ ProcOK(q, s, index) /\ TypeOK /\ index \in IndexType /\ IndexOK(index)
      /\ VerifiedOK(index) /\ now \in Nat /\ touched \in [Files -> Nat] /\ builds \in Nat
  BY <1>1, Has
<1>3. ListOK(q, s) /\ OpenedOK(s, index) /\ ClocksOK(s) /\ ToList(s) = {} /\ FoundIn(s) = {}
  BY <1>1, <1>2 DEF ProcOK, ToList, Found, FoundIn
<1>4. /\ i \in IndexType /\ since \in SUBSET Files /\ s.checked \in Nat /\ s.noIno \in BOOLEAN
      /\ index.verified \in Nat
  BY <1>2 DEF Process, IndexType
<1>5. \A f \in Files \ (since \cup hidden) : ExactRec(i.live[f], f)
  BY <1>1, <1>2, <1>3, Reflected DEF Quiet
<1>6. /\ j \in IndexType /\ j.live = index.live /\ j.dirs = index.dirs /\ j.version = index.version
      /\ j.epoch = index.epoch
      /\ j.verified \in {index.verified, s.checked}
  BY <1>2, <1>4 DEF IndexType
<1> HIDE DEF j
<1>7. ASSUME index.version = i.version PROVE VerifiedOK(j)
  <2>1. j.verified <= now
    BY <1>2, <1>3, <1>6 DEF VerifiedOK, ClocksOK
  <2>2. ASSUME NEW f \in Files \ hidden, j.version > 0 PROVE ExactRec(j.live[f], f) \/ touched[f] >= j.verified
    <3>1. CASE j.verified = index.verified
      BY <1>2, <1>6, <2>2, <3>1 DEF VerifiedOK
    <3>2. CASE j.verified = s.checked
      <4>1. CASE f \in since
        BY <1>3, <3>2, <4>1 DEF ClocksOK
      <4>2. CASE f \notin since
        BY <1>3, <1>5, <1>6, <1>7, <4>2 DEF OpenedOK
      <4> QED BY <4>1, <4>2
    <3> QED BY <1>6, <3>1, <3>2
  <2> QED BY <2>1, <2>2 DEF VerifiedOK
<1> HIDE DEF i, since
<1>8. r \in Process /\ r.cur = Root /\ r.pc = "answer" /\ ProcOK(q, r, index)
  <2>1. /\ IndexOK(i) /\ i.version <= index.version /\ i.epoch <= index.epoch
        /\ i.version = index.version => i.live = index.live /\ i.dirs = index.dirs
    BY <1>3 DEF OpenedOK, i
  <2> QED BY <1>2, <1>4, <1>5, <2>1, AnsweringOK
<1> HIDE DEF r, s
<1>9. r.cur \in Files <=> r.pc \in {"reading", "parsing"}
  BY <1>8, TreeAssumption
<1>10. CASE index' = index
  BY <1>1, <1>2, <1>8, <1>9, <1>10, SoloKeeps
<1>11. CASE index.version = i.version /\ index' = j
  <2>1. IndexOK(j) /\ ProcOK(q, r, j)
    BY <1>2, <1>6, <1>8, SameIndex
  <2>2. \A x \in Procs \ {q} : ProcOK(x, proc[x], j)
    <3>1. \A x \in Procs : ProcOK(x, proc[x], index)
      BY DEF IInv
    <3> QED BY <1>6, <3>1, SameIndex
  <2> QED BY <1>1, <1>2, <1>6, <1>7, <1>8, <1>9, <1>11, <2>1, <2>2, StepKeeps
<1> QED BY <1>1, <1>10, <1>11

\* A delta leaves the index with what its check found, and nothing else changed.
LEMMA DeltaOK ==
    ASSUME IInv, NEW q \in Queries, AllRead(q), index.version = proc[q].opened.version,
           NEW j \in IndexType, j.version = index.version + 1, j.epoch = index.epoch,
           j.verified = proc[q].checked,
           \A f \in Files : j.live[f] = IF f \in FoundIn(proc[q]) THEN proc[q].got[f]
                                        ELSE IF f \in proc[q].gone THEN NoRec ELSE index.live[f],
           \A d \in Dirs : j.dirs[d] = IF proc[q].dirs[d] # Absent THEN proc[q].dirs[d]
                                       ELSE index.dirs[d]
    PROVE  /\ IndexOK(j) /\ VerifiedOK(j)
           /\ \A f \in Files \ (proc[q].since \cup hidden) : ExactRec(j.live[f], f)
           /\ \A p \in Procs \ {q} : ProcOK(p, proc[p], j)
<1> DEFINE s == proc[q]
<1>1. /\ s.pc = "read" /\ s.left = {} /\ s.unsettled = {} /\ q \in Procs
      /\ j.version \in Nat /\ j.version > index.version /\ j.version > 0
  BY Has DEF AllRead, Procs, IndexType
<1>2. /\ s \in Process /\ ProcOK(q, s, index) /\ TypeOK /\ index \in IndexType /\ IndexOK(index)
      /\ now \in Nat /\ touched \in [Files -> Nat]
  BY <1>1, Has
<1>3. /\ ListOK(q, s) /\ OpenedOK(s, index) /\ ClocksOK(s) /\ ReadsOK(q, s) /\ GotOK(q, s)
      /\ ToList(s) = {} /\ Pending(s) = {}
  BY <1>1, <1>2 DEF ProcOK, ToList, Pending
<1>4. s.opened.live = index.live /\ s.opened.dirs = index.dirs
  BY <1>3 DEF OpenedOK
<1> HIDE DEF s
<1>5. /\ \A f \in FoundIn(s) : s.got[f] # NoRec /\ (Quiet(s, f) => ExactRec(s.got[f], f))
      /\ FoundIn(s) \subseteq Files
  BY <1>1, <1>3 DEF ReadsOK, FoundIn
<1>6. /\ \A f \in Files : j.live[f] = IF f \in FoundIn(s) THEN s.got[f]
                                      ELSE IF f \in s.gone THEN NoRec ELSE index.live[f]
      /\ \A d \in Dirs : j.dirs[d] = IF s.dirs[d] # Absent THEN s.dirs[d] ELSE index.dirs[d]
  BY DEF s
<1>7. /\ Known(j) = KnownIn(s)
      /\ \A d \in Dirs : j.dirs[d] = StampsIn(s)[d]
  <2>1. \A d \in Dirs : j.dirs[d] = StampsIn(s)[d]
    BY <1>4, <1>6 DEF StampsIn
  <2>2. Live(j) = (Live(s.opened) \ s.gone) \cup FoundIn(s)
    BY <1>4, <1>5, <1>6 DEF Live
  <2> QED BY <2>1, <2>2 DEF Known, KnownIn
<1>8. IndexOK(j)
  <2>1. RecordsOK(j.live)
    <3>1. RecordsOK(s.got) /\ RecordsOK(index.live)
      BY <1>2, <1>3 DEF GotOK, IndexOK
    <3> QED BY <1>6, <3>1 DEF RecordsOK, RecordOK
  <2>2. StampsOK(j.dirs)
    <3>1. StampsOK(s.dirs) /\ StampsOK(index.dirs)
      BY <1>1, <1>2, <1>3 DEF ListOK, IndexOK
    <3> QED BY <1>6, <3>1 DEF StampsOK
  <2>3. Covers(Known(j), j.dirs, {})
    <3>1. Covers(KnownIn(s), StampsIn(s), {})
      BY <1>1, <1>3 DEF ListOK
    <3> QED BY <1>7, <3>1, TreeAssumption DEF Covers
  <2>4. j.dirs[Root] # Absent
    <3>1. Root \in KnownIn(s) /\ Root \notin Files /\ Root \in Dirs
      BY <1>1, <1>3, TreeAssumption DEF ListOK
    <3>2. Root \in {d \in Dirs : StampsIn(s)[d] # Absent}
      BY <1>5, <3>1 DEF KnownIn, Live
    <3> QED BY <1>7, <3>2
  <2> QED BY <1>1, <2>1, <2>2, <2>3, <2>4 DEF IndexOK
<1>9. ASSUME NEW f \in Files, Quiet(s, f) PROVE ExactRec(j.live[f], f)
  <2>1. f \in s.gone \cup FoundIn(s) \/ ExactRec(index.live[f], f)
    BY <1>1, <1>2, <1>3, <1>4, <1>9, Reflected
  <2>2. CASE f \in FoundIn(s)
    BY <1>5, <1>6, <1>9, <2>2
  <2>3. CASE f \notin FoundIn(s) /\ f \in s.gone
    <3>1. ~Reach(f)
      BY <1>1, <1>3, <1>9, <2>3, BelowOwn DEF ListOK, Gone, Quiet
    <3> QED BY <1>6, <2>3, <3>1 DEF ExactRec, Truth, NoRec
  <2>4. CASE f \notin FoundIn(s) /\ f \notin s.gone
    BY <1>6, <2>1, <2>4
  <2> QED BY <2>2, <2>3, <2>4
<1>10. VerifiedOK(j)
  <2>1. j.verified = s.checked /\ s.checked <= now /\ \A f \in s.since : touched[f] >= s.checked
    BY <1>3 DEF ClocksOK, s
  <2>2. \A f \in Files \ hidden : ExactRec(j.live[f], f) \/ touched[f] >= j.verified
    BY <1>9, <2>1 DEF Quiet
  <2> QED BY <2>1, <2>2 DEF VerifiedOK
<1>11. ASSUME NEW p \in Procs \ {q} PROVE ProcOK(p, proc[p], j)
  <2> DEFINE x == proc[p]
  <2>1. ProcOK(p, x, index) /\ x \in Process
    BY Has
  <2>2. OpenedOK(x, index) /\ ParseOK(p, x, index)
    BY <2>1 DEF ProcOK
  <2> HIDE DEF x
  <2>3. OpenedOK(x, j)
    <3>1. x.opened.version \in Nat /\ index.version \in Nat /\ x.opened.version <= index.version
      BY <1>2, <2>1, <2>2 DEF OpenedOK, Process, IndexType
    <3>2. x.opened.version < j.version
      BY <1>1, <3>1
    <3> QED BY <1>1, <2>2, <3>1, <3>2 DEF OpenedOK
  <2>4. ParseOK(p, x, j)
    <3>1. \A f \in Files : ~s.got[f].base
      BY <1>3 DEF GotOK
    <3>2. \A f \in Files : j.live[f].base => j.live[f] = index.live[f]
      BY <1>5, <1>6, <3>1 DEF NoRec
    <3> QED BY <2>2, <3>2 DEF ParseOK
  <2> QED BY <2>1, <2>3, <2>4 DEF ProcOK, x
<1> QED BY <1>8, <1>9, <1>10, <1>11 DEF Quiet, s

LEMMA ApplyDeltaKeeps ==
    ASSUME IInv, NEW q \in Queries, ApplyDelta(q)
    PROVE  IInv'
<1> DEFINE s == proc[q]
           since == s.since
           mine == index.version = s.opened.version
           live == [f \in Files |-> IF f \in Found(q) THEN s.got[f]
                                    ELSE IF f \in s.gone THEN NoRec ELSE index.live[f]]
           dirs == [d \in Dirs |-> IF s.dirs[d] # Absent THEN s.dirs[d] ELSE index.dirs[d]]
           next == [index EXCEPT !.live = live, !.dirs = dirs, !.verified = s.checked,
                                 !.version = @ + 1, !.noIno = @ \/ s.noIno]
           j == IF mine THEN next ELSE index
           mineToAnswer == mine /\ (Found(q) # {} \/ s.retry)
           r == IF mineToAnswer THEN [Idle EXCEPT !.pc = "answer", !.opened = j, !.since = since]
                ELSE IF s.retry THEN [Idle EXCEPT !.pc = "raced", !.opened = j]
                ELSE Checking(j, TRUE)
<1>1. /\ AllRead(q) /\ q \in Procs /\ index' = j /\ Become(q, r)
      /\ UNCHANGED <<tree, now, ops, builds, touched, hidden>>
  <2> DEFINE written == [index EXCEPT
                !.live = [f \in Files |-> IF f \in Found(q) THEN s.got[f]
                                          ELSE IF f \in s.gone THEN NoRec ELSE @[f]],
                !.dirs = [d \in Dirs |-> IF s.dirs[d] # Absent THEN DirStamp(q, d) ELSE @[d]],
                !.verified = VerifiedFrom(q), !.version = @ + 1, !.noIno = @ \/ s.noIno]
  <2>1. written = next
    BY DEF DirStamp, VerifiedFrom
  <2>2. /\ AllRead(q) /\ q \in Procs /\ index' = IF mine THEN written ELSE index
        /\ Become(q, IF mineToAnswer THEN Answering(q, index')
                     ELSE IF s.retry THEN [Idle EXCEPT !.pc = "raced", !.opened = index']
                     ELSE CheckAgain(q, index'))
        /\ UNCHANGED <<tree, now, ops, builds, touched, hidden>>
    BY DEF ApplyDelta, Procs
  <2> HIDE DEF written, next, mineToAnswer, mine
  <2>3. index' = j
    BY <2>1, <2>2
  <2> QED BY <2>2, <2>3 DEF Answering, CheckAgain
<1>2. /\ s \in Process /\ ProcOK(q, s, index) /\ TypeOK /\ index \in IndexType /\ IndexOK(index)
      /\ VerifiedOK(index) /\ builds \in Nat
  BY <1>1, Has
<1>3. ListOK(q, s) /\ OpenedOK(s, index)
  BY <1>2 DEF ProcOK
<1>4. Found(q) = FoundIn(s) /\ since \in SUBSET Files /\ s.retry \in BOOLEAN
  BY <1>2 DEF Found, FoundIn, Process
<1>5. /\ live \in [Files -> Records] /\ dirs \in [Dirs -> Stamps] /\ s.checked \in Nat
      /\ s.noIno \in BOOLEAN
  <2>1. s.got \in [Files -> Records] /\ s.dirs \in [Dirs -> Stamps] /\ s.checked \in Nat /\ s.noIno \in BOOLEAN
    BY <1>2 DEF Process
  <2>2. index.live \in [Files -> Records] /\ index.dirs \in [Dirs -> Stamps]
    BY <1>2 DEF IndexType
  <2> HIDE DEF s
  <2> QED BY <2>1, <2>2, NoIndexIs
<1> HIDE DEF live, dirs
<1>6. /\ next \in IndexType /\ next.version = index.version + 1 /\ next.epoch = index.epoch
      /\ next.verified = s.checked /\ next.live = live /\ next.dirs = dirs
  <2> DEFINE v == s.checked
             b == index.noIno \/ s.noIno
  <2>1. /\ index \in IndexType /\ v \in Nat /\ live \in [Files -> Records] /\ dirs \in [Dirs -> Stamps]
        /\ next = [index EXCEPT !.live = live, !.dirs = dirs, !.verified = v, !.version = @ + 1, !.noIno = b]
    BY <1>2, <1>5
  <2>2. b \in BOOLEAN
    BY <1>2, <1>5 DEF IndexType
  <2> HIDE DEF v, b, next
  <2>3. /\ next \in IndexType /\ next.version = index.version + 1 /\ next.epoch = index.epoch
        /\ next.verified = v /\ next.live = live /\ next.dirs = dirs
    <3>1. next = [live |-> live, dirs |-> dirs, verified |-> v, epoch |-> index.epoch,
                  version |-> index.version + 1, noIno |-> b]
      BY <2>1 DEF IndexType
    <3>2. index.epoch \in Nat /\ index.version + 1 \in Nat
      BY <2>1 DEF IndexType
    <3> QED BY <2>1, <2>2, <3>1, <3>2 DEF IndexType
  <2> QED BY <2>3 DEF v
<1> HIDE DEF next
<1>7. CASE mine
  <2>1. /\ IndexOK(next) /\ VerifiedOK(next)
        /\ \A f \in Files \ (since \cup hidden) : ExactRec(next.live[f], f)
        /\ \A p \in Procs \ {q} : ProcOK(p, proc[p], next)
    BY <1>1, <1>4, <1>6, <1>7, DeltaOK DEF live, dirs
  <2>2. next.version > 0 /\ next.version \in Nat /\ next.epoch \in Nat
    BY <1>2, <1>6 DEF IndexType
  <2>3. r \in Process /\ r.cur = Root /\ r.pc \notin {"reading", "parsing"} /\ ProcOK(q, r, next)
    <3> HIDE DEF since, s
    <3>1. CASE mineToAnswer
      <4>1. next.version <= next.version /\ next.epoch <= next.epoch
        BY <2>2
      <4>2. r = [Idle EXCEPT !.pc = "answer", !.opened = next, !.since = since]
        BY <1>7, <3>1
      <4> HIDE DEF r
      <4> QED BY <1>2, <1>4, <1>6, <2>1, <4>1, <4>2, AnsweringOK
    <3>2. CASE ~mineToAnswer /\ s.retry
      <4>1. r = [Idle EXCEPT !.pc = "raced", !.opened = next]
        BY <1>7, <3>2
      <4> HIDE DEF r
      <4> QED BY <1>1, <1>2, <1>6, <2>1, <4>1, RacedOK
    <3>3. CASE ~mineToAnswer /\ ~s.retry
      <4>1. r = Checking(next, TRUE)
        BY <1>7, <3>3
      <4> HIDE DEF r
      <4> QED BY <1>2, <1>6, <2>1, <2>2, <4>1, CheckingOK
    <3> QED BY <3>1, <3>2, <3>3
  <2>4. r.cur \in Files <=> r.pc \in {"reading", "parsing"}
    BY <2>3, TreeAssumption
  <2>5. index' = next
    BY <1>1, <1>7
  <2> HIDE DEF r
  <2> QED BY <1>1, <1>2, <1>6, <2>1, <2>3, <2>4, <2>5, StepKeeps
<1>8. CASE ~mine
  <2>1. index.version > 0
    <3>1. s.opened.version > 0 /\ s.opened.version <= index.version
      BY <1>1, <1>3 DEF AllRead, ListOK, OpenedOK
    <3>2. s.opened.version \in Nat /\ index.version \in Nat
      BY <1>2 DEF Process, IndexType
    <3> QED BY <3>1, <3>2
  <2>2. r \in Process /\ r.cur = Root /\ r.pc \notin {"reading", "parsing"} /\ ProcOK(q, r, index)
    <3>1. CASE s.retry
      <4>1. r = [Idle EXCEPT !.pc = "raced", !.opened = index]
        BY <1>8, <3>1
      <4> HIDE DEF r
      <4> QED BY <1>1, <1>2, <4>1, RacedOK
    <3>2. CASE ~s.retry
      <4>1. r = Checking(index, TRUE)
        BY <1>8, <3>2
      <4> HIDE DEF r
      <4> QED BY <1>2, <2>1, <4>1, CheckingOK
    <3> QED BY <3>1, <3>2
  <2>3. r.cur \in Files <=> r.pc \in {"reading", "parsing"}
    BY <2>2, TreeAssumption
  <2>4. index' = index
    BY <1>1, <1>8
  <2> HIDE DEF r
  <2> QED BY <1>1, <1>2, <2>2, <2>3, <2>4, SoloKeeps
<1> QED BY <1>7, <1>8

\* Files are read one by one: what was found stays as it is.
LEMMA ReadingOn ==
    ASSUME NEW p, NEW s \in Process, NEW r \in Process, s.pc \in {"read", "reading"}, r.pc \in {"read", "reading"},
           r.opened = s.opened, r.gone = s.gone, r.found = s.found, r.dirs = s.dirs, r.since = s.since,
           ListOK(p, s)
    PROVE  ListOK(p, r) /\ FoundIn(r) = FoundIn(s) /\ \A f : Quiet(r, f) <=> Quiet(s, f)
<1>1. /\ FoundIn(r) = FoundIn(s) /\ StampsIn(r) = StampsIn(s) /\ KnownIn(r) = KnownIn(s)
      /\ ToList(r) = {} /\ ToList(s) = {} /\ \A f : Quiet(r, f) <=> Quiet(s, f)
  BY DEF FoundIn, StampsIn, KnownIn, ToList, Quiet
<1>2. LeadsTo(r)
  BY <1>1 DEF ListOK, LeadsTo
<1>3. ListOK(p, r)
  BY <1>1, <1>2 DEF ListOK
<1> QED BY <1>1, <1>3

\* A file that can be reached has been written.
LEMMA HasContent ==
    ASSUME TypeOK, TreeOK, NEW f \in Files, tree[f].there
    PROVE  tree[f].content # 0 /\ tree[f].content \in Nat /\ Existed(f) /\ tree[f].stamp.time \in Nat
<1>1. f \in Entries /\ f \in Way(f)
  BY WayUp DEF Entries
<1> QED BY <1>1 DEF TreeOK, TypeOK, Existed, Stamps

LEMMA OpenKeeps ==
    ASSUME IInv, NEW p \in Procs, Open(p)
    PROVE  IInv'
<1> DEFINE s == proc[p]
           pc == IF s.pc = "read" THEN "reading" ELSE "parsing"
           r(f) == [s EXCEPT !.left = @ \ {f}, !.cur = f, !.started = now, !.pc = pc,
                             !.before = StatOf(f), !.bytes = tree[f].content]
<1>1. PICK f \in s.left : /\ s.pc \in {"read", "parse"} /\ Reach(f)
                          /\ Step(p, r(f))
  BY DEF Open
<1> DEFINE t == r(f)
<1>2. Become(p, t) /\ UNCHANGED <<tree, now, ops, builds, index, touched, hidden>>
  BY <1>1 DEF Step
<1>3. /\ s \in Process /\ ProcOK(p, s, index) /\ now \in Nat /\ TypeOK /\ TreeOK /\ builds \in Nat
  BY <1>1, Has
<1>4. /\ OpenedOK(s, index) /\ ClocksOK(s) /\ GotOK(p, s) /\ ReadsOK(p, s) /\ ListOK(p, s)
      /\ ParseOK(p, s, index)
  BY <1>3 DEF ProcOK
<1>5. f \in Files /\ f \in Entries /\ s.left \subseteq Entries
  BY <1>1, <1>3, <1>4 DEF ReadsOK, FoundIn, ParseOK, Entries, Process
<1>6. /\ StatOf(f) \in Stamps /\ StatOf(f) = tree[f].stamp /\ Existed(f)
      /\ tree[f].content \in Nat /\ tree[f].content # 0 /\ Truth(f) = tree[f].content
  <2>1. tree[f].there
    BY <1>1, <1>5, WayUp DEF Reach, ReachIn
  <2> QED BY <1>1, <1>3, <1>5, <2>1, StatOfIs, HasContent DEF Truth
<1>7. /\ t \in Process /\ t.pc = pc /\ t.left = s.left \ {f} /\ t.cur = f /\ t.started = now
      /\ t.before = tree[f].stamp /\ t.bytes = tree[f].content
      /\ t.opened = s.opened /\ t.gone = s.gone /\ t.found = s.found /\ t.dirs = s.dirs
      /\ t.since = s.since /\ t.checked = s.checked /\ t.from = s.from /\ t.got = s.got
      /\ t.unsettled = s.unsettled
  <2>1. t \in Process
    BY <1>1, <1>3, <1>5, <1>6 DEF Process
  <2> QED BY <2>1, <1>3, <1>6 DEF Process
<1>8. pc \in {"reading", "parsing"} /\ (pc = "reading" <=> s.pc = "read") /\ (pc = "parsing" <=> s.pc = "parse")
  BY <1>1
<1> HIDE DEF r, s, pc
<1>9. OpenedOK(t, index) /\ ClocksOK(t) /\ GotOK(p, t)
  BY <1>3, <1>4, <1>7, <1>8 DEF OpenedOK, ClocksOK, GotOK
<1>10. CASE s.pc = "read"
  <2>1. t.pc = "reading"
    BY <1>7, <1>8, <1>10
  <2>2. ListOK(p, t) /\ FoundIn(t) = FoundIn(s) /\ \A g : Quiet(t, g) <=> Quiet(s, g)
    BY <1>3, <1>4, <1>7, <1>10, <2>1, ReadingOn
  <2>3. Pending(t) = Pending(s)
    BY <1>1, <1>7, <1>10, <2>1 DEF Pending
  <2>4. ReadsOK(p, t)
    BY <1>4, <1>7, <1>10, <2>1, <2>2, <2>3 DEF ReadsOK
  <2>5. f \in FoundIn(t)
    BY <1>1, <1>4, <1>10, <2>2 DEF ReadsOK
  <2>6. ReadingOK(p, t)
    BY <1>5, <1>6, <1>7, <2>1, <2>5 DEF ReadingOK
  <2>7. ProcOK(p, t, index)
    BY <1>9, <2>1, <2>2, <2>4, <2>6 DEF ProcOK, StatOK, ParseOK, AnswerOK
  <2> QED BY <1>2, <1>3, <1>5, <1>7, <2>1, <2>7, SoloKeeps
<1>11. CASE s.pc = "parse"
  <2>1. t.pc = "parsing"
    BY <1>7, <1>8, <1>11
  <2>2. s.got[f].content # 0 /\ RecordOK(f, s.got[f])
    BY <1>1, <1>4, <1>5, <1>11 DEF ParseOK, GotOK, RecordsOK
  <2>3. s.got[f].content <= tree[f].content
    BY <2>2 DEF RecordOK, NoRec
  <2>4. ReadingOK(p, t)
    BY <1>5, <1>6, <1>7, <2>1, <2>2, <2>3 DEF ReadingOK
  <2>5. ParseOK(p, t, index)
    BY <1>4, <1>7, <1>11, <2>1 DEF ParseOK
  <2>6. ProcOK(p, t, index)
    BY <1>9, <2>1, <2>4, <2>5 DEF ProcOK, StatOK, ListOK, ReadsOK, AnswerOK
  <2> QED BY <1>2, <1>3, <1>5, <1>7, <2>1, <2>6, SoloKeeps
<1> QED BY <1>1, <1>10, <1>11

\* A step that leaves the record k of f to a process that reads what it found.
LEMMA ReadKeeps ==
    ASSUME IInv, NEW p \in Procs, NEW r \in Process, Become(p, r),
           UNCHANGED <<tree, now, ops, builds, index, touched, hidden>>,
           proc[p].pc \in {"read", "reading"}, r.pc = "read", r.cur \notin Files,
           r.opened = proc[p].opened, r.gone = proc[p].gone, r.found = proc[p].found,
           r.dirs = proc[p].dirs, r.since = proc[p].since, r.checked = proc[p].checked,
           r.from = proc[p].from, r.started <= now,
           NEW f \in FoundIn(proc[p]), r.left \subseteq proc[p].left,
           Pending(proc[p]) \subseteq r.left \cup {f}, r.unsettled \subseteq FoundIn(proc[p]) \ r.left,
           \A g \in Files \ {f} : r.got[g] = proc[p].got[g],
           RecordOK(f, r.got[f]), p \in Queries => ~r.got[f].base, r.got[f] # NoRec,
           Quiet(proc[p], f) => ExactRec(r.got[f], f),
           r.got[f].symbols \in {0, r.got[f].content}
    PROVE  IInv'
<1> DEFINE s == proc[p]
<1>1. s \in Process /\ ProcOK(p, s, index) /\ now \in Nat /\ TypeOK /\ builds \in Nat
  BY Has
<1>2. OpenedOK(s, index) /\ ClocksOK(s) /\ GotOK(p, s) /\ ReadsOK(p, s) /\ ListOK(p, s)
  BY <1>1 DEF ProcOK
<1> HIDE DEF s
<1>3. OpenedOK(r, index) /\ ClocksOK(r)
  BY <1>2 DEF OpenedOK, ClocksOK, s
<1>4. GotOK(p, r)
  <2>1. \A g \in Files : RecordOK(g, r.got[g]) /\ (p \in Queries => ~r.got[g].base)
    BY <1>2 DEF GotOK, RecordsOK, s
  <2> QED BY <2>1 DEF GotOK, RecordsOK
<1>5. ListOK(p, r) /\ FoundIn(r) = FoundIn(s) /\ \A g : Quiet(r, g) <=> Quiet(s, g)
  BY <1>1, <1>2, ReadingOn DEF s
<1>6. ReadsOK(p, r)
  <2>1. /\ s.left \subseteq FoundIn(s)
        /\ \A g \in FoundIn(s) \ Pending(s) : s.got[g] # NoRec /\ (Quiet(s, g) => ExactRec(s.got[g], g))
        /\ \A g \in Files \ FoundIn(s) : s.got[g] = NoRec
        /\ \A g \in Files : s.got[g].symbols \in {0, s.got[g].content}
    BY <1>2 DEF ReadsOK, s
  <2>2. Pending(r) = r.left /\ FoundIn(s) \subseteq Files
    BY DEF Pending, FoundIn
  <2>3. \A g \in FoundIn(s) \ r.left : r.got[g] # NoRec /\ (Quiet(s, g) => ExactRec(r.got[g], g))
    BY <2>1, <2>2 DEF s
  <2>4. \A g \in Files \ FoundIn(s) : r.got[g] = NoRec
    BY <2>1 DEF s
  <2>5. \A g \in Files : r.got[g].symbols \in {0, r.got[g].content}
    BY <2>1 DEF s
  <2> QED BY <1>5, <2>1, <2>2, <2>3, <2>4, <2>5 DEF ReadsOK, s
<1>7. ProcOK(p, r, index)
  BY <1>3, <1>4, <1>5, <1>6 DEF ProcOK, StatOK, ReadingOK, ParseOK, AnswerOK
<1> QED BY <1>1, <1>7, SoloKeeps

\* The same of one that parses what it has read.
LEMMA ParseKeeps ==
    ASSUME IInv, NEW p \in Procs, NEW r \in Process, Become(p, r),
           UNCHANGED <<tree, now, ops, builds, index, touched, hidden>>,
           proc[p].pc \in {"parse", "parsing"}, r.pc = "parse", r.cur \notin Files,
           r.opened = proc[p].opened, r.since = proc[p].since, r.checked = proc[p].checked,
           r.from = proc[p].from, r.started <= now,
           NEW f \in Files, r.left \subseteq proc[p].left,
           \A g \in Files \ {f} : r.got[g] = proc[p].got[g],
           RecordOK(f, r.got[f]), r.got[f] # NoRec, r.got[f].content = proc[p].got[f].content
    PROVE  IInv'
<1> DEFINE s == proc[p]
<1>1. s \in Process /\ ProcOK(p, s, index) /\ now \in Nat /\ TypeOK /\ builds \in Nat
  BY Has
<1>2. OpenedOK(s, index) /\ ClocksOK(s) /\ GotOK(p, s) /\ ParseOK(p, s, index) /\ p \notin Queries
  BY <1>1, ProcessesAssumption DEF ProcOK, ParseOK
<1> HIDE DEF s
<1>3. OpenedOK(r, index) /\ ClocksOK(r)
  BY <1>2 DEF OpenedOK, ClocksOK, s
<1>4. GotOK(p, r)
  <2>1. \A g \in Files : RecordOK(g, r.got[g])
    BY <1>2 DEF GotOK, RecordsOK, s
  <2> QED BY <1>2, <2>1 DEF GotOK, RecordsOK
<1>5. ParseOK(p, r, index)
  <2>1. \A g \in Files : s.got[g] # NoRec => r.got[g] # NoRec
    BY DEF s
  <2>2. \A g \in Files : r.got[g].content = s.got[g].content
    BY DEF s
  <2> QED BY <1>2, <2>1, <2>2 DEF ParseOK, s
<1>6. ProcOK(p, r, index)
  BY <1>3, <1>4, <1>5 DEF ProcOK, StatOK, ListOK, ReadsOK, ReadingOK, AnswerOK
<1> QED BY <1>1, <1>6, SoloKeeps

LEMMA OpenFailsKeeps ==
    ASSUME IInv, NEW p \in Procs, OpenFails(p)
    PROVE  IInv'
<1> DEFINE s == proc[p]
<1>1. PICK f \in s.left : /\ ~Reach(f)
         /\ \/ /\ s.pc = "read"
               /\ Step(p, [s EXCEPT !.left = @ \ {f}, !.got[f] =
                      [NoRec EXCEPT !.stamp = s.found[f], !.base = p \in Builders,
                          !.doubt = IF Racy(s.found[f], s.from) THEN "changed" ELSE "none"]])
            \/ /\ s.pc = "parse"
               /\ Step(p, [s EXCEPT !.left = @ \ {f}, !.got[f].doubt = "changed"])
  BY DEF OpenFails
<1>2. /\ s \in Process /\ ProcOK(p, s, index) /\ now \in Nat /\ TypeOK /\ s.cur \notin Files
  BY <1>1, Has
<1>3. ClocksOK(s) /\ GotOK(p, s) /\ ReadsOK(p, s) /\ ListOK(p, s) /\ ParseOK(p, s, index)
  BY <1>2 DEF ProcOK
<1>4. /\ f \in Files /\ s.got \in [Files -> Records] /\ s.found \in [Files -> Stamps]
      /\ s.from \in Nat /\ s.from <= now /\ s.started <= now
  BY <1>1, <1>2, <1>3 DEF ReadsOK, FoundIn, ParseOK, Process, ClocksOK
\* the record it leaves
<1>5. ASSUME NEW k \in Records, Step(p, [s EXCEPT !.left = @ \ {f}, !.got[f] = k])
      PROVE  \E r \in Process :
                /\ Become(p, r) /\ UNCHANGED <<tree, now, ops, builds, index, touched, hidden>>
                /\ r.pc = s.pc /\ r.left = s.left \ {f} /\ r.cur = s.cur
                /\ r.opened = s.opened /\ r.gone = s.gone /\ r.found = s.found /\ r.dirs = s.dirs
                /\ r.since = s.since /\ r.checked = s.checked /\ r.from = s.from
                /\ r.unsettled = s.unsettled /\ r.started = s.started
                /\ r.got[f] = k /\ \A g \in Files \ {f} : r.got[g] = s.got[g]
  <2> DEFINE got == [s.got EXCEPT ![f] = k]
             r == [s EXCEPT !.left = @ \ {f}, !.got = got]
  <2>1. Become(p, r) /\ UNCHANGED <<tree, now, ops, builds, index, touched, hidden>>
    BY <1>5 DEF Step
  <2>2. got \in [Files -> Records] /\ got[f] = k /\ \A g \in Files \ {f} : got[g] = s.got[g]
    BY <1>4, <1>5
  <2> HIDE DEF got
  <2>3. /\ r \in Process /\ r.pc = s.pc /\ r.left = s.left \ {f} /\ r.cur = s.cur
        /\ r.opened = s.opened /\ r.gone = s.gone /\ r.found = s.found /\ r.dirs = s.dirs
        /\ r.since = s.since /\ r.checked = s.checked /\ r.from = s.from /\ r.got = got
        /\ r.unsettled = s.unsettled /\ r.started = s.started
    <3>1. r \in Process
      BY <1>2, <2>2 DEF Process
    <3> QED BY <3>1, <1>2 DEF Process
  <2> HIDE DEF r, s
  <2> QED BY <2>1, <2>2, <2>3
<1>6. CASE s.pc = "read"
  <2> DEFINE base == p \in Builders
             doubt == IF Racy(s.found[f], s.from) THEN "changed" ELSE "none"
             k == [NoRec EXCEPT !.stamp = s.found[f], !.base = base, !.doubt = doubt]
  <2>1. f \in FoundIn(s) /\ Existed(f) /\ s.found[f] # Absent
    BY <1>1, <1>3, <1>6 DEF ReadsOK, ListOK, FoundIn
  <2>2. Step(p, [s EXCEPT !.left = @ \ {f}, !.got[f] = k])
    BY <1>1, <1>6
  <2>3. base \in BOOLEAN /\ doubt \in {"none", "racy", "changed"} /\ (base <=> p \in Builders)
    OBVIOUS
  <2>4. doubt = "none" => s.found[f].time < now
    <3>1. Window \in Nat /\ Window > 0 /\ s.found[f].time \in Nat
      BY <1>4, ScaleAssumption DEF Stamps
    <3> QED BY <1>2, <1>4, <3>1 DEF Racy
  <2> HIDE DEF base, doubt
  <2>5. /\ k \in Records /\ k.stamp = s.found[f] /\ k.content = 0 /\ k.symbols = 0
        /\ k.doubt = doubt /\ k.base = base
    <3>1. NoRec \in Records /\ s.found[f] \in Stamps /\ NoRec.content = 0 /\ NoRec.symbols = 0
      BY <1>4, NoIndexIs DEF NoRec
    <3> HIDE DEF s
    <3> QED BY <2>3, <3>1 DEF Records
  <2> HIDE DEF k
  <2>6. tree[f].content \in Nat /\ RecordOK(f, k) /\ k # NoRec
    <3>1. tree[f].content \in Nat /\ k # NoRec
      BY <1>2, <1>4, <2>1, <2>5 DEF TypeOK, NoRec, Entries
    <3> QED BY <1>1, <2>1, <2>4, <2>5, <3>1 DEF RecordOK, Gone
  <2>7. ExactRec(k, f) /\ k.symbols \in {0, k.content}
    BY <1>1, <2>5 DEF ExactRec, Truth
  <2>8. p \in Queries => ~k.base
    BY <2>3, <2>5, ProcessesAssumption
  <2>9. PICK r \in Process :
          /\ Become(p, r) /\ UNCHANGED <<tree, now, ops, builds, index, touched, hidden>>
          /\ r.pc = s.pc /\ r.left = s.left \ {f} /\ r.cur = s.cur
          /\ r.opened = s.opened /\ r.gone = s.gone /\ r.found = s.found /\ r.dirs = s.dirs
          /\ r.since = s.since /\ r.checked = s.checked /\ r.from = s.from
          /\ r.unsettled = s.unsettled /\ r.started = s.started
          /\ r.got[f] = k /\ \A g \in Files \ {f} : r.got[g] = s.got[g]
    BY <1>5, <2>2, <2>5
  <2>10. Pending(s) \subseteq r.left \cup {f} /\ r.unsettled \subseteq FoundIn(s) \ r.left
    BY <1>3, <1>6, <2>9 DEF Pending, ReadsOK
  <2> QED BY <1>2, <1>4, <1>6, <2>1, <2>6, <2>7, <2>8, <2>9, <2>10, ReadKeeps
<1>7. CASE s.pc = "parse"
  <2> DEFINE k == [s.got[f] EXCEPT !.doubt = "changed"]
  <2>1. /\ k \in Records /\ k.doubt = "changed" /\ k.content = s.got[f].content
        /\ k.symbols = s.got[f].symbols
    BY <1>4 DEF Records
  <2>2. Step(p, [s EXCEPT !.left = @ \ {f}, !.got[f] = k])
    BY <1>1, <1>4, <1>7
  <2> HIDE DEF k
  <2>3. RecordOK(f, s.got[f]) /\ s.got[f].content # 0
    BY <1>1, <1>3, <1>4, <1>7 DEF GotOK, RecordsOK, ParseOK
  <2>4. RecordOK(f, k) /\ k # NoRec
    BY <2>1, <2>3 DEF RecordOK, NoRec
  <2>5. PICK r \in Process :
          /\ Become(p, r) /\ UNCHANGED <<tree, now, ops, builds, index, touched, hidden>>
          /\ r.pc = s.pc /\ r.left = s.left \ {f} /\ r.cur = s.cur
          /\ r.opened = s.opened /\ r.gone = s.gone /\ r.found = s.found /\ r.dirs = s.dirs
          /\ r.since = s.since /\ r.checked = s.checked /\ r.from = s.from
          /\ r.unsettled = s.unsettled /\ r.started = s.started
          /\ r.got[f] = k /\ \A g \in Files \ {f} : r.got[g] = s.got[g]
    BY <1>5, <2>1, <2>2
  <2> QED BY <1>2, <1>4, <1>7, <2>1, <2>4, <2>5, ParseKeeps
<1> QED BY <1>1, <1>6, <1>7

\* What a read returns is the file's content if its stamp was old enough.
LEMMA BytesOK ==
    ASSUME IInv, NEW p \in Procs, proc[p].pc \in {"reading", "parsing"}, NEW c \in BytesRead(p)
    PROVE  LET s == proc[p]
               f == s.cur
           IN  /\ f \in Files \ s.left /\ Existed(f) /\ c \in Nat /\ c # 0 /\ c <= tree[f].content
               /\ s.bytes \in Nat /\ s.bytes <= c /\ tree[f].content \in Nat
               /\ s.before \in Stamps /\ s.before.time \in Nat /\ s.started \in Nat /\ s.started <= now
               /\ s.before.time < s.started /\ tree[f].stamp.time = s.before.time => tree[f].content = c
<1> DEFINE s == proc[p]
           f == s.cur
<1>1. s \in Process /\ ReadingOK(p, s) /\ ClocksOK(s) /\ TypeOK /\ TreeOK
  BY Has DEF ProcOK
<1>2. /\ f \in Files \ s.left /\ Existed(f) /\ s.bytes # 0 /\ s.bytes <= tree[f].content
      /\ s.before.time < s.started /\ tree[f].stamp.time = s.before.time => tree[f].content = s.bytes
  BY <1>1 DEF ReadingOK
<1>3. s.bytes \in Nat /\ tree[f].content \in Nat
  BY <1>1, <1>2 DEF Process, TypeOK, Entries
<1>4. s.before \in Stamps /\ s.before.time \in Nat /\ s.started \in Nat /\ s.started <= now
  BY <1>1 DEF Process, Stamps, ClocksOK
<1>5. c = s.bytes \/ (c = tree[f].content /\ tree[f].there)
  BY DEF BytesRead, Unlinked
<1>6. tree[f].there => tree[f].content # 0
  BY <1>1, <1>2, HasContent
<1> HIDE DEF s, f
<1>7. /\ c \in Nat /\ c # 0 /\ c <= tree[f].content /\ s.bytes <= c
      /\ s.before.time < s.started /\ tree[f].stamp.time = s.before.time => tree[f].content = c
  BY <1>2, <1>3, <1>5, <1>6
<1> QED BY <1>2, <1>3, <1>4, <1>7 DEF s, f

LEMMA ReadFileKeeps ==
    ASSUME IInv, NEW p \in Procs, Read(p)
    PROVE  IInv'
<1> DEFINE s == proc[p]
           f == s.cur
           base == p \in Builders
           symbols(c) == IF p \in Builders THEN 0 ELSE c
           k(c) == [stamp |-> s.before, content |-> c, symbols |-> symbols(c),
                    doubt |-> Doubt(p), base |-> base]
           unsettled == IF Doubt(p) = "racy" THEN s.unsettled \cup {f} ELSE s.unsettled
           t(c) == [s EXCEPT !.pc = "read", !.cur = Root, !.before = Absent, !.started = 0,
                             !.bytes = 0, !.unsettled = unsettled, !.got[f] = k(c)]
<1>1. PICK c \in BytesRead(p) : s.pc = "reading" /\ Step(p, t(c))
  BY DEF Read
<1> DEFINE rec == k(c)
           got == [s.got EXCEPT ![f] = rec]
           r == [s EXCEPT !.pc = "read", !.cur = Root, !.before = Absent, !.started = 0,
                          !.bytes = 0, !.unsettled = unsettled, !.got = got]
<1>2. Become(p, r) /\ UNCHANGED <<tree, now, ops, builds, index, touched, hidden>>
  BY <1>1 DEF Step
<1>3. s \in Process /\ ProcOK(p, s, index) /\ now \in Nat /\ TypeOK
  BY Has
<1>4. ReadsOK(p, s) /\ ReadingOK(p, s)
  BY <1>3 DEF ProcOK
<1>5. /\ f \in Files \ s.left /\ Existed(f) /\ c \in Nat /\ c # 0 /\ c <= tree[f].content
      /\ s.bytes \in Nat /\ s.bytes <= c /\ tree[f].content \in Nat
      /\ s.before \in Stamps /\ s.before.time \in Nat /\ s.started \in Nat /\ s.started <= now
      /\ s.before.time < s.started /\ tree[f].stamp.time = s.before.time => tree[f].content = c
  BY <1>1, BytesOK
<1>6. f \in FoundIn(s) /\ (Quiet(s, f) => Truth(f) = s.bytes) /\ s.bytes # 0 /\ Pending(s) = s.left \cup {f}
  BY <1>1, <1>4 DEF ReadingOK, Pending
<1>7. Doubt(p) \in {"none", "racy", "changed"} /\ (Doubt(p) = "none" => ~Racy(s.before, s.started))
  BY DEF Doubt
<1>8. Quiet(s, f) => Truth(f) = c
  <2>1. c = s.bytes \/ c = tree[f].content
    BY DEF BytesRead
  <2>2. Quiet(s, f) => Truth(f) = tree[f].content
    BY <1>6 DEF Truth
  <2> QED BY <1>6, <2>1, <2>2
<1>9. /\ Window \in Nat /\ Window > 0 /\ base \in BOOLEAN /\ (base <=> p \in Builders)
      /\ symbols(c) \in {0, c}
  BY ScaleAssumption
<1>10. s.unsettled \subseteq FoundIn(s) \ (s.left \cup {f}) /\ unsettled \subseteq s.unsettled \cup {f}
  BY <1>1, <1>4, <1>6 DEF ReadsOK
<1>11. Absent \in Stamps /\ Root \in Entries /\ Root \notin Files
  BY NoIndexIs, TreeAssumption DEF Entries
<1> HIDE DEF unsettled, base, symbols
<1>12. /\ rec \in Records /\ rec.stamp = s.before /\ rec.content = c /\ rec.symbols \in {0, c}
       /\ rec.doubt = Doubt(p) /\ rec.base = base
  BY <1>5, <1>7, <1>9 DEF Records
<1> HIDE DEF rec, k
<1>13. got \in [Files -> Records] /\ got[f] = rec /\ \A g \in Files \ {f} : got[g] = s.got[g]
  BY <1>3, <1>5, <1>12 DEF Process
<1> HIDE DEF got
<1>14. /\ r \in Process /\ r.pc = "read" /\ r.left = s.left /\ r.cur = Root
       /\ r.opened = s.opened /\ r.gone = s.gone /\ r.found = s.found /\ r.dirs = s.dirs
       /\ r.since = s.since /\ r.checked = s.checked /\ r.from = s.from /\ r.got = got
       /\ r.unsettled = unsettled /\ r.started = 0
  <2>1. unsettled \subseteq Files
    BY <1>5, <1>10 DEF FoundIn
  <2>2. r \in Process
    BY <1>3, <1>11, <1>13, <2>1 DEF Process
  <2> QED BY <2>2, <1>3 DEF Process
<1> HIDE DEF r, s, f
<1>15. RecordOK(f, rec) /\ rec # NoRec
  <2>1. rec.doubt = "none" => rec.stamp.time < s.started /\ s.started <= now
    BY <1>5, <1>7, <1>9, <1>12 DEF Racy
  <2>2. rec # NoRec
    BY <1>5, <1>12 DEF NoRec
  <2>3. rec.symbols # 0 => rec.symbols = c
    BY <1>12
  <2>4. rec.doubt = "none" => rec.stamp.time < now
    BY <1>3, <1>5, <1>12, <2>1
  <2>5. rec.doubt = "none" /\ tree[f].stamp.time = rec.stamp.time => tree[f].content = c
    BY <1>5, <1>12, <2>1
  <2> QED BY <1>5, <1>12, <2>2, <2>3, <2>4, <2>5 DEF RecordOK
<1>16. (Quiet(s, f) => ExactRec(rec, f)) /\ rec.symbols \in {0, rec.content}
  BY <1>8, <1>12 DEF ExactRec
<1>17. p \in Queries => ~rec.base
  BY <1>9, <1>12, ProcessesAssumption
<1>18. /\ Pending(s) \subseteq r.left \cup {f} /\ r.unsettled \subseteq FoundIn(s) \ r.left
       /\ r.started <= now
  BY <1>3, <1>5, <1>6, <1>10, <1>14
<1> QED BY <1>1, <1>2, <1>6, <1>11, <1>13, <1>14, <1>15, <1>16, <1>17, <1>18, ReadKeeps DEF s

LEMMA ParseFileKeeps ==
    ASSUME IInv, NEW p \in Procs, Parse(p)
    PROVE  IInv'
<1> DEFINE s == proc[p]
           f == s.cur
           t(c) == [s EXCEPT !.pc = "parse", !.cur = Root, !.before = Absent, !.started = 0,
                             !.bytes = 0, !.got[f].symbols = c, !.got[f].doubt = Marked(p, f)]
<1>1. PICK c \in BytesRead(p) : s.pc = "parsing" /\ Step(p, t(c))
  BY DEF Parse
<1>2. s \in Process /\ ProcOK(p, s, index) /\ now \in Nat /\ TypeOK
  BY Has
<1>3. GotOK(p, s) /\ ReadingOK(p, s) /\ s.got \in [Files -> Records]
  BY <1>2 DEF ProcOK, Process
<1>4. /\ f \in Files \ s.left /\ Existed(f) /\ c \in Nat /\ c # 0 /\ c <= tree[f].content
      /\ s.bytes \in Nat /\ s.bytes <= c /\ tree[f].content \in Nat
      /\ s.before \in Stamps /\ s.before.time \in Nat /\ s.started \in Nat /\ s.started <= now
      /\ s.before.time < s.started /\ tree[f].stamp.time = s.before.time => tree[f].content = c
  BY <1>1, BytesOK
<1> DEFINE old == s.got[f]
           mark == Marked(p, f)
           rec == [old EXCEPT !.symbols = c, !.doubt = mark]
           got == [s.got EXCEPT ![f] = rec]
           r == [s EXCEPT !.pc = "parse", !.cur = Root, !.before = Absent, !.started = 0,
                          !.bytes = 0, !.got = got]
<1>5. Become(p, r) /\ UNCHANGED <<tree, now, ops, builds, index, touched, hidden>>
  <2>1. t(c) = r
    BY <1>3, <1>4
  <2> QED BY <1>1, <2>1 DEF Step
<1>6. old \in Records /\ old.content # 0 /\ old.content <= s.bytes /\ RecordOK(f, old)
  BY <1>1, <1>3, <1>4 DEF ReadingOK, GotOK, RecordsOK
<1>7. mark \in {"none", "racy", "changed"} /\ (mark = "none" => Doubt(p) = "none" /\ old.doubt = "none")
  BY <1>6 DEF Marked, Records
<1>8. Doubt(p) = "none" => /\ ~Racy(s.before, s.started) /\ s.before.time = old.stamp.time
                           /\ tree[f].stamp.time = s.before.time
  BY <1>1 DEF Doubt, ChangedDuringRead, ChangedSinceWalk, Same, Expected
<1>9. /\ rec \in Records /\ rec.stamp = old.stamp /\ rec.content = old.content /\ rec.symbols = c
      /\ rec.doubt = mark
  BY <1>4, <1>6, <1>7 DEF Records
<1> HIDE DEF rec, mark, old
<1>10. got \in [Files -> Records] /\ got[f] = rec /\ \A g \in Files \ {f} : got[g] = s.got[g]
  BY <1>3, <1>4, <1>9
<1> HIDE DEF got
<1>11. Absent \in Stamps /\ Root \in Entries /\ Root \notin Files
  BY NoIndexIs, TreeAssumption DEF Entries
<1>12. /\ r \in Process /\ r.pc = "parse" /\ r.left = s.left /\ r.cur = Root
       /\ r.opened = s.opened /\ r.since = s.since /\ r.checked = s.checked /\ r.from = s.from
       /\ r.got = got /\ r.started = 0
  <2>1. r \in Process
    BY <1>2, <1>10, <1>11 DEF Process
  <2> QED BY <2>1, <1>2 DEF Process
<1> HIDE DEF r, s, f
<1>13. RecordOK(f, rec) /\ rec # NoRec
  <2>1. /\ old # NoRec /\ old.content \in Nat /\ old.content <= c
        /\ rec # NoRec
    BY <1>4, <1>6, <1>9 DEF NoRec, Records
  <2>2. old.content <= tree[f].content
    BY <1>4, <2>1
  <2>3. ASSUME rec.doubt = "none" PROVE /\ rec.stamp.time < now /\ c = old.content
                                        /\ tree[f].stamp.time = rec.stamp.time => tree[f].content = old.content
    <3>1. /\ old.doubt = "none" /\ ~Racy(s.before, s.started) /\ s.before.time = old.stamp.time
          /\ tree[f].stamp.time = s.before.time
      BY <1>7, <1>8, <1>9, <2>3
    <3>2. old.stamp.time < now /\ tree[f].content = old.content
      BY <1>6, <2>1, <3>1 DEF RecordOK
    <3>3. s.before.time < s.started
      <4>1. Window \in Nat /\ Window > 0
        BY ScaleAssumption
      <4> QED BY <1>4, <3>1, <4>1 DEF Racy
    <3>4. tree[f].content = c
      BY <1>4, <3>1, <3>3
    <3> QED BY <1>9, <3>2, <3>4
  <2> QED BY <1>4, <1>6, <1>9, <2>1, <2>2, <2>3 DEF RecordOK
<1>14. r.left \subseteq s.left /\ r.started <= now
  BY <1>2, <1>12
<1> QED BY <1>1, <1>4, <1>5, <1>9, <1>10, <1>11, <1>12, <1>13, <1>14, ParseKeeps DEF s, old

LEMMA SettleKeeps ==
    ASSUME IInv, NEW p \in Procs, Settle(p)
    PROVE  IInv'
<1> DEFINE s == proc[p]
           same(f) == Reach(f) /\ Same(StatOf(f), s.got[f].stamp, TRUE) /\ tree[f].content = s.got[f].content
<1>1. PICK f \in s.unsettled :
         /\ s.pc = "read"
         /\ \/ /\ Settled(p, s.got[f])
               /\ Step(p, [s EXCEPT !.unsettled = @ \ {f},
                             !.got[f].doubt = IF same(f) THEN "none" ELSE "changed"])
            \/ /\ p \in Queries
               /\ Step(p, [s EXCEPT !.unsettled = @ \ {f}])
  BY DEF Settle
<1>2. s \in Process /\ ProcOK(p, s, index) /\ now \in Nat /\ TypeOK /\ TreeOK /\ s.cur \notin Files
  BY <1>1, Has
<1>3. GotOK(p, s) /\ ReadsOK(p, s) /\ ClocksOK(s) /\ s.got \in [Files -> Records] /\ Pending(s) = s.left
  BY <1>1, <1>2 DEF ProcOK, Process, Pending
<1> DEFINE old == s.got[f]
<1>4. /\ f \in FoundIn(s) /\ f \notin s.left /\ f \in Files /\ old \in Records /\ old # NoRec
      /\ RecordOK(f, old) /\ (p \in Queries => ~old.base) /\ (Quiet(s, f) => ExactRec(old, f))
      /\ old.symbols \in {0, old.content}
  <2>1. f \in FoundIn(s) \ Pending(s) /\ f \in Files
    BY <1>1, <1>3 DEF ReadsOK, FoundIn
  <2> QED BY <1>1, <1>3, <2>1 DEF ReadsOK, GotOK, RecordsOK
<1>5. ASSUME NEW r \in Process, Become(p, r), UNCHANGED <<tree, now, ops, builds, index, touched, hidden>>,
             r.pc = s.pc, r.left = s.left, r.cur = s.cur, r.unsettled = s.unsettled \ {f},
             r.opened = s.opened, r.gone = s.gone, r.found = s.found, r.dirs = s.dirs,
             r.since = s.since, r.checked = s.checked, r.from = s.from, r.started = s.started,
             \A g \in Files \ {f} : r.got[g] = s.got[g],
             RecordOK(f, r.got[f]), r.got[f] # NoRec, r.got[f].content = old.content,
             r.got[f].symbols = old.symbols, r.got[f].base = old.base
      PROVE  IInv'
  <2>1. Pending(s) \subseteq r.left \cup {f} /\ r.unsettled \subseteq FoundIn(s) \ r.left /\ r.started <= now
    BY <1>1, <1>3, <1>5 DEF ReadsOK, ClocksOK
  <2>2. Quiet(s, f) => ExactRec(r.got[f], f)
    BY <1>4, <1>5 DEF ExactRec
  <2> QED BY <1>1, <1>2, <1>4, <1>5, <2>1, <2>2, ReadKeeps
<1>6. CASE Step(p, [s EXCEPT !.unsettled = @ \ {f}])
  <2> DEFINE r == [s EXCEPT !.unsettled = @ \ {f}]
  <2>1. Become(p, r) /\ UNCHANGED <<tree, now, ops, builds, index, touched, hidden>>
    BY <1>6 DEF Step
  <2>2. /\ r \in Process /\ r.pc = s.pc /\ r.left = s.left /\ r.cur = s.cur
        /\ r.unsettled = s.unsettled \ {f}
        /\ r.opened = s.opened /\ r.gone = s.gone /\ r.found = s.found /\ r.dirs = s.dirs
        /\ r.since = s.since /\ r.checked = s.checked /\ r.from = s.from /\ r.started = s.started
        /\ r.got = s.got
    BY <1>2 DEF Process
  <2> HIDE DEF r, s
  <2> QED BY <1>4, <1>5, <2>1, <2>2 DEF old
<1>7. CASE /\ Settled(p, old)
           /\ Step(p, [s EXCEPT !.unsettled = @ \ {f},
                         !.got[f].doubt = IF same(f) THEN "none" ELSE "changed"])
  <2> DEFINE mark == IF same(f) THEN "none" ELSE "changed"
             rec == [old EXCEPT !.doubt = mark]
             got == [s.got EXCEPT ![f] = rec]
             r == [s EXCEPT !.unsettled = @ \ {f}, !.got = got]
  <2>1. Become(p, r) /\ UNCHANGED <<tree, now, ops, builds, index, touched, hidden>>
    <3>1. r = [s EXCEPT !.unsettled = @ \ {f}, !.got[f].doubt = mark]
      BY <1>3, <1>4
    <3> QED BY <1>7, <3>1 DEF Step
  <2>2. mark \in {"none", "changed"} /\ (mark = "none" => Reach(f) /\ tree[f].content = old.content)
    OBVIOUS
  <2>3. Settled(p, old) => old.stamp.time < now
    <3>1. Window \in Nat /\ Window > 0 /\ old.stamp.time \in Nat
      BY <1>4, ScaleAssumption DEF Records, Stamps
    <3> QED BY <1>2, <3>1 DEF Settled, Racy
  <2> HIDE DEF mark
  <2>4. /\ rec \in Records /\ rec.stamp = old.stamp /\ rec.content = old.content
        /\ rec.symbols = old.symbols /\ rec.base = old.base /\ rec.doubt = mark
    BY <1>4, <2>2 DEF Records
  <2>5. mark = "none" => tree[f].content # 0
    BY <1>2, <1>4, <2>2, HasContent, WayUp DEF Reach, ReachIn, Entries
  <2> HIDE DEF rec, old
  <2>6. RecordOK(f, rec) /\ rec # NoRec
    <3>1. rec # NoRec
      BY <2>2, <2>4, <2>5 DEF NoRec
    <3> QED BY <1>4, <1>7, <2>2, <2>3, <2>4, <2>5, <3>1 DEF RecordOK
  <2>7. got \in [Files -> Records] /\ got[f] = rec /\ \A g \in Files \ {f} : got[g] = s.got[g]
    BY <1>3, <1>4, <2>4
  <2> HIDE DEF got
  <2>8. /\ r \in Process /\ r.pc = s.pc /\ r.left = s.left /\ r.cur = s.cur
        /\ r.unsettled = s.unsettled \ {f}
        /\ r.opened = s.opened /\ r.gone = s.gone /\ r.found = s.found /\ r.dirs = s.dirs
        /\ r.since = s.since /\ r.checked = s.checked /\ r.from = s.from /\ r.started = s.started
        /\ r.got = got
    <3>1. r \in Process
      BY <1>2, <2>7 DEF Process
    <3> QED BY <1>2, <3>1 DEF Process
  <2> HIDE DEF r, s
  <2> QED BY <1>5, <2>1, <2>4, <2>6, <2>7, <2>8
<1> QED BY <1>1, <1>6, <1>7

-----------------------------------------------------------------------------
(* Builds.                                                                  *)

LEMMA StartBuildKeeps ==
    ASSUME IInv, NEW b \in Builders, StartBuild(b)
    PROVE  IInv'
<1> DEFINE dirs == [Idle.dirs EXCEPT ![Root] = StatOf(Root)]
           r == [Idle EXCEPT !.pc = "list", !.checked = now, !.left = {Root}, !.dirs = dirs]
<1>1. /\ Become(b, r) /\ UNCHANGED <<tree, now, ops, index, touched, hidden>> /\ builds' = builds + 1
      /\ b \in Procs /\ b \notin Queries
  BY ProcessesAssumption DEF StartBuild, Procs
<1>2. TypeOK /\ TreeOK /\ now \in Nat /\ builds \in Nat /\ index \in IndexType /\ IndexOK(index)
  BY <1>1, Has
<1>3. Root \in Entries /\ Root \in Dirs /\ Root \notin Files /\ Way(Root) = {Root}
  BY TreeAssumption DEF Entries, Way
<1>4. Reach(Root)
  BY <1>2, <1>3 DEF Reach, ReachIn, TreeOK
<1>5. /\ StatOf(Root) \in Stamps /\ StatOf(Root) # Absent /\ Existed(Root)
      /\ StatOf(Root).time <= tree[Root].stamp.time
  BY <1>2, <1>3, <1>4, StatOfIs
<1>6. /\ dirs \in [Dirs -> Stamps] /\ dirs[Root] = StatOf(Root)
      /\ \A d \in Dirs \ {Root} : dirs[d] = Absent
  BY <1>3, <1>5, IdleIs DEF Process
<1> HIDE DEF dirs
<1>7. /\ r \in Process /\ r.pc = "list" /\ r.checked = now /\ r.left = {Root} /\ r.dirs = dirs
      /\ r.opened = NoIndex /\ r.since = {} /\ r.found = Idle.found /\ r.gone = {}
      /\ r.got = Idle.got /\ r.unsettled = {} /\ r.from = 0 /\ r.cur = Root /\ r.started = 0
  <2>1. r \in Process
    BY <1>2, <1>3, <1>6, IdleIs DEF Process
  <2> QED BY <2>1, IdleIs DEF Blank, Process
<1> HIDE DEF r
<1>8. OpenedOK(r, index)
  <2>1. OpenedOK(Idle, index)
    BY <1>1, <1>2, IdleOK DEF ProcOK
  <2> QED BY <1>7, <2>1, IdleIs DEF OpenedOK
<1>9. ClocksOK(r)
  BY <1>2, <1>7 DEF ClocksOK
<1>10. GotOK(b, r)
  BY <1>1, <1>7, IdleIs DEF GotOK, RecordsOK, RecordOK
<1>11. /\ FoundIn(r) = {} /\ ToList(r) = {Root} /\ KnownIn(r) = {Root} /\ Live(r.opened) = {}
  <2>1. FoundIn(r) = {} /\ ToList(r) = {Root} /\ Live(r.opened) = {}
    BY <1>7, IdleIs, NoIndexIs DEF FoundIn, ToList, Live
  <2>2. \A d \in Dirs : StampsIn(r)[d] # Absent <=> d = Root
    BY <1>5, <1>6, <1>7, NoIndexIs DEF StampsIn
  <2> QED BY <1>3, <2>1, <2>2 DEF KnownIn
<1>12. StampsOK(r.dirs)
  <2> SUFFICES ASSUME NEW d \in Dirs
      PROVE dirs[d].time <= tree[d].stamp.time /\ (dirs[d] # Absent => Existed(d))
    BY <1>7 DEF StampsOK
  <2>1. tree[d].stamp.time \in Nat /\ Absent.time = 0
    BY <1>2 DEF TypeOK, Stamps, Absent, Entries
  <2> QED BY <1>5, <1>6, <2>1
<1>13. ListOK(b, r)
  <2>1. Covers(KnownIn(r), StampsIn(r), ToList(r)) /\ LeadsTo(r)
    BY <1>11 DEF Covers, LeadsTo
  <2> QED BY <1>1, <1>3, <1>7, <1>11, <1>12, <2>1 DEF ListOK
<1>14. ProcOK(b, r, index)
  BY <1>7, <1>8, <1>9, <1>10, <1>13 DEF ProcOK, StatOK, ReadsOK, ReadingOK, ParseOK, AnswerOK
<1> QED BY <1>1, <1>2, <1>3, <1>7, <1>14, SoloKeeps

LEMMA Phase1Keeps ==
    ASSUME IInv, NEW b \in Builders, Phase1(b)
    PROVE  IInv'
<1> DEFINE s == proc[b]
           got == s.got
           j == [live |-> got, dirs |-> s.dirs, verified |-> s.checked, epoch |-> index.epoch + 1,
                 version |-> index.version + 1, noIno |-> index.noIno]
           left == {f \in Found(b) : got[f].content # 0}
           r == [Idle EXCEPT !.pc = "parse", !.got = got, !.opened = j, !.left = left]
<1>1. /\ AllRead(b) /\ b \in Procs /\ b \notin Queries /\ index' = j /\ Become(b, r)
      /\ UNCHANGED <<tree, now, ops, builds, touched, hidden>>
  <2>1. index' = j
    BY DEF Phase1, VerifiedFrom
  <2> HIDE DEF j
  <2> QED BY <2>1, ProcessesAssumption DEF Phase1, Procs
<1>2. /\ s \in Process /\ ProcOK(b, s, index) /\ TypeOK /\ index \in IndexType /\ IndexOK(index)
      /\ builds \in Nat /\ now \in Nat
  BY <1>1, Has
<1>3. /\ s.pc = "read" /\ s.left = {} /\ s.unsettled = {}
      /\ ListOK(b, s) /\ ClocksOK(s) /\ ReadsOK(b, s) /\ GotOK(b, s) /\ ToList(s) = {} /\ Pending(s) = {}
  BY <1>1, <1>2 DEF AllRead, ProcOK, ToList, Pending
<1>4. /\ s.opened = NoIndex /\ Root \in KnownIn(s) /\ StampsOK(s.dirs) /\ s.gone = {}
      /\ Covers(KnownIn(s), StampsIn(s), {})
  BY <1>1, <1>3, NoIndexIs DEF ListOK, Live
<1>5. /\ got \in [Files -> Records] /\ s.dirs \in [Dirs -> Stamps] /\ s.checked \in Nat
      /\ index.epoch \in Nat /\ index.version \in Nat /\ index.noIno \in BOOLEAN
      /\ left \subseteq Files /\ s.checked <= now /\ Found(b) = FoundIn(s)
  BY <1>2, <1>3 DEF Process, IndexType, Found, FoundIn, ClocksOK
<1> HIDE DEF s, left
<1>6. /\ j \in IndexType /\ j.live = got /\ j.dirs = s.dirs /\ j.verified = s.checked
      /\ j.epoch = index.epoch + 1 /\ j.version = index.version + 1 /\ j.version > 0
  BY <1>5 DEF IndexType
<1> HIDE DEF got
<1>7. /\ \A f \in FoundIn(s) : got[f] # NoRec /\ (Quiet(s, f) => ExactRec(got[f], f))
      /\ \A f \in Files \ FoundIn(s) : got[f] = NoRec
      /\ FoundIn(s) \subseteq Files
  BY <1>3 DEF ReadsOK, FoundIn, got
<1> HIDE DEF j
<1>8. /\ Known(j) = KnownIn(s)
      /\ \A d \in Dirs : j.dirs[d] = StampsIn(s)[d]
  <2>1. \A d \in Dirs : j.dirs[d] = StampsIn(s)[d]
    BY <1>4, <1>6, NoIndexIs DEF StampsIn
  <2>2. Live(j) = FoundIn(s) /\ Live(s.opened) = {}
    BY <1>4, <1>6, <1>7, NoIndexIs DEF Live
  <2> QED BY <1>4, <2>1, <2>2 DEF Known, KnownIn
<1>9. IndexOK(j)
  <2>1. RecordsOK(j.live) /\ StampsOK(j.dirs)
    BY <1>3, <1>4, <1>6 DEF GotOK, got
  <2>2. Covers(Known(j), j.dirs, {})
    BY <1>4, <1>8, TreeAssumption DEF Covers
  <2>3. j.dirs[Root] # Absent
    <3>1. Root \in Known(j) /\ Root \notin Files
      BY <1>4, <1>8, TreeAssumption
    <3> QED BY <3>1 DEF Known, Live
  <2> QED BY <1>6, <2>1, <2>2, <2>3 DEF IndexOK
<1>10. VerifiedOK(j)
  <2> SUFFICES ASSUME NEW f \in Files \ hidden PROVE ExactRec(j.live[f], f) \/ touched[f] >= j.verified
    BY <1>5, <1>6 DEF VerifiedOK
  <2>1. CASE f \in s.since
    BY <1>3, <1>6, <2>1 DEF ClocksOK
  <2>2. CASE f \notin s.since
    <3>1. Quiet(s, f)
      BY <2>2 DEF Quiet
    <3>2. CASE f \in FoundIn(s)
      BY <1>6, <1>7, <3>1, <3>2
    <3>3. CASE f \notin FoundIn(s)
      <4>1. ExactRec(s.opened.live[f], f)
        BY <1>2, <1>3, <1>4, <3>1, <3>3, Reflected
      <4> QED BY <1>4, <1>6, <1>7, <3>3, <4>1, NoIndexIs
    <3> QED BY <3>2, <3>3
  <2> QED BY <2>1, <2>2
<1>11. ASSUME NEW p \in Procs \ {b} PROVE ProcOK(p, proc[p], j)
  <2> DEFINE x == proc[p]
  <2>1. ProcOK(p, x, index) /\ x \in Process
    BY Has
  <2>2. OpenedOK(x, index) /\ x.opened.version \in Nat /\ x.opened.epoch \in Nat
    BY <2>1 DEF ProcOK, Process, IndexType
  <2> HIDE DEF x
  <2>3. x.opened.version < j.version /\ x.opened.epoch < j.epoch
    BY <1>5, <1>6, <2>2 DEF OpenedOK
  <2>4. j.version \in Nat /\ j.epoch \in Nat
    BY <1>6 DEF IndexType
  <2>5. OpenedOK(x, j) /\ ParseOK(p, x, j)
    <3>1. OpenedOK(x, j)
      BY <2>2, <2>3, <2>4 DEF OpenedOK
    <3>2. ParseOK(p, x, index) /\ j.epoch # x.opened.epoch
      BY <2>1, <2>2, <2>3, <2>4 DEF ProcOK
    <3> QED BY <3>1, <3>2 DEF ParseOK
  <2> QED BY <2>1, <2>5 DEF ProcOK, x
<1>12. /\ r \in Process /\ r.pc = "parse" /\ r.left = left /\ r.got = got /\ r.opened = j
       /\ r.since = {} /\ r.checked = 0 /\ r.from = 0 /\ r.started = 0 /\ r.cur = Root
  <2>1. r \in Process
    BY <1>5, <1>6, IdleIs DEF Process, Entries
  <2> QED BY <2>1, IdleIs DEF Blank, Process
<1> HIDE DEF r
<1>13. ProcOK(b, r, j)
  <2>1. OpenedOK(r, j)
    <3>1. j.version \in Nat /\ j.epoch \in Nat
      BY <1>6 DEF IndexType
    <3>2. j.version <= j.version /\ j.epoch <= j.epoch
      BY <3>1
    <3> QED BY <1>9, <1>12, <3>2 DEF OpenedOK
  <2>2. ClocksOK(r)
    BY <1>2, <1>12 DEF ClocksOK
  <2>3. GotOK(b, r)
    BY <1>1, <1>3, <1>12 DEF GotOK, got
  <2>4. ParseOK(b, r, j)
    <3>1. \A f \in Files : got[f].base => got[f] # NoRec
      BY DEF NoRec
    <3>2. \A f \in left : f \in Files /\ got[f].content # 0
      BY <1>5 DEF left, got
    <3> QED BY <1>6, <1>12, <3>1, <3>2 DEF ParseOK
  <2> QED BY <1>12, <2>1, <2>2, <2>3, <2>4 DEF ProcOK, StatOK, ListOK, ReadsOK, ReadingOK, AnswerOK
<1> QED BY <1>1, <1>2, <1>6, <1>9, <1>10, <1>11, <1>12, <1>13, TreeAssumption, StepKeeps

LEMMA Phase2Keeps ==
    ASSUME IInv, NEW b \in Builders, Phase2(b)
    PROVE  IInv'
<1> DEFINE s == proc[b]
           live == [f \in Files |-> IF index.live[f].base THEN s.got[f] ELSE index.live[f]]
           j == [index EXCEPT !.version = @ + 1, !.noIno = s.opened.noIno, !.live = live]
<1>1. /\ s.pc = "parse" /\ b \in Procs /\ Become(b, Idle)
      /\ UNCHANGED <<tree, now, ops, builds, touched, hidden>>
      /\ IF index.epoch = s.opened.epoch THEN index' = j ELSE index' = index
  BY DEF Phase2, Procs
<1>2. /\ s \in Process /\ ProcOK(b, s, index) /\ TypeOK /\ TreeOK /\ index \in IndexType /\ IndexOK(index)
      /\ VerifiedOK(index) /\ builds \in Nat
  BY <1>1, Has
<1>3. OpenedOK(s, index) /\ GotOK(b, s) /\ ParseOK(b, s, index)
  BY <1>2 DEF ProcOK
<1>4. Idle.cur \notin Files /\ Idle.pc \notin {"reading", "parsing"} /\ Idle \in Process
  BY IdleIs, TreeAssumption DEF Blank
<1>5. CASE index.epoch # s.opened.epoch
  <2>1. index' = index
    BY <1>1, <1>5
  <2>2. ProcOK(b, Idle, index)
    BY <1>1, <1>2, IdleOK
  <2> QED BY <1>1, <1>2, <1>4, <2>1, <2>2, SoloKeeps
<1>6. CASE index.epoch = s.opened.epoch
  <2>1. /\ live \in [Files -> Records] /\ s.opened.noIno \in BOOLEAN
        /\ index.version \in Nat /\ s.opened.version \in Nat /\ index.epoch \in Nat
    <3>1. s.got \in [Files -> Records] /\ index.live \in [Files -> Records]
      BY <1>2 DEF Process, IndexType
    <3>2. s.opened.noIno \in BOOLEAN /\ index.version \in Nat /\ s.opened.version \in Nat /\ index.epoch \in Nat
      BY <1>2 DEF Process, IndexType
    <3> HIDE DEF s
    <3> QED BY <3>1, <3>2
  <2>2. /\ \A f \in Files : index.live[f].base => /\ live[f] = s.got[f] /\ s.got[f] # NoRec
                                                  /\ s.got[f].content = index.live[f].content
                                                  /\ index.live[f] # NoRec
        /\ \A f \in Files : ~index.live[f].base => live[f] = index.live[f]
    <3>1. ~NoRec.base
      BY DEF NoRec
    <3> QED BY <1>1, <1>3, <1>6, <3>1 DEF ParseOK
  <2>3. index.version > 0
    BY <1>1, <1>3, <2>1 DEF ParseOK, OpenedOK
  <2> HIDE DEF live, s
  <2>4. /\ j \in IndexType /\ j.live = live /\ j.dirs = index.dirs /\ j.verified = index.verified
        /\ j.epoch = index.epoch /\ j.version = index.version + 1 /\ j.version > index.version
        /\ j.version \in Nat
    <3> DEFINE noIno == s.opened.noIno
    <3> HIDE DEF noIno
    <3>1. noIno \in BOOLEAN
      BY <2>1 DEF noIno
    <3>2. j = [index EXCEPT !.version = @ + 1, !.noIno = noIno, !.live = live]
      BY DEF noIno
    <3> HIDE DEF j
    <3>3. j = [live |-> live, dirs |-> index.dirs, verified |-> index.verified,
               epoch |-> index.epoch, version |-> index.version + 1, noIno |-> noIno]
      BY <1>2, <3>2 DEF IndexType
    <3>4. index.dirs \in [Dirs -> Stamps] /\ index.verified \in Nat /\ index.version + 1 \in Nat
          /\ index.version + 1 > index.version
      BY <1>2 DEF IndexType
    <3> QED BY <2>1, <3>1, <3>3, <3>4 DEF IndexType
  <2> HIDE DEF j
  <2>5. Known(j) = Known(index)
    <3>1. \A f \in Files : live[f] # NoRec <=> index.live[f] # NoRec
      BY <2>2
    <3> QED BY <2>4, <3>1 DEF Known, Live
  <2>6. IndexOK(j)
    <3>1. RecordsOK(live)
      <4>1. RecordsOK(s.got) /\ RecordsOK(index.live)
        BY <1>2, <1>3 DEF GotOK, IndexOK
      <4> QED BY <2>2, <4>1 DEF RecordsOK
    <3>2. index.dirs[Root] # Absent /\ j.version > 0
      BY <1>2, <2>1, <2>3, <2>4 DEF IndexOK
    <3> QED BY <1>2, <2>4, <2>5, <3>1, <3>2 DEF IndexOK
  <2>7. VerifiedOK(j)
    <3> SUFFICES ASSUME NEW f \in Files \ hidden, ExactRec(index.live[f], f) PROVE ExactRec(live[f], f)
      BY <1>2, <2>3, <2>4 DEF VerifiedOK
    <3>1. CASE ~index.live[f].base
      BY <2>2, <3>1
    <3>2. CASE index.live[f].base
      <4> DEFINE g == s.got[f]
      <4>1. live[f] = g /\ g # NoRec /\ g.content = Truth(f)
        BY <2>2, <3>2 DEF ExactRec
      <4>2. RecordOK(f, g) /\ g \in Records
        BY <1>2, <1>3 DEF GotOK, RecordsOK, Process
      <4>3. tree[f].content \in Nat
        BY <1>2 DEF TypeOK, Entries
      <4>4. g.symbols \in {0, Truth(f)}
        <5> HIDE DEF g
        <5> SUFFICES ASSUME g.symbols # 0 PROVE g.symbols = Truth(f)
          OBVIOUS
        <5>1. g.content # 0 /\ g.content <= g.symbols /\ g.symbols <= tree[f].content
          BY <4>1, <4>2 DEF RecordOK
        <5>2. Truth(f) = tree[f].content
          BY <4>1, <5>1 DEF Truth
        <5> QED BY <4>1, <4>2, <4>3, <5>1, <5>2 DEF Records
      <4> QED BY <4>1, <4>4 DEF ExactRec
    <3> QED BY <3>1, <3>2
  <2>8. ASSUME NEW p \in Procs \ {b} PROVE ProcOK(p, proc[p], j)
    <3> DEFINE x == proc[p]
    <3>1. ProcOK(p, x, index) /\ x \in Process
      BY Has
    <3>2. OpenedOK(x, index) /\ ParseOK(p, x, index) /\ x.opened.version \in Nat
      BY <3>1 DEF ProcOK, Process, IndexType
    <3> HIDE DEF x
    <3>3. OpenedOK(x, j)
      <4>1. x.opened.version < j.version
        BY <2>1, <2>4, <3>2 DEF OpenedOK
      <4> QED BY <2>1, <2>4, <3>2, <4>1 DEF OpenedOK
    <3>4. ParseOK(p, x, j)
      <4>1. \A f \in Files : live[f].base => index.live[f].base /\ live[f].content = index.live[f].content
        BY <2>2
      <4> QED BY <2>4, <3>2, <4>1 DEF ParseOK
    <3> QED BY <3>1, <3>3, <3>4 DEF ProcOK, x
  <2>9. ProcOK(b, Idle, j)
    BY <1>1, <1>2, <2>4, <2>6, IdleOK
  <2> QED BY <1>1, <1>2, <1>4, <1>6, <2>4, <2>6, <2>7, <2>8, <2>9, StepKeeps
<1> QED BY <1>5, <1>6

-----------------------------------------------------------------------------
(* The invariant and what follows from it.                                  *)

LEMMA InitIInv == Init => IInv
<1> SUFFICES ASSUME NEW indexed \in BOOLEAN, Start(indexed) PROVE IInv
  BY ScaleAssumption DEF Init
<1> DEFINE old == Old(indexed)
<1>1. PICK new \in NewSets :
         tree = [e \in Entries |->
                   [there |-> e \notin new, content |-> IF e \in new THEN 0 ELSE 1,
                    stamp |-> IF e \in new THEN Absent ELSE old]]
  BY DEF Start
<1>2. /\ now = 1 /\ ops = 0 /\ builds = 0 /\ hidden = {}
      /\ touched = [f \in Files |-> old.time] /\ proc = [p \in Procs |-> Idle]
  BY DEF Start
<1>3. /\ old \in Stamps /\ old # Absent /\ old.time \in {0, 1} /\ Absent \in Stamps /\ Absent.time = 0
      /\ indexed => old.time = 0
  BY NoIndexIs DEF Old, Stamps, Absent
<1> HIDE DEF old
<1>4. \A e \in Entries : /\ tree[e].there <=> e \notin new
                         /\ e \in new => tree[e].content = 0 /\ tree[e].stamp = Absent
                         /\ e \notin new => tree[e].content = 1 /\ tree[e].stamp = old
  BY <1>1
<1>5. tree \in TreeType
  BY <1>1, <1>3 DEF TreeType
<1>6. Files \subseteq Entries /\ Dirs \subseteq Entries /\ Root \in Entries /\ Root \notin new /\ Root \in Dirs
  BY TreeAssumption DEF Entries
\* what is on the way to what exists exists
<1>7. \A e \in Entries \ new : Existed(e)
  <2> SUFFICES ASSUME NEW e \in Entries \ new, NEW w \in Way(e) PROVE w \notin new
    BY <1>3, <1>4, WayUp DEF Existed
  <2>1. \A c \in Entries \ {Root} : Parent[c] \in new => c \in new
    BY TreeAssumption
  <2>2. CASE e = Root
    BY <1>6, <2>2 DEF Way
  <2>3. CASE e # Root
    <3>1. Parent[e] \in Entries \ new
      BY <1>6, <2>1, <2>3, TreeAssumption
    <3>2. CASE Parent[e] = Root
      BY <1>6, <2>3, <3>2 DEF Way
    <3>3. CASE Parent[e] # Root
      BY <2>1, <2>3, <3>1, <3>3 DEF Way
    <3> QED BY <3>2, <3>3
  <2> QED BY <2>2, <2>3
<1>8. index \in IndexType
  <2>1. CASE ~indexed
    BY <2>1, NoIndexIs DEF Start
  <2>2. CASE indexed
    <3> DEFINE live == [f \in Files |-> IF ~tree[f].there THEN NoRec ELSE
                          [stamp |-> old, content |-> 1, symbols |-> 1, doubt |-> "none", base |-> TRUE]]
               dirs == [d \in Dirs |-> tree[d].stamp]
    <3>1. index = [NoIndex EXCEPT !.version = 1, !.live = live, !.dirs = dirs]
      BY <2>2 DEF Start, old
    <3>2. live \in [Files -> Records]
      BY <1>3, NoIndexIs DEF Records
    <3>3. dirs \in [Dirs -> Stamps]
      BY <1>5, <1>6 DEF TreeType
    <3> HIDE DEF live, dirs
    <3> QED BY <3>1, <3>2, <3>3, NoIndexIs DEF IndexType
  <2> QED BY <2>1, <2>2
<1>9. TypeOK
  <2>1. touched \in [Files -> Nat] /\ proc \in [Procs -> Process] /\ \A p \in Procs : proc[p] = Idle
    BY <1>2, <1>3, IdleIs
  <2>2. Idle.cur \notin Files /\ Idle.pc \notin {"reading", "parsing"}
    BY IdleIs, TreeAssumption DEF Blank
  <2>3. now \in Nat /\ ops \in Nat /\ builds \in Nat /\ hidden \subseteq Files
    BY <1>2
  <2> QED BY <1>5, <1>8, <2>1, <2>2, <2>3 DEF TypeOK, TreeType
<1>10. TreeOK
  <2>1. \A d \in Dirs : tree[d].stamp.time \in {0, 1}
    BY <1>3, <1>4, <1>6
  <2>2. \A d \in Dirs : tree[d].stamp.time <= Latest
    BY <1>2, <2>1, ScaleAssumption DEF Latest
  <2>3. \A f \in Files : tree[f].content \in {0, 1} /\ (tree[f].stamp = Absent <=> tree[f].content = 0)
    BY <1>3, <1>4, <1>6
  <2> QED BY <1>2, <1>4, <1>6, <1>7, <2>2, <2>3 DEF TreeOK
<1>11. IndexOK(index) /\ VerifiedOK(index)
  <2>1. CASE ~indexed
    <3>1. index = NoIndex
      BY <2>1 DEF Start
    <3>2. NoIndex.verified = 0
      BY DEF NoIndex
    <3> QED BY <1>2, <1>9, <3>1, <3>2, NoIndexOK, NoIndexIs DEF VerifiedOK
  <2>2. CASE indexed
    <3>1. /\ \A f \in Files : index.live[f] = IF ~tree[f].there THEN NoRec ELSE
                  [stamp |-> old, content |-> 1, symbols |-> 1, doubt |-> "none", base |-> TRUE]
          /\ \A d \in Dirs : index.dirs[d] = tree[d].stamp
          /\ index.version = 1 /\ index.verified = 0
      BY <2>2 DEF Start, old, NoIndex
    <3>2. RecordsOK(index.live)
      <4> SUFFICES ASSUME NEW f \in Files, index.live[f] # NoRec PROVE RecordOK(f, index.live[f])
        BY DEF RecordsOK, RecordOK
      <4>1. tree[f].there /\ index.live[f] = [stamp |-> old, content |-> 1, symbols |-> 1,
                                              doubt |-> "none", base |-> TRUE]
        BY <3>1
      <4>2. Existed(f) /\ tree[f].content = 1
        BY <1>4, <1>6, <1>7, <4>1
      <4> QED BY <1>2, <1>3, <2>2, <4>1, <4>2 DEF RecordOK
    <3>3. StampsOK(index.dirs)
      <4> SUFFICES ASSUME NEW d \in Dirs
          PROVE tree[d].stamp.time <= tree[d].stamp.time /\ (tree[d].stamp # Absent => Existed(d))
        BY <3>1 DEF StampsOK
      <4>1. tree[d].stamp.time \in Nat
        BY <1>5, <1>6 DEF TreeType, Stamps
      <4> QED BY <1>4, <1>6, <1>7, <4>1
    <3>4. \A e \in Entries : Reach(e) => e \in Known(index)
      <4> SUFFICES ASSUME NEW e \in Entries, Reach(e) PROVE e \in Known(index)
        OBVIOUS
      <4>1. tree[e].there /\ e \notin new
        BY <1>4, WayUp DEF Reach, ReachIn
      <4>2. CASE e \in Files
        BY <3>1, <4>1, <4>2 DEF Known, Live, NoRec
      <4>3. CASE e \in Dirs
        BY <1>3, <1>4, <3>1, <4>1, <4>3 DEF Known
      <4> QED BY <4>2, <4>3 DEF Entries
    <3>5. index.dirs[Root] # Absent
      BY <1>3, <1>4, <1>6, <3>1
    <3>6. \A f \in Files : touched[f] >= 0
      BY <1>2, <1>3
    <3> QED BY <1>2, <3>1, <3>2, <3>3, <3>4, <3>5, <3>6 DEF IndexOK, VerifiedOK, Covers
  <2> QED BY <2>1, <2>2
<1>12. \A p \in Procs : ProcOK(p, proc[p], index)
  BY <1>2, <1>8, <1>9, <1>11, IdleOK
<1> QED BY <1>9, <1>10, <1>11, <1>12 DEF IInv

LEMMA ProcStepKeeps ==
    ASSUME IInv,
           \/ \E q \in Queries : QueryStep(q)
           \/ \E b \in Builders : BuildStep(b)
           \/ \E p \in Procs : ReadStep(p)
    PROVE  IInv'
<1>1. ASSUME NEW q \in Queries, QueryStep(q) PROVE IInv'
  BY <1>1, OpenFreshKeeps, StatEntryKeeps, ClassifyKeeps, ApplyNothingKeeps, DeferKeeps,
     ApplyDeltaKeeps, EndAnswerKeeps DEF QueryStep, Procs
<1>2. ASSUME NEW b \in Builders, BuildStep(b) PROVE IInv'
  BY <1>2, StartBuildKeeps, Phase1Keeps, Phase2Keeps DEF BuildStep
<1>3. ASSUME NEW p \in Procs, ReadStep(p) PROVE IInv'
  BY <1>3, ListDirKeeps, ToReadKeeps, OpenKeeps, OpenFailsKeeps, ReadFileKeeps, ParseFileKeeps,
     SettleKeeps DEF ReadStep
<1> QED BY <1>1, <1>2, <1>3

LEMMA NextIInv == IInv /\ [Next]_vars => IInv'
<1> SUFFICES ASSUME IInv, [Next]_vars PROVE IInv'
  OBVIOUS
<1>1. CASE User \/ Tick
  <2>1. TypeOK /\ TreeOK
    BY DEF IInv
  <2>2. \E files \in SUBSET Files : Outside(files) /\ TypeOK' /\ TreeOK'
    BY <1>1, <2>1, UserOutside, TickOutside
  <2> QED BY <2>2, OutsideKeeps
<1>2. CASE \/ \E q \in Queries : QueryStep(q)
           \/ \E b \in Builders : BuildStep(b)
           \/ \E p \in Procs : ReadStep(p)
  BY <1>2, ProcStepKeeps
<1>3. CASE UNCHANGED vars
  <2>1. UNCHANGED <<tree, now, ops, touched, hidden>> /\ proc' = proc /\ index' = index
    BY <1>3 DEF vars
  <2>2. TypeOK'
    BY <1>3 DEF vars, IInv, TypeOK
  <2> QED BY <2>1, <2>2, StillOK DEF IInv
<1> QED BY <1>1, <1>2, <1>3 DEF Next

LEMMA EditsOK == IInv => EditsShow
<1> SUFFICES ASSUME IInv, NEW f \in Live(index), Reach(f), index.live[f].doubt = "none",
                    Same(tree[f].stamp, index.live[f].stamp, index.noIno)
    PROVE  Exact(index, f) \/ (index.live[f].content = 0 /\ f \in hidden)
  BY DEF EditsShow
<1>1. f \in Files /\ index.live[f] # NoRec /\ RecordOK(f, index.live[f])
  BY DEF Live, IInv, IndexOK, RecordsOK
<1>2. tree[f].stamp.time = index.live[f].stamp.time
  BY DEF Same
<1>3. /\ index.live[f].symbols \in {0, index.live[f].content}
      /\ IF index.live[f].content = 0 THEN Gone(f) ELSE tree[f].content = index.live[f].content
  BY <1>1, <1>2 DEF RecordOK
<1>4. CASE index.live[f].content = 0
  BY <1>1, <1>3, <1>4, BelowOwn DEF Gone
<1>5. CASE index.live[f].content # 0
  BY <1>3, <1>5 DEF Exact, Truth
<1> QED BY <1>4, <1>5

LEMMA AdditionsOK == IInv => AdditionsShow
<1> SUFFICES ASSUME IInv, index.version > 0, NEW f \in Files \ (Live(index) \cup hidden), Reach(f)
    PROVE  \E e \in Way(f) \ Known(index) :
              e # Root /\ Parent[e] \in Known(index)
              /\ ~Same(tree[Parent[e]].stamp, index.dirs[Parent[e]], index.noIno)
  BY DEF AdditionsShow
<1>1. f \in Entries /\ f \notin Dirs /\ Root \in Dirs
  BY TreeAssumption DEF Entries
<1>2. Root \in Known(index) /\ f \notin Known(index)
  BY <1>1 DEF IInv, IndexOK, Known
<1>3. PICK e \in Way(f) \ Known(index) : e # Root /\ Parent[e] \in Known(index)
  BY <1>1, <1>2, Topmost
<1>4. e \in Entries /\ Reach(e) /\ f \in Below(e)
  <2>1. e \in Entries
    BY <1>1, <1>3, WayUp
  <2> QED BY <1>1, <1>3, <2>1, ReachUp DEF Below
<1>5. Covers(Known(index), index.dirs, {})
  BY DEF IInv, IndexOK
<1>6. index.dirs[Parent[e]].time < tree[Parent[e]].stamp.time
  BY <1>3, <1>4, <1>5 DEF Covers
<1>7. index.dirs[Parent[e]].time \in Nat /\ tree[Parent[e]].stamp.time \in Nat
  <2>1. Parent[e] \in Dirs /\ Parent[e] \in Entries
    BY <1>3, <1>4, TreeAssumption DEF Entries
  <2>2. index.dirs[Parent[e]] \in Stamps /\ tree[Parent[e]].stamp \in Stamps
    BY <2>1 DEF IInv, TypeOK, IndexType
  <2> QED BY <2>2 DEF Stamps
<1> QED BY <1>3, <1>6, <1>7 DEF Same

LEMMA FreshOK == IInv => AnswerFresh
<1> SUFFICES ASSUME IInv PROVE AnswerFresh
  OBVIOUS
<1>1. VerifiedAsOf
  BY DEF IInv, VerifiedOK, VerifiedAsOf, ExactRec, Exact
<1>2. ASSUME NEW q \in Queries, proc[q].pc = "answer", NEW f \in Files \ (proc[q].since \cup hidden)
      PROVE  Reflects(q, f)
  <2>1. AnswerOK(q, proc[q])
    BY DEF IInv, ProcOK, Procs
  <2>2. /\ \A g \in proc[q].gone : Gone(g)
        /\ f \in proc[q].gone \cup FoundIn(proc[q]) \/ ExactRec(proc[q].opened.live[f], f)
    BY <1>2, <2>1 DEF AnswerOK, Quiet
  <2>3. f \in proc[q].gone => ~Reach(f)
    BY <2>2, BelowOwn DEF Gone
  <2>4. FoundIn(proc[q]) = Found(q)
    BY DEF FoundIn, Found
  <2> QED BY <2>2, <2>3, <2>4 DEF Reflects, ExactRec, Exact
<1> QED BY <1>1, <1>2 DEF AnswerFresh

\* The tree, the index and the processes keep their types.
THEOREM TypeCorrect == Spec => []TypeOK
<1>1. IInv => TypeOK
  BY DEF IInv
<1> QED BY InitIInv, NextIInv, <1>1, PTL DEF Spec

\* No edit of an indexed file and no new file hides from the next check
\* (fresh.rs `check_stat`, `relist_dirs`; build.rs `read_file`, `settle_racy`).
THEOREM ChangesAreShown == Spec => []ChangesShow
<1>1. IInv => ChangesShow
  BY EditsOK, AdditionsOK DEF ChangesShow
<1> QED BY InitIInv, NextIInv, <1>1, PTL DEF Spec

\* An answer reflects every change made before its check, or up to TTL before it
\* opened the index (indexed.rs `open_fresh_with`, fresh.rs `apply`).
THEOREM AnswersAreFresh == Spec => []AnswerFresh
BY InitIInv, NextIInv, FreshOK, PTL DEF Spec
=============================================================================
