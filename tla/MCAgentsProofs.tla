--------------------------- MODULE MCAgentsProofs ---------------------------
(***************************************************************************)
(* Proofs about MCAgents: what installs make of the configuration files    *)
(* (EditsSurvive, OkIsDone), where rewritten commands run (RunsAsChecked), *)
(* and what the statistics log keeps (LogSound).  The parts share nothing, *)
(* so each has an inductive invariant of its own: HInv, ShellSound and,    *)
(* with the latter, AgentsOk.                                              *)
(***************************************************************************)
EXTENDS MCAgents, SequenceTheorems, FiniteSetTheorems, TLAPS

-----------------------------------------------------------------------------
(* Recursive functions *)

LEMMA Least ==
    ASSUME NEW T \in SUBSET Nat, T # {}
    PROVE  \E x \in T : \A y \in T : x <= y
<1> DEFINE R == OpToRel(<, Nat)
<1>1. PICK x \in T : \A y \in T : ~ (<<y, x>> \in R)
  BY NatLessThanWellFounded, WFMin
<1>2. \A y \in T : ~ (y < x)
  BY <1>1 DEF OpToRel
<1> QED BY <1>2

\* A function defined by its value at 0 and by each value from the last.
Recurs(n, b, g, f) == f = [i \in 0 .. n |-> IF i = 0 THEN b ELSE g[i][f[i - 1]]]

LEMMA Recursion ==
    ASSUME NEW n \in Nat, NEW B, NEW b \in B, NEW g \in [1 .. n -> [B -> B]]
    PROVE  \E f \in [0 .. n -> B] : Recurs(n, b, g, f)
<1> DEFINE Solves(m, f) == f = [i \in 0 .. m |-> IF i = 0 THEN b ELSE g[i][f[i - 1]]]
           D == {m \in 0 .. n : ~ \E f \in [0 .. m -> B] : Solves(m, f)}
<1>1. SUFFICES ASSUME D # {} PROVE FALSE
  <2>1. n \in 0 .. n
    OBVIOUS
  <2> QED BY <2>1 DEF Recurs
<1>2. PICK m \in D : \A k \in D : m <= k
  <2>1. D \in SUBSET Nat
    OBVIOUS
  <2> QED BY <2>1, <1>1, Least
<1>3. CASE m = 0
  <2> DEFINE f == [i \in 0 .. 0 |-> b]
  <2>1. f \in [0 .. m -> B] /\ Solves(m, f)
    BY <1>3
  <2> QED BY <2>1
<1>4. CASE m # 0
  <2>1. m \in 1 .. n /\ m - 1 \in 0 .. n /\ ~ (m <= m - 1)
    BY <1>4
  <2>2. m - 1 \notin D
    BY <2>1, <1>2
  <2>3. PICK f \in [0 .. m - 1 -> B] : Solves(m - 1, f)
    BY <2>1, <2>2
  <2> DEFINE h == [i \in 0 .. m |-> IF i = m THEN g[m][f[m - 1]] ELSE f[i]]
  <2>4. \A i \in 0 .. m : i # m => i \in 0 .. m - 1
    BY <2>1
  <2>5. m - 1 \in 0 .. m - 1 /\ m - 1 # m /\ m - 1 \in 0 .. m
    BY <2>1
  <2>6. h \in [0 .. m -> B]
    <3>1. g[m] \in [B -> B] /\ f[m - 1] \in B
      BY <2>1, <2>5
    <3> QED BY <2>4, <3>1
  <2>7. ASSUME NEW i \in 0 .. m PROVE h[i] = IF i = 0 THEN b ELSE g[i][h[i - 1]]
    <3>1. CASE i = m
      BY <3>1, <2>1, <2>5
    <3>2. CASE i # m
      <4>1. i \in 0 .. m - 1 /\ (i # 0 => i - 1 \in 0 .. m /\ i - 1 # m)
        BY <3>2, <2>4
      <4>2. h[i] = f[i] /\ (i # 0 => h[i - 1] = f[i - 1])
        BY <4>1, <3>2
      <4>3. f[i] = IF i = 0 THEN b ELSE g[i][f[i - 1]]
        BY <4>1, <2>3
      <4> QED BY <4>2, <4>3
    <3> QED BY <3>1, <3>2
  <2>8. Solves(m, h)
    BY <2>7
  <2> QED BY <2>6, <2>8
<1> QED BY <1>3, <1>4

-----------------------------------------------------------------------------
(* Configurations: what Without leaves *)

Bared(e) == [e EXCEPT !.hooks = @ \ {Ours}]
Drops(e) == H!IsOurs(e) /\ H!Bare(e)

Left(es, f) ==
    f = [i \in 0 .. Len(es) |->
           IF i = 0 THEN <<>> ELSE IF Drops(es[i]) THEN f[i - 1] ELSE Append(f[i - 1], Bared(es[i]))]

Clean(es) == \A i \in DOMAIN es : ~ H!IsOurs(es[i])

LEMMA BaredEntry ==
    ASSUME NEW e \in H!Entry
    PROVE  /\ Bared(e) \in H!Entry /\ ~ H!IsOurs(Bared(e))
           /\ (~ H!IsOurs(e) => Bared(e) = e)
BY DEF Bared, H!Entry, H!IsOurs

LEMMA WithoutLeft ==
    ASSUME NEW es \in Seq(H!Entry)
    PROVE  \E f \in [0 .. Len(es) -> Seq(H!Entry)] : Left(es, f) /\ H!Without(es) = f[Len(es)]
<1> DEFINE n == Len(es)
           g == [i \in 1 .. n |-> [x \in Seq(H!Entry) |->
                   IF Drops(es[i]) THEN x ELSE Append(x, Bared(es[i]))]]
           F(left) == left = [i \in 0 .. Len(es) |->
                        IF i = 0 THEN <<>>
                        ELSE IF H!IsOurs(es[i]) /\ H!Bare(es[i]) THEN left[i - 1]
                        ELSE Append(left[i - 1], [es[i] EXCEPT !.hooks = @ \ {Ours}])]
<1>1. n \in Nat /\ <<>> \in Seq(H!Entry) /\ \A i \in 1 .. n : es[i] \in H!Entry
  OBVIOUS
<1>2. g \in [1 .. n -> [Seq(H!Entry) -> Seq(H!Entry)]]
  BY <1>1, BaredEntry
<1>3. PICK f \in [0 .. n -> Seq(H!Entry)] :
         f = [i \in 0 .. n |-> IF i = 0 THEN <<>> ELSE g[i][f[i - 1]]]
  <2> DEFINE B == Seq(H!Entry)  b == <<>>
  <2>1. n \in Nat /\ b \in B /\ g \in [1 .. n -> [B -> B]]
    BY <1>1, <1>2
  <2> HIDE DEF g, n, B, b
  <2>2. \E f \in [0 .. n -> B] : Recurs(n, b, g, f)
    BY <2>1, Recursion
  <2> QED BY <2>2 DEF B, b, Recurs
<1>4. ASSUME NEW i \in 0 .. n, i # 0
      PROVE  g[i][f[i - 1]] = IF Drops(es[i]) THEN f[i - 1] ELSE Append(f[i - 1], Bared(es[i]))
  <2>1. i \in 1 .. n /\ i - 1 \in 0 .. n
    BY <1>4
  <2>2. f[i - 1] \in Seq(H!Entry)
    BY <2>1
  <2> QED BY <2>1, <2>2
<1>5. Left(es, f)
  BY <1>3, <1>4 DEF Left
<1>6. \E left : F(left)
  BY <1>5 DEF Left, Drops, Bared
<1>7. PICK h : F(h) /\ H!Without(es) = h[Len(es)]
  <2> DEFINE h == CHOOSE left : F(left)
  <2>1. F(h)
    BY <1>6
  <2>2. H!Without(es) = h[Len(es)]
    BY DEF H!Without
  <2> HIDE DEF h
  <2> QED BY <2>1, <2>2
<1>8. Left(es, h)
  BY <1>7 DEF Left, Drops, Bared
<1>9. h = f
  <2> DEFINE D == {i \in 0 .. n : h[i] # f[i]}
  <2>1. SUFFICES D = {}
    BY <2>1, <1>5, <1>8 DEF Left
  <2>2. SUFFICES ASSUME D # {} PROVE FALSE
    OBVIOUS
  <2>3. PICK i \in D : \A j \in D : i <= j
    <3>1. D \in SUBSET Nat
      OBVIOUS
    <3> QED BY <3>1, <2>2, Least
  <2>4. i # 0
    BY <2>3, <1>5, <1>8 DEF Left
  <2>5. i - 1 \in 0 .. n /\ ~ (i <= i - 1)
    BY <2>4
  <2>6. h[i - 1] = f[i - 1]
    BY <2>5, <2>3
  <2>7. h[i] = f[i]
    BY <2>4, <2>6, <1>5, <1>8 DEF Left
  <2> QED BY <2>7
<1> QED BY <1>5, <1>7, <1>9

LEMMA WithoutClean ==
    ASSUME NEW es \in Seq(H!Entry)
    PROVE  H!Without(es) \in Seq(H!Entry) /\ Clean(H!Without(es))
<1>1. PICK f \in [0 .. Len(es) -> Seq(H!Entry)] : Left(es, f) /\ H!Without(es) = f[Len(es)]
  BY WithoutLeft
<1> DEFINE n == Len(es)  D == {i \in 0 .. n : ~ Clean(f[i])}
<1>2. SUFFICES D = {}
  BY <1>1
<1>3. SUFFICES ASSUME D # {} PROVE FALSE
  OBVIOUS
<1>4. PICK i \in D : \A j \in D : i <= j
  <2>1. D \in SUBSET Nat
    OBVIOUS
  <2> QED BY <2>1, <1>3, Least
<1>5. i # 0
  BY <1>1, <1>4 DEF Left, Clean
<1>6. i \in 1 .. n /\ i - 1 \in 0 .. n /\ ~ (i <= i - 1) /\ es[i] \in H!Entry
  BY <1>5
<1>7. Clean(f[i - 1]) /\ f[i - 1] \in Seq(H!Entry)
  BY <1>6, <1>4
<1>8. f[i] = IF Drops(es[i]) THEN f[i - 1] ELSE Append(f[i - 1], Bared(es[i]))
  BY <1>1, <1>6, <1>5 DEF Left
<1>9. Clean(f[i])
  <2> DEFINE s == f[i - 1]
  <2>0. Bared(es[i]) \in H!Entry /\ ~ H!IsOurs(Bared(es[i]))
    BY <1>6, BaredEntry
  <2>1. ASSUME NEW k \in DOMAIN Append(s, Bared(es[i]))
        PROVE  ~ H!IsOurs(Append(s, Bared(es[i]))[k])
    <3>1. CASE k \in 1 .. Len(s)
      BY <3>1, <1>7 DEF Clean
    <3>2. CASE k = Len(s) + 1
      BY <3>2, <1>7, <2>0
    <3> QED BY <3>1, <3>2, <1>7
  <2> QED BY <2>1, <1>7, <1>8 DEF Clean
<1> QED BY <1>9

LEMMA CleanStays ==
    ASSUME NEW es \in Seq(H!Entry), Clean(es)
    PROVE  H!Without(es) = es
<1>1. PICK f \in [0 .. Len(es) -> Seq(H!Entry)] : Left(es, f) /\ H!Without(es) = f[Len(es)]
  BY WithoutLeft
<1> DEFINE n == Len(es)
           Is(i) == Len(f[i]) = i /\ \A k \in 1 .. i : f[i][k] = es[k]
           D == {i \in 0 .. n : ~ Is(i)}
<1>2. SUFFICES D = {}
  <2>1. Is(n)
    BY <1>2
  <2> QED BY <2>1, <1>1
<1>3. SUFFICES ASSUME D # {} PROVE FALSE
  OBVIOUS
<1>4. PICK i \in D : \A j \in D : i <= j
  <2>1. D \in SUBSET Nat
    OBVIOUS
  <2> QED BY <2>1, <1>3, Least
<1>5. i # 0
  BY <1>1, <1>4 DEF Left
<1>6. i \in 1 .. n /\ i - 1 \in 0 .. n /\ ~ (i <= i - 1) /\ es[i] \in H!Entry
  BY <1>5
<1>7. Is(i - 1) /\ f[i - 1] \in Seq(H!Entry)
  BY <1>6, <1>4
<1>8. f[i] = Append(f[i - 1], es[i])
  <2>1. ~ Drops(es[i]) /\ Bared(es[i]) = es[i]
    BY <1>6, BaredEntry DEF Clean, Drops
  <2> QED BY <2>1, <1>1, <1>6, <1>5 DEF Left
<1>9. Is(i)
  BY <1>6, <1>7, <1>8
<1> QED BY <1>9

LEMMA WithoutHook ==
    ASSUME NEW es \in Seq(H!Entry)
    PROVE  H!Without(Append(es, H!HookEntry)) = H!Without(es)
<1> DEFINE n == Len(es)  u == Append(es, H!HookEntry)
<1>0. H!HookEntry \in H!Entry /\ Drops(H!HookEntry)
  BY DEF H!HookEntry, H!Entry, Drops, H!IsOurs, H!Bare
<1>1. PICK f \in [0 .. n -> Seq(H!Entry)] : Left(es, f) /\ H!Without(es) = f[n]
  BY WithoutLeft
<1>2. u \in Seq(H!Entry) /\ Len(u) = n + 1 /\ n \in Nat
  BY <1>0
<1>3. PICK g \in [0 .. n + 1 -> Seq(H!Entry)] : Left(u, g) /\ H!Without(u) = g[n + 1]
  BY <1>2, WithoutLeft
<1>4. \A i \in 1 .. n : u[i] = es[i]
  BY <1>0
<1>5. u[n + 1] = H!HookEntry
  BY <1>0
<1> DEFINE D == {i \in 0 .. n : g[i] # f[i]}
<1>6. D = {}
  <2>1. SUFFICES ASSUME D # {} PROVE FALSE
    OBVIOUS
  <2>2. PICK i \in D : \A j \in D : i <= j
    <3>1. D \in SUBSET Nat
      OBVIOUS
    <3> QED BY <3>1, <2>1, Least
  <2> HIDE DEF u
  <2>3. i # 0
    BY <1>1, <1>2, <1>3, <2>2 DEF Left
  <2>4. i \in 1 .. n /\ i - 1 \in 0 .. n /\ i \in 0 .. n + 1 /\ ~ (i <= i - 1)
    BY <2>3, <1>2
  <2>5. g[i - 1] = f[i - 1]
    BY <2>4, <2>2
  <2>6. g[i] = f[i]
    BY <2>3, <2>4, <2>5, <1>4, <1>1, <1>2, <1>3 DEF Left
  <2> QED BY <2>6, <2>2
<1>7. g[n + 1] = g[n]
  <2>1. n + 1 \in 0 .. n + 1 /\ n + 1 # 0 /\ (n + 1) - 1 = n
    BY <1>2
  <2> HIDE DEF u
  <2> QED BY <2>1, <1>0, <1>5, <1>2, <1>3 DEF Left
<1> QED BY <1>1, <1>2, <1>3, <1>6, <1>7

LEMMA WithoutNothing == H!Without(<<>>) = <<>>
<1>1. <<>> \in Seq(H!Entry) /\ Clean(<<>>)
  BY DEF Clean
<1> QED BY <1>1, CleanStays

-----------------------------------------------------------------------------
(* Installing the hook: the inductive invariant *)

HBody == [text : H!Texts, entries : Seq(H!Entry)]
HFile == [ino : Nat, links : Nat, whole : BOOLEAN, body : HBody]
HProc == [pc : H!Busy \cup {"idle", "readSkill"}, uninstall : BOOLEAN, at : H!Files,
          snap : [H!Files -> HFile], body : HBody,
          act : {"check", "write", "remove", "preserve"}, tmp : HFile,
          result : {"none", "ok", "failed"}, over : SUBSET H!Files, wrote : SUBSET H!Files]

HType ==
    /\ file \in [H!Files -> HFile] /\ durable \in [H!Files -> HFile] /\ want \in [H!Files -> HFile]
    /\ pathLock \in [H!Files -> Procs \cup {NoProc}] /\ proc \in [Procs -> HProc]
    /\ editing \in [file : H!Files, ino : Nat] /\ made \in Nat /\ raced \in SUBSET H!Files

\* No file is torn, and no file is as an empty one.
Sane(g) == g.body.text # "torn" /\ (g.ino = 0 => g.body = H!Empty)

\* What is on disk, and what would be after a power loss, is what users made.
FilesSound ==
    \A f \in H!Files :
        /\ Sane(file[f]) /\ Sane(durable[f]) /\ file[f].whole /\ durable[f].whole
        /\ f \notin raced => /\ H!UserPart(f, file[f]) = H!UserPart(f, want[f])
                             /\ H!UserPart(f, durable[f]) = H!UserPart(f, want[f])

\* What a command holds follows from what it read.
Working == {"tmp", "sync", "commit", "publish", "unlink", "syncDir"}
CommandSound(s) ==
    /\ \A f \in H!Files : Sane(s.snap[f])
    /\ s.pc \in H!Busy \cup {"readSkill"} /\ s.at = Config =>
          /\ s.body = H!ConfigBody(s.snap[Config], s.uninstall)
          /\ s.act = IF s.body = s.snap[Config].body THEN "check" ELSE "write"
    /\ s.pc \in H!Busy /\ s.at = Skill =>
          /\ s.body = H!Body("generated", <<>>)
          /\ s.act = H!SkillAct(s.snap[Skill], s.uninstall)
    /\ s.pc = "readSkill" => s.at = Config
    /\ s.pc \in {"tmp", "sync", "unlink"} => s.act = "write"
    /\ s.pc \in Working => s.act \in {"write", "remove"}
    /\ s.pc \in Working \ {"tmp"} /\ s.act = "write" => s.tmp.body = s.body /\ s.tmp.ino # 0
    /\ s.pc \in {"commit", "publish"} /\ s.act = "write" => s.tmp.whole
    /\ s.result = "ok" => s.pc = "idle"

\* A replacement that is due keeps the user's part, or a change raced it.
Put(s) == IF s.act = "write" THEN s.tmp ELSE H!NoFile
Ready(s, w, r) ==
    s.pc = "publish" /\ s.snap[s.at].ino # 0 /\ s.at \notin r =>
        H!UserPart(s.at, Put(s)) = H!UserPart(s.at, w[s.at])

\* A file a command is done with is as it says, until somebody changes it.
Done(u, f, g) ==
    IF f = Config THEN IF u THEN ~H!Had(g.body.entries, u) ELSE H!Had(g.body.entries, u)
    ELSE IF u THEN g.ino = 0 ELSE g.body.text = "generated"
DoneWith(s, fl) ==
    /\ s.pc \in {"unlink", "syncDir"} => s.at \in s.over \/ Done(s.uninstall, s.at, fl[s.at])
    /\ (s.at = Skill /\ s.pc \in H!Busy) \/ s.result = "ok" =>
          Config \in s.over \/ Done(s.uninstall, Config, fl[Config])
    /\ s.result = "ok" =>
          Skill \in s.over \/ s.act = "preserve" \/ Done(s.uninstall, Skill, fl[Skill])

HInv ==
    /\ HType /\ FilesSound
    /\ \A p \in Procs : /\ CommandSound(proc[p]) /\ Ready(proc[p], want, raced)
                        /\ DoneWith(proc[p], file)

-----------------------------------------------------------------------------

LEMMA InstallNames ==
    /\ Config # Skill /\ Agent \in {"claude", "codex"}
    /\ \A c \in UserConfigs : c \in Seq(H!Entry)
    /\ \A t \in Skills : t \in H!SkillTexts
BY InstallAssumption DEF H!NamesAssumption, H!BodiesAssumption

LEMMA BodyTypes ==
    /\ H!Empty \in HBody /\ H!NoFile \in HFile /\ H!Body("generated", <<>>) \in HBody
    /\ \A es \in Seq(H!Entry) : H!Body("entries", es) \in HBody
    /\ \A b \in HBody : H!OnDisk(b) \in HFile
    /\ Sane(H!NoFile) /\ H!NoFile.whole /\ H!NoFile.ino = 0
<1>1. <<>> \in Seq(H!Entry)
  OBVIOUS
<1>2. {"empty", "generated", "entries"} \subseteq H!Texts
  BY DEF H!Texts, H!SkillTexts
<1> QED BY <1>1, <1>2 DEF H!Empty, H!NoFile, H!Body, HBody, HFile, H!OnDisk, Sane

LEMMA ConfigWritten ==
    ASSUME NEW c \in HFile, NEW u \in BOOLEAN
    PROVE  /\ H!ConfigBody(c, u) \in HBody
           /\ H!Without(H!ConfigBody(c, u).entries) = H!Without(c.body.entries)
           /\ IF u THEN ~H!Had(H!ConfigBody(c, u).entries, u)
              ELSE H!Had(H!ConfigBody(c, u).entries, u)
           /\ H!ConfigBody(c, u).text \in {c.body.text, "entries"}
<1> DEFINE es == c.body.entries  b == H!ConfigBody(c, u)
<1>0. es \in Seq(H!Entry) /\ c.body \in HBody
  BY DEF HFile, HBody
<1>1. H!Without(es) \in Seq(H!Entry) /\ Clean(H!Without(es)) /\ H!Without(H!Without(es)) = H!Without(es)
  BY <1>0, WithoutClean, CleanStays
<1>2. H!HookEntry \in H!Entry /\ H!IsOurs(H!HookEntry) /\ H!HookEntry.matcher = "Bash"
  BY DEF H!HookEntry, H!Entry, H!IsOurs
<1>3. /\ Append(es, H!HookEntry) \in Seq(H!Entry) /\ Append(es, H!HookEntry) # es
      /\ Len(es) + 1 \in DOMAIN Append(es, H!HookEntry)
      /\ Append(es, H!HookEntry)[Len(es) + 1] = H!HookEntry
  BY <1>0, <1>2
<1>4. CASE u
  <2>1. H!Edited(es, u) = H!Without(es)
    BY <1>4 DEF H!Edited
  <2>2. b.entries = H!Without(es) /\ b \in HBody /\ b.text \in {c.body.text, "entries"}
    BY <2>1, <1>0, <1>1, BodyTypes DEF H!ConfigBody, H!Body
  <2>3. ~ H!Had(b.entries, u)
    <3>1. \A i \in DOMAIN b.entries : ~ H!IsOurs(b.entries[i])
      BY <2>2, <1>1 DEF Clean
    <3> HIDE DEF b
    <3> QED BY <3>1 DEF H!Had
  <2> QED BY <2>2, <2>3, <1>1, <1>4
<1>5. CASE ~u /\ H!Had(es, FALSE)
  <2>1. H!Edited(es, u) = es
    BY <1>5 DEF H!Edited
  <2>2. b = c.body
    BY <2>1 DEF H!ConfigBody
  <2> QED BY <2>2, <1>0, <1>5
<1>6. CASE ~u /\ ~H!Had(es, FALSE)
  <2>1. H!Edited(es, u) = Append(es, H!HookEntry)
    BY <1>6 DEF H!Edited
  <2>2. b.entries = Append(es, H!HookEntry) /\ b \in HBody /\ b.text \in {c.body.text, "entries"}
    BY <2>1, <1>0, <1>3, BodyTypes DEF H!ConfigBody, H!Body
  <2>3. H!Had(b.entries, FALSE)
    BY <2>2, <1>2, <1>3 DEF H!Had
  <2> QED BY <2>2, <2>3, <1>0, <1>6, WithoutHook
<1> QED BY <1>4, <1>5, <1>6

\* What a user made of a file does not depend on links, or on what is on disk.
LEMMA SamePart ==
    ASSUME NEW f \in H!Files, NEW g \in HFile, NEW h \in HFile, g.body = h.body,
           g.ino = 0 <=> h.ino = 0
    PROVE  H!UserPart(f, g) = H!UserPart(f, h)
BY DEF H!UserPart

LEMMA NoPart ==
    ASSUME NEW f \in H!Files, NEW g \in HFile, g.ino = 0, Sane(g)
    PROVE  H!UserPart(f, g) = <<>>
BY WithoutNothing DEF H!UserPart, Sane, H!Empty, H!Body

\* What a command writes or removes keeps the user's part of what it read.
LEMMA PutKeeps ==
    ASSUME NEW s \in HProc, CommandSound(s), s.pc \in {"commit", "publish"}
    PROVE  H!UserPart(s.at, Put(s)) = H!UserPart(s.at, s.snap[s.at])
<1>0. s.snap[s.at] \in HFile /\ s.at \in H!Files /\ s.tmp \in HFile /\ s.uninstall \in BOOLEAN
  BY DEF HProc
<1>1. s.act \in {"write", "remove"} /\ s.pc \in H!Busy
  BY DEF CommandSound, Working, H!Busy
<1>2. CASE s.at = Config
  <2>1. s.act = "write" /\ s.body = H!ConfigBody(s.snap[Config], s.uninstall)
    BY <1>1, <1>2 DEF CommandSound
  <2>2. Put(s) = s.tmp /\ s.tmp.body = s.body
    BY <2>1, <1>1 DEF Put, CommandSound, Working
  <2> QED BY <2>1, <2>2, <1>0, <1>2, ConfigWritten DEF H!UserPart
<1>3. CASE s.at = Skill
  <2>1. s.body = H!Body("generated", <<>>) /\ s.act = H!SkillAct(s.snap[Skill], s.uninstall)
    BY <1>1, <1>3 DEF CommandSound
  <2>2. s.snap[Skill].ino = 0 \/ H!Owned(s.snap[Skill].body.text)
    BY <2>1, <1>1 DEF H!SkillAct
  <2>3. H!UserPart(Skill, s.snap[Skill]) = <<>>
    BY <2>2, InstallNames DEF H!UserPart
  <2>4. H!UserPart(Skill, Put(s)) = <<>>
    <3>1. CASE s.act = "write"
      <4>1. Put(s).body.text = "generated"
        BY <3>1, <2>1 DEF Put, CommandSound, Working, H!Body
      <4> QED BY <4>1, InstallNames DEF H!UserPart, H!Owned, H!SkillTexts
    <3>2. CASE s.act = "remove"
      BY <3>2, InstallNames DEF Put, H!UserPart, H!NoFile
    <3> QED BY <3>1, <3>2, <1>1
  <2> QED BY <2>3, <2>4, <1>3
<1> QED BY <1>0, <1>2, <1>3 DEF H!Files

\* What a command writes or removes is as the command says.
LEMMA PutIsDone ==
    ASSUME NEW s \in HProc, CommandSound(s), s.pc \in {"commit", "publish"}
    PROVE  Done(s.uninstall, s.at, Put(s))
<1>0. s.snap[s.at] \in HFile /\ s.at \in H!Files /\ s.tmp \in HFile /\ s.uninstall \in BOOLEAN
  BY DEF HProc
<1>1. s.act \in {"write", "remove"} /\ s.pc \in H!Busy
  BY DEF CommandSound, Working, H!Busy
<1>2. CASE s.at = Config
  <2>1. s.act = "write" /\ s.body = H!ConfigBody(s.snap[Config], s.uninstall)
    BY <1>1, <1>2 DEF CommandSound
  <2>2. Put(s) = s.tmp /\ s.tmp.body = s.body
    BY <2>1, <1>1 DEF Put, CommandSound, Working
  <2>3. IF s.uninstall THEN ~H!Had(Put(s).body.entries, s.uninstall)
        ELSE H!Had(Put(s).body.entries, s.uninstall)
    BY <2>1, <2>2, <1>0, <1>2, ConfigWritten
  <2> QED BY <2>3, <1>2 DEF Done
<1>3. CASE s.at = Skill
  <2>1. s.body = H!Body("generated", <<>>) /\ s.act = H!SkillAct(s.snap[Skill], s.uninstall)
    BY <1>1, <1>3 DEF CommandSound
  <2>2. CASE s.act = "write"
    <3>1. ~s.uninstall
      BY <2>1, <2>2 DEF H!SkillAct
    <3>2. Put(s).body.text = "generated"
      BY <2>1, <2>2 DEF Put, CommandSound, Working, H!Body
    <3> QED BY <3>1, <3>2, <1>3, InstallNames DEF Done
  <2>3. CASE s.act = "remove"
    <3>1. s.uninstall
      BY <2>1, <2>3 DEF H!SkillAct
    <3>2. Put(s).ino = 0
      BY <2>3 DEF Put, H!NoFile
    <3> QED BY <3>1, <3>2, <1>3, InstallNames DEF Done
  <2> QED BY <2>2, <2>3, <1>1
<1> QED BY <1>0, <1>2, <1>3 DEF H!Files

-----------------------------------------------------------------------------
(* Installing the hook: the steps *)

\* A step of p that changes no text and no name of a file.
LEMMA LocalStep ==
    ASSUME HInv, NEW p \in Procs, NEW t \in HProc, proc' = [proc EXCEPT ![p] = t],
           CommandSound(t), Ready(t, want, raced), DoneWith(t, file),
           pathLock' \in [H!Files -> Procs \cup {NoProc}], made' \in Nat,
           file' \in [H!Files -> HFile], durable' \in [H!Files -> HFile], FilesSound',
           \A f \in H!Files : file'[f].body = file[f].body /\ file'[f].ino = file[f].ino,
           UNCHANGED <<want, raced, editing>>
    PROVE  HInv'
<1>1. HType'
  BY DEF HInv, HType
<1>2. ASSUME NEW s \in HProc, DoneWith(s, file) PROVE DoneWith(s, file')
  <2>1. \A u \in BOOLEAN, f \in H!Files : Done(u, f, file[f]) => Done(u, f, file'[f])
    BY DEF Done, H!Files
  <2>2. Config \in H!Files /\ Skill \in H!Files /\ s.at \in H!Files /\ s.uninstall \in BOOLEAN
    BY DEF H!Files, HProc
  <2> QED BY <1>2, <2>1, <2>2 DEF DoneWith
<1>3. ASSUME NEW q \in Procs
      PROVE  CommandSound(proc'[q]) /\ Ready(proc'[q], want', raced') /\ DoneWith(proc'[q], file')
  <2>0. proc[q] \in HProc /\ proc'[q] = IF q = p THEN t ELSE proc[q]
    BY DEF HInv, HType
  <2>1. DoneWith(proc'[q], file)
    BY <2>0 DEF HInv
  <2>2. proc'[q] \in HProc
    BY <2>0
  <2> QED BY <2>0, <2>1, <2>2, <1>2 DEF HInv
<1> QED BY <1>1, <1>3 DEF HInv

LEMMA LocalFiles ==
    ASSUME HInv, UNCHANGED <<file, durable, want, raced>>
    PROVE  /\ file' \in [H!Files -> HFile] /\ durable' \in [H!Files -> HFile] /\ FilesSound'
           /\ \A f \in H!Files : file'[f].body = file[f].body /\ file'[f].ino = file[f].ino
BY DEF HInv, HType, FilesSound

Failed == [H!Idle EXCEPT !.result = "failed"]

LEMMA Ended ==
    /\ H!Idle \in HProc /\ Failed \in HProc
    /\ \A s \in {H!Idle, Failed} : \A w, r, fl :
         CommandSound(s) /\ Ready(s, w, r) /\ DoneWith(s, fl)
<1>1. H!Idle \in HProc /\ Failed \in HProc
  BY BodyTypes DEF H!Idle, Failed, HProc, H!Files
<1>2. ASSUME NEW s \in {H!Idle, Failed}
      PROVE  /\ s.pc = "idle" /\ s.result # "ok" /\ \A f \in H!Files : Sane(s.snap[f])
             /\ s.pc \notin H!Busy /\ s.pc \notin Working
  BY BodyTypes DEF H!Idle, Failed, H!Busy, Working
<1>3. ASSUME NEW s \in {H!Idle, Failed}, NEW w, NEW r, NEW fl
      PROVE  CommandSound(s) /\ Ready(s, w, r) /\ DoneWith(s, fl)
  BY <1>2 DEF CommandSound, Ready, DoneWith, Working
<1> QED BY <1>1, <1>3

\* The locks after an error.
LEMMA Released ==
    ASSUME HType, NEW p \in Procs, H!Fails(p)
    PROVE  pathLock' \in [H!Files -> Procs \cup {NoProc}] /\ proc' = [proc EXCEPT ![p] = Failed]
BY DEF HType, H!Fails, H!Become, Failed

LEMMA FailStep ==
    ASSUME HInv, NEW p \in Procs, H!Fails(p), made' \in Nat,
           UNCHANGED <<file, durable, want, raced, editing>>
    PROVE  HInv'
<1>1. HType
  BY DEF HInv
<1>2. pathLock' \in [H!Files -> Procs \cup {NoProc}] /\ proc' = [proc EXCEPT ![p] = Failed]
  BY <1>1, Released
<1>3. Failed \in HProc /\ CommandSound(Failed) /\ Ready(Failed, want, raced) /\ DoneWith(Failed, file)
  BY Ended
<1> QED BY <1>2, <1>3, LocalFiles, LocalStep

\* A command goes on to the skill, or ends.
LEMMA ContinueStep ==
    ASSUME HInv, NEW p \in Procs, NEW s \in HProc, H!Continue(p, s),
           \A f \in H!Files : Sane(s.snap[f]), s.result # "ok",
           Config \in s.over \/ Done(s.uninstall, Config, file[Config]),
           s.at = Skill => Skill \in s.over \/ s.act = "preserve" \/ Done(s.uninstall, Skill, file[Skill]),
           pathLock' \in [H!Files -> Procs \cup {NoProc}], made' \in Nat,
           file' = file, durable' \in [H!Files -> HFile], FilesSound', UNCHANGED <<want, raced, editing>>
    PROVE  HInv'
<1> DEFINE a == [s EXCEPT !.pc = "apply", !.at = Skill, !.act = H!SkillAct(s.snap[Skill], s.uninstall),
                          !.body = H!Body("generated", <<>>), !.tmp = H!NoFile]
           b == [H!Idle EXCEPT !.result = "ok", !.uninstall = s.uninstall, !.act = s.act, !.over = s.over,
                               !.wrote = s.wrote]
           t == IF s.at = Config THEN a ELSE b
<1>1. proc' = [proc EXCEPT ![p] = t]
  BY DEF H!Continue, H!Become
<1>2. CASE s.at = Config
  <2>1. H!SkillAct(s.snap[Skill], s.uninstall) \in {"check", "write", "remove", "preserve"}
    <3>1. s.uninstall \in BOOLEAN
      BY DEF HProc
    <3> QED BY <3>1 DEF H!SkillAct
  <2>2. a \in HProc
    BY <2>1, BodyTypes DEF HProc, H!Busy, H!Files
  <2>3. /\ a.pc = "apply" /\ a.at = Skill /\ a.act = H!SkillAct(s.snap[Skill], s.uninstall)
        /\ a.body = H!Body("generated", <<>>) /\ a.snap = s.snap /\ a.uninstall = s.uninstall
        /\ a.result = s.result /\ a.over = s.over
    BY DEF HProc
  <2> HIDE DEF a
  <2>4. CommandSound(a) /\ Ready(a, want, raced)
    BY <2>3, InstallNames DEF CommandSound, Ready, Working
  <2>5. DoneWith(a, file)
    BY <2>3 DEF DoneWith
  <2>6. t = a
    BY <1>2
  <2> HIDE DEF t
  <2>7. proc' = [proc EXCEPT ![p] = a] /\ \A f \in H!Files : file'[f].body = file[f].body /\ file'[f].ino = file[f].ino
    BY <1>1, <2>6
  <2>8. file' \in [H!Files -> HFile]
    BY DEF HInv, HType
  <2> QED BY <2>2, <2>4, <2>5, <2>7, <2>8, LocalStep
<1>3. CASE s.at = Skill
  <2>1. b \in HProc
    BY Ended DEF HProc, H!Idle
  <2>2. /\ b.pc = "idle" /\ b.at = Config /\ b.act = s.act /\ b.result = "ok"
        /\ b.uninstall = s.uninstall /\ b.over = s.over /\ \A f \in H!Files : Sane(b.snap[f])
    BY BodyTypes DEF H!Idle
  <2> HIDE DEF b
  <2>3. CommandSound(b) /\ Ready(b, want, raced)
    BY <2>2, InstallNames DEF CommandSound, Ready, Working, H!Busy
  <2>4. DoneWith(b, file)
    BY <1>3, <2>2, InstallNames DEF DoneWith
  <2>5. t = b
    BY <1>3, InstallNames
  <2> HIDE DEF t
  <2>6. proc' = [proc EXCEPT ![p] = b] /\ \A f \in H!Files : file'[f].body = file[f].body /\ file'[f].ino = file[f].ino
    BY <1>1, <2>5
  <2>7. file' \in [H!Files -> HFile]
    BY DEF HInv, HType
  <2> QED BY <2>1, <2>3, <2>4, <2>6, <2>7, LocalStep
<1>4. s.at \in {Config, Skill}
  BY DEF HProc, H!Files
<1> QED BY <1>2, <1>3, <1>4

\* p gives f another body: every other command is overtaken.
LEMMA PublishStep ==
    ASSUME HInv, NEW p \in Procs, NEW g \in HFile, NEW c \in {"unlink", "syncDir"},
           proc[p].pc = "publish", proc[p].act = "write" \/ c = "syncDir",
           g.body = Put(proc[p]).body, g.ino = 0 <=> Put(proc[p]).ino = 0, Sane(g), g.whole,
           proc[p].at \notin raced => H!UserPart(proc[p].at, g) = H!UserPart(proc[p].at, want[proc[p].at]),
           file' = [file EXCEPT ![proc[p].at] = g],
           H!Publishes(p, proc[p].at, [proc[p] EXCEPT !.pc = c]),
           UNCHANGED <<durable, pathLock, made, want, raced, editing>>
    PROVE  HInv'
<1> DEFINE f == proc[p].at  s == proc[p]  t == [s EXCEPT !.pc = c, !.over = @ \ {f}, !.wrote = @ \cup {f}]
           o(q) == [proc[q] EXCEPT !.over = @ \cup {f}]
<1>0. s \in HProc /\ f \in H!Files /\ CommandSound(s) /\ DoneWith(s, file)
  BY DEF HInv, HType, HProc
<1>1. proc' = [q \in Procs |-> IF q = p THEN t ELSE o(q)]
  BY <1>0 DEF H!Publishes, HProc
<1>2. t \in HProc /\ \A q \in Procs : o(q) \in HProc
  BY <1>0 DEF HInv, HType, HProc, H!Busy
<1>3. HType'
  BY <1>0, <1>1, <1>2 DEF HInv, HType
<1>4. FilesSound'
  BY <1>0 DEF HInv, HType, FilesSound
<1>5. Done(s.uninstall, f, g)
  <2>1. Done(s.uninstall, f, Put(s))
    BY <1>0, PutIsDone
  <2> QED BY <2>1 DEF Done
<1>6. \A h \in H!Files : file'[h] = IF h = f THEN g ELSE file[h]
  BY <1>0 DEF HInv, HType
<1>7. CommandSound(t) /\ Ready(t, want, raced) /\ DoneWith(t, file')
  <2>1. /\ t.pc = c /\ t.at = f /\ t.act = s.act /\ t.uninstall = s.uninstall /\ t.body = s.body
        /\ t.tmp = s.tmp /\ t.snap = s.snap /\ t.result = s.result /\ t.over = s.over \ {f}
    BY <1>0 DEF HProc
  <2>2. s.pc = "publish" /\ s.pc \in H!Busy /\ s.pc \in Working /\ c \in H!Busy /\ c \in Working
    BY DEF H!Busy, Working
  <2> HIDE DEF t, s, f
  <2>3. s.act \in {"write", "remove"} /\ s.result # "ok"
    BY <1>0, <2>2 DEF CommandSound
  <2>4. CommandSound(t)
    <3>1. c = "unlink" => s.act = "write"
      BY <2>3 DEF s
    <3>2. s.act = "write" => s.tmp.body = s.body /\ s.tmp.ino # 0
      BY <1>0, <2>2 DEF CommandSound
    <3>3. s.at = Config => /\ s.body = H!ConfigBody(s.snap[Config], s.uninstall)
                           /\ s.act = IF s.body = s.snap[Config].body THEN "check" ELSE "write"
      BY <1>0, <2>2 DEF CommandSound
    <3>4. s.at = Skill => /\ s.body = H!Body("generated", <<>>)
                          /\ s.act = H!SkillAct(s.snap[Skill], s.uninstall)
      BY <1>0, <2>2 DEF CommandSound
    <3>5. \A h \in H!Files : Sane(s.snap[h])
      BY <1>0 DEF CommandSound
    <3>6. f = s.at
      BY DEF f, s
    <3> QED BY <2>1, <2>2, <2>3, <3>1, <3>2, <3>3, <3>4, <3>5, <3>6 DEF CommandSound
  <2>5. Ready(t, want, raced)
    BY <2>1 DEF Ready
  <2>6. DoneWith(t, file')
    <3>1. f = Skill => Config \in t.over \/ Done(s.uninstall, Config, file'[Config])
      <4> SUFFICES ASSUME f = Skill PROVE Config \in t.over \/ Done(s.uninstall, Config, file'[Config])
        OBVIOUS
      <4>1. Config \in s.over \/ Done(s.uninstall, Config, file[Config])
        BY <1>0, <2>2 DEF DoneWith, s, f
      <4>2. file'[Config] = file[Config] /\ Config # f
        BY <1>6, InstallNames DEF H!Files
      <4> QED BY <4>1, <4>2, <2>1
    <3>2. Done(s.uninstall, f, file'[f])
      BY <1>0, <1>5, <1>6
    <3> QED BY <2>1, <2>2, <2>3, <3>1, <3>2 DEF DoneWith
  <2> QED BY <2>4, <2>5, <2>6
<1>8. ASSUME NEW q \in Procs, q # p
      PROVE  CommandSound(o(q)) /\ Ready(o(q), want, raced) /\ DoneWith(o(q), file')
  <2> DEFINE r == proc[q]  v == o(q)
  <2>0. r \in HProc /\ CommandSound(r) /\ Ready(r, want, raced) /\ DoneWith(r, file)
    BY DEF HInv, HType
  <2>1. /\ v.pc = r.pc /\ v.at = r.at /\ v.act = r.act /\ v.uninstall = r.uninstall /\ v.body = r.body
        /\ v.tmp = r.tmp /\ v.snap = r.snap /\ v.result = r.result /\ v.over = r.over \cup {f}
    BY <2>0 DEF HProc
  <2>2. r.at \in H!Files /\ Config \in H!Files /\ Skill \in H!Files
    BY <2>0 DEF HProc, H!Files
  <2> HIDE DEF r, v, f
  <2>3. CommandSound(v) /\ Ready(v, want, raced)
    BY <2>0, <2>1 DEF CommandSound, Ready, Put
  <2>4. \A h \in H!Files : h \in v.over \/ (h \notin r.over /\ file'[h] = file[h]) \/ file'[h] = file[h]
    BY <1>6, <2>1
  <2>5. DoneWith(v, file')
    BY <2>0, <2>1, <2>2, <2>4 DEF DoneWith
  <2> QED BY <2>3, <2>5 DEF v
<1>9. ASSUME NEW q \in Procs
      PROVE  CommandSound(proc'[q]) /\ Ready(proc'[q], want', raced') /\ DoneWith(proc'[q], file')
  <2>1. proc'[q] = IF q = p THEN t ELSE o(q)
    BY <1>1
  <2> HIDE DEF t, o
  <2> QED BY <2>1, <1>7, <1>8
<1> QED BY <1>3, <1>4, <1>9 DEF HInv

\* A user's change is what every command was overtaken by, and a replacement
\* that is already due races it.
LEMMA UserStep ==
    ASSUME HInv, NEW f \in H!Files, NEW g \in HFile, H!UserMakes(f, g), Sane(g), g.whole,
           made' \in Nat, editing' \in [file : H!Files, ino : Nat]
    PROVE  HInv'
<1> DEFINE o(q) == [proc[q] EXCEPT !.over = @ \cup {f}]
<1>0. HType /\ FilesSound
  BY DEF HInv
<1>1. /\ file' = [file EXCEPT ![f] = g] /\ durable' = [durable EXCEPT ![f] = g]
      /\ want' = [want EXCEPT ![f] = g] /\ proc' = [q \in Procs |-> o(q)]
      /\ raced' = IF \E p \in Procs : H!At(p) = f /\ H!Replaces(p) THEN raced \cup {f} ELSE raced \ {f}
      /\ UNCHANGED pathLock
  BY DEF H!UserMakes
<1>2. ASSUME NEW q \in Procs PROVE o(q) \in HProc
  <2>1. proc[q] \in HProc
    BY <1>0 DEF HType
  <2>2. proc[q].over \cup {f} \in SUBSET H!Files
    BY <2>1 DEF HProc
  <2> QED BY <2>1, <2>2 DEF HProc
<1>3. raced' \in SUBSET H!Files /\ \A h \in H!Files : h # f => (h \in raced' <=> h \in raced)
  BY <1>0, <1>1 DEF HType
<1>4. HType'
  BY <1>0, <1>1, <1>2, <1>3 DEF HType
<1>5. \A h \in H!Files : /\ file'[h] = IF h = f THEN g ELSE file[h]
                         /\ durable'[h] = IF h = f THEN g ELSE durable[h]
                         /\ want'[h] = IF h = f THEN g ELSE want[h]
  BY <1>0, <1>1 DEF HType
<1>6. FilesSound'
  BY <1>0, <1>3, <1>5 DEF FilesSound
<1>7. ASSUME NEW q \in Procs
      PROVE  CommandSound(proc'[q]) /\ Ready(proc'[q], want', raced') /\ DoneWith(proc'[q], file')
  <2> DEFINE r == proc[q]  v == o(q)
  <2>0. r \in HProc /\ CommandSound(r) /\ Ready(r, want, raced) /\ DoneWith(r, file)
    BY DEF HInv, HType
  <2>1. /\ v.pc = r.pc /\ v.at = r.at /\ v.act = r.act /\ v.uninstall = r.uninstall /\ v.body = r.body
        /\ v.tmp = r.tmp /\ v.snap = r.snap /\ v.result = r.result /\ v.over = r.over \cup {f}
    BY <2>0 DEF HProc
  <2>2. r.at \in H!Files /\ Config \in H!Files /\ Skill \in H!Files
    BY <2>0 DEF HProc, H!Files
  <2>3. proc'[q] = v
    BY <1>1
  <2>4. r.pc = "publish" /\ r.snap[r.at].ino # 0 /\ r.at = f => f \in raced'
    <3>1. r.pc = "publish" /\ r.snap[r.at].ino # 0 => H!Replaces(q)
      BY DEF H!Replaces, H!Mine, H!At
    <3>2. H!At(q) = r.at
      BY DEF H!At
    <3> QED BY <3>1, <3>2, <1>1
  <2> HIDE DEF r, v
  <2>5. CommandSound(v)
    BY <2>0, <2>1 DEF CommandSound
  <2>6. Ready(v, want', raced')
    <3>1. CASE r.at = f
      BY <3>1, <2>1, <2>4 DEF Ready
    <3>2. CASE r.at # f
      <4>1. want'[r.at] = want[r.at] /\ (r.at \in raced' <=> r.at \in raced) /\ Put(v) = Put(r)
        BY <3>2, <2>2, <1>3, <1>5, <2>1 DEF Put
      <4> QED BY <4>1, <2>0, <2>1 DEF Ready
    <3> QED BY <3>1, <3>2
  <2>7. \A h \in H!Files : h \in v.over \/ file'[h] = file[h]
    BY <1>5, <2>1
  <2>8. DoneWith(v, file')
    BY <2>0, <2>1, <2>2, <2>7 DEF DoneWith
  <2> QED BY <2>3, <2>5, <2>6, <2>8
<1> QED BY <1>4, <1>6, <1>7 DEF HInv

LEMMA UserBody ==
    ASSUME NEW f \in H!Files, NEW b \in H!Bodies(f)
    PROVE  b \in HBody /\ b.text # "torn"
<1>0. \A es : H!Body("entries", es).text = "entries"
  BY DEF H!Body
<1>1. CASE f = Config
  <2>1. PICK es \in UserConfigs : b = H!Body("entries", es)
    BY <1>1 DEF H!Bodies
  <2>2. es \in Seq(H!Entry)
    BY InstallNames
  <2> QED BY <2>1, <2>2, <1>0, BodyTypes
<1>2. CASE f # Config
  <2>1. PICK t \in Skills : b = H!Body(t, <<>>)
    BY <1>2 DEF H!Bodies
  <2>2. t \in H!SkillTexts
    BY InstallNames
  <2>3. t \in H!Texts /\ t # "torn" /\ <<>> \in Seq(H!Entry)
    BY <2>2 DEF H!Texts, H!SkillTexts
  <2> QED BY <2>1, <2>3 DEF H!Body, HBody
<1> QED BY <1>1, <1>2

LEMMA UsersSound ==
    ASSUME HInv, NEW f \in H!Files, H!UserReplaces(f) \/ H!UserRemoves(f) \/ H!EditorOpens(f)
    PROVE  HInv'
<1>0. HType /\ FilesSound /\ file[f] \in HFile
  BY DEF HInv, HType
<1>1. CASE H!UserReplaces(f)
  <2>1. made' = made + 1 /\ editing' = editing
    BY <1>1 DEF H!UserReplaces
  <2>2. PICK b \in H!Bodies(f) : H!UserMakes(f, [H!OnDisk(b) EXCEPT !.ino = made + 1])
    BY <1>1 DEF H!UserReplaces
  <2> DEFINE g == [H!OnDisk(b) EXCEPT !.ino = made + 1]
  <2>3. g \in HFile /\ Sane(g) /\ g.whole
    <3> DEFINE d == H!OnDisk(b)
    <3>1. b \in HBody /\ b.text # "torn" /\ made + 1 \in Nat \ {0}
      BY <1>0, UserBody DEF HType
    <3>2. d \in HFile /\ d.body = b /\ d.whole
      BY <3>1, BodyTypes DEF H!OnDisk
    <3> HIDE DEF d
    <3>3. g = [d EXCEPT !.ino = made + 1]
      BY DEF d
    <3> HIDE DEF g
    <3> QED BY <3>1, <3>2, <3>3 DEF HFile, Sane
  <2>4. made' \in Nat /\ editing' \in [file : H!Files, ino : Nat]
    BY <1>0, <2>1 DEF HType
  <2> HIDE DEF g
  <2>5. H!UserMakes(f, g)
    BY <2>2 DEF g
  <2> QED BY <2>3, <2>4, <2>5, UserStep
<1>2. CASE H!UserRemoves(f)
  <2>1. H!UserMakes(f, H!NoFile) /\ made' \in Nat /\ editing' \in [file : H!Files, ino : Nat]
    BY <1>0, <1>2 DEF H!UserRemoves, HType
  <2> QED BY <2>1, BodyTypes, UserStep
<1>3. CASE H!EditorOpens(f)
  <2> DEFINE g == [file[f] EXCEPT !.body = H!Empty]
  <2>1. H!UserMakes(f, g) /\ made' \in Nat /\ editing' \in [file : H!Files, ino : Nat]
    BY <1>0, <1>3 DEF H!EditorOpens, HType, HFile
  <2>2. g \in HFile /\ Sane(g) /\ g.whole
    <3>1. H!Empty.text # "torn" /\ H!Empty \in HBody
      BY BodyTypes DEF H!Empty, H!Body
    <3> QED BY <1>0, <3>1 DEF HFile, Sane, FilesSound
  <2> HIDE DEF g
  <2> QED BY <2>1, <2>2, UserStep
<1> QED BY <1>1, <1>2, <1>3

LEMMA EditorSound ==
    ASSUME HInv, H!EditorSaves
    PROVE  HInv'
<1> DEFINE f == editing.file
<1>0. HType /\ FilesSound /\ f \in H!Files /\ editing.ino # 0 /\ editing.ino \in Nat
  BY DEF HInv, HType, H!EditorSaves
<1>1. made' \in Nat /\ editing' \in [file : H!Files, ino : Nat]
  BY <1>0 DEF H!EditorSaves, HType
<1>2. CASE file[f].ino = editing.ino
  <2>1. PICK b \in H!Bodies(f) : H!UserMakes(f, [file[f] EXCEPT !.body = b])
    BY <1>2 DEF H!EditorSaves
  <2> DEFINE g == [file[f] EXCEPT !.body = b]
  <2>2. g \in HFile /\ Sane(g) /\ g.whole
    <3>1. file[f] \in HFile
      BY <1>0 DEF HType
    <3>2. b \in HBody /\ b.text # "torn"
      BY <1>0, UserBody
    <3> QED BY <1>0, <1>2, <3>1, <3>2 DEF HFile, Sane, FilesSound
  <2> HIDE DEF g
  <2>3. H!UserMakes(f, g)
    BY <2>1 DEF g
  <2> HIDE DEF f
  <2> QED BY <1>0, <1>1, <2>2, <2>3, UserStep
<1>3. CASE file[f].ino # editing.ino
  <2>1. raced' = raced \cup {f} /\ UNCHANGED <<file, durable, want, proc, pathLock>>
    BY <1>3 DEF H!EditorSaves
  <2>2. HType'
    BY <1>0, <1>1, <2>1 DEF HType
  <2>3. FilesSound'
    BY <1>0, <2>1 DEF FilesSound
  <2>4. ASSUME NEW q \in Procs
        PROVE  CommandSound(proc'[q]) /\ Ready(proc'[q], want', raced') /\ DoneWith(proc'[q], file')
    <3>1. CommandSound(proc[q]) /\ Ready(proc[q], want, raced) /\ DoneWith(proc[q], file)
      BY DEF HInv
    <3>2. Ready(proc[q], want, raced')
      BY <3>1, <2>1 DEF Ready
    <3> QED BY <3>1, <3>2, <2>1
  <2> QED BY <2>2, <2>3, <2>4 DEF HInv
<1> QED BY <1>2, <1>3

LEMMA PowerSound ==
    ASSUME HInv, H!PowerLoss
    PROVE  HInv'
<1>0. HType /\ FilesSound
  BY DEF HInv
<1>1. PICK old \in SUBSET H!Files :
         file' = [f \in H!Files |->
                    LET g == IF f \in old THEN durable[f] ELSE file[f]
                    IN  IF g.whole THEN g ELSE [g EXCEPT !.whole = TRUE, !.body.text = "torn"]]
  BY DEF H!PowerLoss
<1>2. \A f \in H!Files : file'[f] = IF f \in old THEN durable[f] ELSE file[f]
  BY <1>0, <1>1 DEF FilesSound
<1>3. file' \in [H!Files -> HFile]
  <2>1. file' = [f \in H!Files |-> file'[f]]
    BY <1>1
  <2>2. \A f \in H!Files : file'[f] \in HFile
    BY <1>0, <1>2 DEF HType
  <2> QED BY <2>1, <2>2
<1>4. /\ durable' = file' /\ pathLock' = [f \in H!Files |-> NoProc] /\ proc' = [p \in Procs |-> H!Idle]
      /\ editing' = [editing EXCEPT !.ino = 0] /\ UNCHANGED <<made, want, raced>>
  BY DEF H!PowerLoss
<1>5. HType'
  BY <1>0, <1>3, <1>4, Ended DEF HType
<1>6. FilesSound'
  BY <1>0, <1>2, <1>4 DEF FilesSound
<1>7. ASSUME NEW q \in Procs
      PROVE  CommandSound(proc'[q]) /\ Ready(proc'[q], want', raced') /\ DoneWith(proc'[q], file')
  <2>1. proc'[q] = H!Idle
    BY <1>4
  <2> QED BY <2>1, Ended
<1> QED BY <1>5, <1>6, <1>7 DEF HInv

-----------------------------------------------------------------------------
(* Installing the hook: a command *)

\* The state of a command, by its fields.
LEMMA Commands ==
    ASSUME HInv, NEW p \in Procs
    PROVE  /\ HType /\ FilesSound /\ proc[p] \in HProc /\ proc[p].at \in H!Files
           /\ CommandSound(proc[p]) /\ Ready(proc[p], want, raced) /\ DoneWith(proc[p], file)
           /\ H!At(p) = proc[p].at /\ H!Mine(p) = proc[p].snap[proc[p].at]
           /\ proc[p].snap[proc[p].at] \in HFile /\ file[proc[p].at] \in HFile
           /\ proc[p].uninstall \in BOOLEAN
BY DEF HInv, HType, HProc, H!At, H!Mine

LEMMA ReadConfigSound ==
    ASSUME HInv, NEW p \in Procs, H!ReadConfig(p)
    PROVE  HInv'
<1> DEFINE c == file[Config]
<1>0. HType /\ FilesSound /\ Config \in H!Files /\ c \in HFile /\ Sane(c)
  BY DEF HInv, HType, FilesSound, H!Files
<1>1. UNCHANGED <<file, durable, pathLock, made, want, raced, editing>>
  BY DEF H!ReadConfig, H!Users
<1>2. PICK u \in BOOLEAN :
        proc' = [proc EXCEPT ![p] =
                   IF ~H!Parses(c) THEN Failed
                   ELSE [H!Idle EXCEPT !.pc = "readSkill", !.uninstall = u,
                                     !.snap[Config] = c, !.body = H!ConfigBody(c, u),
                                     !.act = IF H!ConfigBody(c, u) = c.body THEN "check"
                                             ELSE "write"]]
  BY DEF H!ReadConfig, H!Become, Failed
<1> DEFINE t == [H!Idle EXCEPT !.pc = "readSkill", !.uninstall = u,
                               !.snap[Config] = c, !.body = H!ConfigBody(c, u),
                               !.act = IF H!ConfigBody(c, u) = c.body THEN "check" ELSE "write"]
<1>3. /\ t.pc = "readSkill" /\ t.uninstall = u /\ t.at = Config /\ t.body = H!ConfigBody(c, u)
      /\ t.act = (IF H!ConfigBody(c, u) = c.body THEN "check" ELSE "write")
      /\ t.snap = [f \in H!Files |-> IF f = Config THEN c ELSE H!NoFile] /\ t.result = "none"
  BY DEF H!Idle
<1>4. t \in HProc
  <2>1. H!ConfigBody(c, u) \in HBody
    BY <1>0, ConfigWritten
  <2>2. [H!Idle.snap EXCEPT ![Config] = c] \in [H!Files -> HFile]
    BY <1>0, Ended DEF HProc
  <2> HIDE DEF c
  <2> QED BY <2>1, <2>2, Ended DEF HProc
<1>5. CommandSound(t) /\ Ready(t, want, raced) /\ DoneWith(t, file)
  <2> HIDE DEF t, c
  <2>1. \A f \in H!Files : Sane(t.snap[f])
    BY <1>3, <1>0, BodyTypes
  <2>2. t.snap[Config] = c /\ t.pc \notin H!Busy
    BY <1>3, <1>0 DEF H!Busy
  <2>3. CommandSound(t)
    BY <1>3, <2>1, <2>2 DEF CommandSound, Working, H!Busy
  <2> QED BY <1>3, <2>2, <2>3 DEF Ready, DoneWith
<1>6. pathLock' \in [H!Files -> Procs \cup {NoProc}] /\ made' \in Nat
  BY <1>0, <1>1 DEF HType
<1>7. CASE H!Parses(c)
  <2>1. proc' = [proc EXCEPT ![p] = t]
    BY <1>2, <1>7
  <2> HIDE DEF t, c
  <2> QED BY <2>1, <1>1, <1>4, <1>5, <1>6, LocalFiles, LocalStep
<1>8. CASE ~H!Parses(c)
  <2>1. proc' = [proc EXCEPT ![p] = Failed]
    BY <1>2, <1>8
  <2>2. Failed \in HProc /\ CommandSound(Failed) /\ Ready(Failed, want, raced) /\ DoneWith(Failed, file)
    BY Ended
  <2> QED BY <2>1, <2>2, <1>1, <1>6, LocalFiles, LocalStep
<1> QED BY <1>7, <1>8

LEMMA ReadSkillSound ==
    ASSUME HInv, NEW p \in Procs, H!ReadSkill(p)
    PROVE  HInv'
<1> DEFINE s == proc[p]
           t == [s EXCEPT !.pc = "apply", !.snap[Skill] = file[Skill], !.over = @ \ {Skill}]
<1>0. HType /\ FilesSound /\ s \in HProc /\ CommandSound(s) /\ Skill \in H!Files /\ Config \in H!Files
  BY Commands DEF H!Files
<1>1. proc' = [proc EXCEPT ![p] = t] /\ UNCHANGED <<file, durable, pathLock, made, want, raced, editing>>
      /\ s.pc = "readSkill"
  BY DEF H!ReadSkill, H!Become, H!Users, H!Counters
<1>2. s.at = Config /\ s.result # "ok"
  BY <1>0, <1>1 DEF CommandSound
<1>3. [s.snap EXCEPT ![Skill] = file[Skill]] \in [H!Files -> HFile] /\ file[Skill] \in HFile
  BY <1>0 DEF HProc, HType
<1>4. t \in HProc
  BY <1>0, <1>3 DEF HProc, H!Busy
<1>5. /\ t.pc = "apply" /\ t.at = Config /\ t.body = s.body /\ t.act = s.act /\ t.uninstall = s.uninstall
      /\ t.result = s.result /\ \A f \in H!Files : t.snap[f] = IF f = Skill THEN file[Skill] ELSE s.snap[f]
  BY <1>0, <1>2 DEF HProc
<1>6. CommandSound(t) /\ Ready(t, want, raced) /\ DoneWith(t, file)
  <2> HIDE DEF t, s
  <2>1. \A f \in H!Files : Sane(t.snap[f])
    BY <1>0, <1>5 DEF FilesSound, CommandSound
  <2>2. s.body = H!ConfigBody(s.snap[Config], s.uninstall)
        /\ s.act = IF s.body = s.snap[Config].body THEN "check" ELSE "write"
    BY <1>0, <1>1, <1>2 DEF CommandSound
  <2>3. t.snap[Config] = s.snap[Config]
    BY <1>5, <1>0, InstallNames
  <2>4. CommandSound(t)
    BY <1>2, <1>5, <2>1, <2>2, <2>3, InstallNames DEF CommandSound, Working
  <2> QED BY <1>2, <1>5, <2>4, InstallNames DEF Ready, DoneWith
<1>7. pathLock' \in [H!Files -> Procs \cup {NoProc}] /\ made' \in Nat
  BY <1>0, <1>1 DEF HType
<1> HIDE DEF t
<1> QED BY <1>1, <1>4, <1>6, <1>7, LocalFiles, LocalStep

\* What is already as the command says, when it has looked again.
LEMMA CheckedIsDone ==
    ASSUME NEW s \in HProc, CommandSound(s), s.pc = "apply", s.act = "check", NEW g \in HFile,
           g.ino = s.snap[s.at].ino, g.body = s.snap[s.at].body
    PROVE  Done(s.uninstall, s.at, g)
<1>0. s.snap[s.at] \in HFile /\ s.at \in H!Files /\ s.uninstall \in BOOLEAN /\ s.pc \in H!Busy
  BY DEF HProc, H!Busy
<1>1. CASE s.at = Config
  <2>1. s.body = H!ConfigBody(s.snap[Config], s.uninstall) /\ s.body = s.snap[Config].body
    BY <1>0, <1>1 DEF CommandSound
  <2>2. g.body = H!ConfigBody(s.snap[Config], s.uninstall)
    BY <2>1, <1>1
  <2> QED BY <2>2, <1>0, <1>1, ConfigWritten DEF Done
<1>2. CASE s.at = Skill
  <2>1. s.act = H!SkillAct(s.snap[Skill], s.uninstall)
    BY <1>0, <1>2 DEF CommandSound
  <2>2. \/ s.snap[Skill].ino = 0 /\ s.uninstall
        \/ s.snap[Skill].body.text = "generated" /\ ~s.uninstall
    BY <2>1, <1>0 DEF H!SkillAct
  <2> QED BY <2>2, <1>2, InstallNames DEF Done
<1> QED BY <1>0, <1>1, <1>2 DEF H!Files

LEMMA CheckSound ==
    ASSUME HInv, NEW p \in Procs, H!Check(p)
    PROVE  HInv'
<1> DEFINE s == proc[p]
           t == [s EXCEPT !.over = @ \ {s.at}]
<1>0. /\ HType /\ FilesSound /\ s \in HProc /\ s.at \in H!Files /\ CommandSound(s) /\ DoneWith(s, file)
      /\ file[s.at] \in HFile /\ s.snap[s.at] \in HFile /\ s.uninstall \in BOOLEAN
      /\ Config \in H!Files /\ Skill \in H!Files
  BY Commands DEF H!Files
<1>1. /\ s.pc = "apply" /\ s.act \in {"check", "preserve"}
      /\ UNCHANGED <<file, durable, made, want, raced, editing>> /\ s.pc \in H!Busy
  BY DEF H!Check, H!Users, H!Counters, H!Busy
<1>2. made' \in Nat /\ durable' \in [H!Files -> HFile] /\ FilesSound'
  BY <1>0, <1>1, LocalFiles DEF HType
<1>3. (\A f \in H!Files : Sane(s.snap[f])) /\ s.result # "ok"
  BY <1>0, <1>1 DEF CommandSound
<1>4. CASE s.act = "preserve"
  <2>1. H!Continue(p, s) /\ pathLock' = pathLock
    BY <1>4 DEF H!Check
  <2>2. s.at = Skill
    <3>1. s.at # Config
      BY <1>0, <1>1, <1>4 DEF CommandSound
    <3> QED BY <3>1, <1>0 DEF H!Files
  <2>3. Config \in s.over \/ Done(s.uninstall, Config, file[Config])
    BY <2>2, <1>0, <1>1 DEF DoneWith
  <2>4. pathLock' \in [H!Files -> Procs \cup {NoProc}]
    BY <2>1, <1>0 DEF HType
  <2> HIDE DEF s
  <2> QED BY <2>1, <2>3, <2>4, <1>0, <1>1, <1>2, <1>3, <1>4, ContinueStep
<1>5. CASE s.act = "check" /\ H!Current(p)
  <2>1. H!Continue(p, t) /\ pathLock' = pathLock
    BY <1>5 DEF H!Check, H!At
  <2>2. Done(s.uninstall, s.at, file[s.at])
    <3>1. file[s.at].ino = s.snap[s.at].ino /\ file[s.at].body = s.snap[s.at].body
      BY <1>5 DEF H!Current, H!At, H!Mine
    <3> QED BY <3>1, <1>0, <1>1, <1>5, CheckedIsDone
  <2>3. /\ t \in HProc /\ t.at = s.at /\ t.snap = s.snap /\ t.result = s.result /\ t.uninstall = s.uninstall
        /\ t.over = s.over \ {s.at} /\ t.act = s.act
    BY <1>0 DEF HProc
  <2> HIDE DEF t
  <2>4. Config \in t.over \/ Done(t.uninstall, Config, file[Config])
    <3>1. CASE s.at = Config
      BY <3>1, <2>2, <2>3
    <3>2. CASE s.at = Skill
      <4>1. Config \in s.over \/ Done(s.uninstall, Config, file[Config])
        BY <3>2, <1>0, <1>1 DEF DoneWith
      <4> QED BY <4>1, <3>2, <2>3, InstallNames
    <3> QED BY <3>1, <3>2, <1>0 DEF H!Files
  <2>5. t.at = Skill => Skill \in t.over \/ t.act = "preserve" \/ Done(t.uninstall, Skill, file[Skill])
    BY <2>2, <2>3
  <2>6. pathLock' \in [H!Files -> Procs \cup {NoProc}]
    BY <2>1, <1>0 DEF HType
  <2> HIDE DEF s
  <2> QED BY <2>1, <2>3, <2>4, <2>5, <2>6, <1>1, <1>2, <1>3, ContinueStep
<1>6. CASE s.act = "check" /\ ~H!Current(p)
  <2>1. H!Fails(p)
    BY <1>6 DEF H!Check
  <2> QED BY <2>1, <1>1, <1>2, FailStep
<1> QED BY <1>1, <1>4, <1>5, <1>6

\* A step of p to another point in the same operation.
LEMMA MoveSound ==
    ASSUME HInv, NEW p \in Procs, NEW t \in HProc, proc' = [proc EXCEPT ![p] = t],
           proc[p].pc \in H!Busy, t.pc \in Working, t.pc \notin {"unlink", "syncDir"},
           t.at = proc[p].at, t.act = proc[p].act, t.act \in {"write", "remove"}, t.body = proc[p].body,
           t.snap = proc[p].snap, t.uninstall = proc[p].uninstall, t.over = proc[p].over,
           t.result = proc[p].result,
           t.pc \in {"tmp", "sync"} => t.act = "write",
           t.pc # "tmp" /\ t.act = "write" => t.tmp.body = t.body /\ t.tmp.ino # 0,
           t.pc \in {"commit", "publish"} /\ t.act = "write" => t.tmp.whole,
           Ready(t, want, raced),
           pathLock' \in [H!Files -> Procs \cup {NoProc}], made' \in Nat,
           UNCHANGED <<file, durable, want, raced, editing>>
    PROVE  HInv'
<1> DEFINE s == proc[p]
<1>0. CommandSound(s) /\ DoneWith(s, file)
  BY Commands
<1>1. t.pc \in H!Busy /\ t.pc \notin {"unlink", "syncDir", "readSkill"} /\ s.result # "ok"
  BY <1>0 DEF Working, H!Busy, CommandSound
<1>2. CommandSound(t)
  <2>1. s.at = Config => /\ s.body = H!ConfigBody(s.snap[Config], s.uninstall)
                         /\ s.act = IF s.body = s.snap[Config].body THEN "check" ELSE "write"
    BY <1>0 DEF CommandSound
  <2>2. s.at = Skill => /\ s.body = H!Body("generated", <<>>)
                        /\ s.act = H!SkillAct(s.snap[Skill], s.uninstall)
    BY <1>0 DEF CommandSound
  <2>3. \A h \in H!Files : Sane(s.snap[h])
    BY <1>0 DEF CommandSound
  <2> QED BY <1>1, <2>1, <2>2, <2>3 DEF CommandSound
<1>3. DoneWith(t, file)
  BY <1>0, <1>1 DEF DoneWith
<1> QED BY <1>2, <1>3, LocalFiles, LocalStep

LEMMA LockSound ==
    ASSUME HInv, NEW p \in Procs, H!Lock(p)
    PROVE  HInv'
<1> DEFINE s == proc[p]
           t == [s EXCEPT !.pc = IF s.act = "write" THEN "tmp" ELSE "commit"]
<1>0. HType /\ s \in HProc
  BY Commands
<1>1. s.pc = "apply" /\ s.act \in {"write", "remove"} /\ s.pc \in H!Busy
      /\ UNCHANGED <<file, durable, made, want, raced, editing>> /\ made' \in Nat
  BY <1>0 DEF H!Lock, H!Users, H!Counters, H!Busy, HType
<1>2. CASE H!Fails(p)
  BY <1>1, <1>2, FailStep
<1>3. CASE ~H!Fails(p)
  <2>1. proc' = [proc EXCEPT ![p] = t] /\ pathLock' = [pathLock EXCEPT ![H!At(p)] = p]
    BY <1>3 DEF H!Lock, H!Become
  <2>2. pathLock' \in [H!Files -> Procs \cup {NoProc}]
    BY <2>1, <1>0 DEF HType
  <2>3. t \in HProc
    BY <1>0 DEF HProc, H!Busy
  <2>4. /\ t.pc = (IF s.act = "write" THEN "tmp" ELSE "commit") /\ t.at = s.at /\ t.act = s.act
        /\ t.body = s.body /\ t.snap = s.snap /\ t.uninstall = s.uninstall /\ t.over = s.over
        /\ t.result = s.result
    BY <1>0 DEF HProc
  <2>5. t.pc \in Working /\ t.pc \notin {"unlink", "syncDir", "sync", "publish"}
    BY <2>4 DEF Working
  <2> HIDE DEF t
  <2>6. Ready(t, want, raced)
    BY <2>5 DEF Ready
  <2>7. (t.pc \in {"tmp", "sync"} => t.act = "write") /\ (t.pc # "tmp" => t.act = "remove")
    BY <1>1, <2>4
  <2> QED BY <1>1, <2>1, <2>2, <2>3, <2>4, <2>5, <2>6, <2>7, MoveSound
<1> QED BY <1>2, <1>3

LEMMA WriteTmpSound ==
    ASSUME HInv, NEW p \in Procs, H!WriteTmp(p)
    PROVE  HInv'
<1> DEFINE s == proc[p]
           g == [ino |-> made + 1, links |-> 1, whole |-> FALSE, body |-> s.body]
           t == [s EXCEPT !.pc = "sync", !.tmp = g]
<1>0. HType /\ s \in HProc /\ CommandSound(s)
  BY Commands
<1>1. s.pc = "tmp" /\ s.pc \in H!Busy
      /\ UNCHANGED <<file, durable, want, raced, editing>> /\ made' = made + 1 /\ made' \in Nat /\ made + 1 # 0
  BY <1>0 DEF H!WriteTmp, H!Users, H!Busy, HType
<1>2. CASE H!Fails(p)
  BY <1>1, <1>2, FailStep
<1>3. CASE ~H!Fails(p)
  <2>1. proc' = [proc EXCEPT ![p] = t] /\ pathLock' = pathLock
    BY <1>3 DEF H!WriteTmp, H!Become
  <2>2. pathLock' \in [H!Files -> Procs \cup {NoProc}]
    BY <2>1, <1>0 DEF HType
  <2>3. g \in HFile /\ g.body = s.body /\ g.ino # 0
    BY <1>0, <1>1 DEF HProc, HFile
  <2> HIDE DEF g
  <2>4. t \in HProc
    BY <1>0, <2>3 DEF HProc, H!Busy
  <2>5. /\ t.pc = "sync" /\ t.at = s.at /\ t.act = s.act /\ t.tmp = g
        /\ t.body = s.body /\ t.snap = s.snap /\ t.uninstall = s.uninstall /\ t.over = s.over
        /\ t.result = s.result
    BY <1>0 DEF HProc
  <2>6. s.act = "write"
    BY <1>0, <1>1 DEF CommandSound
  <2> HIDE DEF t
  <2>7. Ready(t, want, raced) /\ t.pc \in Working
    BY <2>5 DEF Ready, Working
  <2> QED BY <1>1, <2>1, <2>2, <2>3, <2>4, <2>5, <2>6, <2>7, MoveSound
<1> QED BY <1>2, <1>3

LEMMA SyncTmpSound ==
    ASSUME HInv, NEW p \in Procs, H!SyncTmp(p)
    PROVE  HInv'
<1> DEFINE s == proc[p]
           t == [s EXCEPT !.pc = "commit", !.tmp.whole = TRUE]
<1>0. HType /\ s \in HProc /\ CommandSound(s)
  BY Commands
<1>1. /\ s.pc = "sync" /\ s.pc \in H!Busy /\ proc' = [proc EXCEPT ![p] = t]
      /\ UNCHANGED <<file, durable, pathLock, made, want, raced, editing>>
  BY DEF H!SyncTmp, H!Users, H!Counters, H!Busy, H!Become
<1>2. pathLock' \in [H!Files -> Procs \cup {NoProc}] /\ made' \in Nat
  BY <1>0, <1>1 DEF HType
<1>3. s.act = "write" /\ s.tmp.body = s.body /\ s.tmp.ino # 0
  BY <1>0, <1>1 DEF CommandSound, Working
<1>4. t \in HProc
  BY <1>0 DEF HProc, HFile, H!Busy
<1>5. /\ t.pc = "commit" /\ t.at = s.at /\ t.act = s.act
      /\ t.tmp.body = s.tmp.body /\ t.tmp.ino = s.tmp.ino /\ t.tmp.whole
      /\ t.body = s.body /\ t.snap = s.snap /\ t.uninstall = s.uninstall /\ t.over = s.over
      /\ t.result = s.result
  BY <1>0 DEF HProc, HFile
<1> HIDE DEF t
<1>6. Ready(t, want, raced) /\ t.pc \in Working
  BY <1>5 DEF Ready, Working
<1> QED BY <1>1, <1>2, <1>3, <1>4, <1>5, <1>6, MoveSound

LEMMA CheckAgainSound ==
    ASSUME HInv, NEW p \in Procs, H!CheckAgain(p)
    PROVE  HInv'
<1> DEFINE s == proc[p]
           t == [s EXCEPT !.pc = "publish"]
<1>0. /\ HType /\ FilesSound /\ s \in HProc /\ s.at \in H!Files /\ CommandSound(s)
      /\ file[s.at] \in HFile /\ s.snap[s.at] \in HFile
  BY Commands
<1>1. /\ s.pc = "commit" /\ s.pc \in H!Busy /\ s.pc \in Working
      /\ UNCHANGED <<file, durable, made, want, raced, editing>> /\ made' \in Nat
  BY <1>0 DEF H!CheckAgain, H!Users, H!Counters, H!Busy, Working, HType
<1>2. CASE ~H!Current(p)
  <2>1. H!Fails(p)
    BY <1>2 DEF H!CheckAgain
  <2> QED BY <1>1, <2>1, FailStep
<1>3. CASE H!Current(p)
  <2>1. proc' = [proc EXCEPT ![p] = t] /\ pathLock' = pathLock
    BY <1>3 DEF H!CheckAgain, H!Become
  <2>2. pathLock' \in [H!Files -> Procs \cup {NoProc}]
    BY <2>1, <1>0 DEF HType
  <2>3. s.act \in {"write", "remove"} /\ (s.act = "write" => s.tmp.body = s.body /\ s.tmp.ino # 0 /\ s.tmp.whole)
    BY <1>0, <1>1 DEF CommandSound, Working
  <2>4. t \in HProc
    BY <1>0 DEF HProc, H!Busy
  <2>5. /\ t.pc = "publish" /\ t.at = s.at /\ t.act = s.act /\ t.tmp = s.tmp
        /\ t.body = s.body /\ t.snap = s.snap /\ t.uninstall = s.uninstall /\ t.over = s.over
        /\ t.result = s.result
    BY <1>0 DEF HProc
  <2> HIDE DEF t
  <2>6. H!UserPart(s.at, Put(s)) = H!UserPart(s.at, s.snap[s.at])
    BY <1>0, <1>1, PutKeeps
  <2>7. file[s.at].ino = s.snap[s.at].ino /\ file[s.at].body = s.snap[s.at].body
    BY <1>3 DEF H!Current, H!At, H!Mine
  <2>8. H!UserPart(s.at, file[s.at]) = H!UserPart(s.at, s.snap[s.at])
    BY <1>0, <2>7, SamePart
  <2>9. s.at \notin raced => H!UserPart(s.at, file[s.at]) = H!UserPart(s.at, want[s.at])
    BY <1>0 DEF FilesSound
  <2>10. Put(t) = Put(s)
    BY <2>5 DEF Put
  <2>11. Ready(t, want, raced) /\ t.pc \in Working
    BY <2>5, <2>6, <2>8, <2>9, <2>10 DEF Ready, Working
  <2> QED BY <1>1, <2>1, <2>2, <2>3, <2>4, <2>5, <2>11, MoveSound
<1> QED BY <1>2, <1>3

\* What is about to be published is a whole file, or none.
LEMMA PutIsSane ==
    ASSUME NEW s \in HProc, CommandSound(s), s.pc = "publish"
    PROVE  Put(s) \in HFile /\ Sane(Put(s)) /\ Put(s).whole
<1>0. s.tmp \in HFile /\ s.at \in {Config, Skill} /\ s.snap[s.at] \in HFile /\ s.uninstall \in BOOLEAN
      /\ s.pc \in H!Busy /\ s.at \in H!Files
  BY DEF HProc, H!Busy, H!Files
<1>1. CASE s.act = "write"
  <2>1. s.tmp.body = s.body /\ s.tmp.ino # 0 /\ s.tmp.whole
    BY <1>1 DEF CommandSound, Working
  <2>2. s.body.text # "torn"
    <3>1. CASE s.at = Config
      <4>1. s.body = H!ConfigBody(s.snap[Config], s.uninstall) /\ s.snap[Config].body.text # "torn"
        BY <1>0, <3>1 DEF CommandSound, Sane
      <4>2. s.body.text \in {s.snap[Config].body.text, "entries"}
        BY <4>1, <1>0, <3>1, ConfigWritten
      <4> QED BY <4>1, <4>2
    <3>2. CASE s.at = Skill
      <4>1. s.body = H!Body("generated", <<>>)
        BY <1>0, <3>2 DEF CommandSound
      <4> QED BY <4>1 DEF H!Body
    <3> QED BY <3>1, <3>2, <1>0
  <2> QED BY <1>0, <1>1, <2>1, <2>2 DEF Put, Sane
<1>2. CASE s.act # "write"
  BY <1>2, BodyTypes DEF Put
<1> QED BY <1>1, <1>2

LEMMA ReplaceSound ==
    ASSUME HInv, NEW p \in Procs, H!Replace(p)
    PROVE  HInv'
<1> DEFINE s == proc[p]  f == s.at
<1>0. /\ HType /\ s \in HProc /\ f \in H!Files /\ CommandSound(s) /\ Ready(s, want, raced) /\ H!At(p) = f
      /\ file[f] \in HFile /\ s.snap[f] \in HFile /\ H!Mine(p) = s.snap[f]
  BY Commands
<1>1. /\ s.pc = "publish" /\ s.snap[f].ino # 0
      /\ UNCHANGED <<durable, made, want, raced, editing>> /\ made' \in Nat
  BY <1>0 DEF H!Replace, H!Replaces, H!Users, H!Counters, HType
<1>2. CASE s.act = "remove" /\ file[f].ino = 0
  <2>1. H!Fails(p) /\ file' = file
    BY <1>0, <1>2 DEF H!Replace
  <2> QED BY <1>1, <2>1, FailStep
<1>3. CASE ~(s.act = "remove" /\ file[f].ino = 0)
  <2>1. /\ file' = [file EXCEPT ![f] = Put(s)] /\ pathLock' = pathLock
        /\ H!Publishes(p, f, [s EXCEPT !.pc = "syncDir"])
    BY <1>0, <1>3 DEF H!Replace, Put
  <2>2. Put(s) \in HFile /\ Sane(Put(s)) /\ Put(s).whole
    BY <1>0, <1>1, PutIsSane
  <2>3. f \notin raced => H!UserPart(f, Put(s)) = H!UserPart(f, want[f])
    BY <1>0, <1>1 DEF Ready
  <2> QED BY <1>1, <2>1, <2>2, <2>3, PublishStep
<1> QED BY <1>2, <1>3

LEMMA LinkSound ==
    ASSUME HInv, NEW p \in Procs, H!Link(p)
    PROVE  HInv'
<1> DEFINE s == proc[p]  f == s.at  g == [s.tmp EXCEPT !.links = 2]
<1>0. /\ HType /\ FilesSound /\ s \in HProc /\ f \in H!Files /\ CommandSound(s) /\ H!At(p) = f
      /\ file[f] \in HFile /\ s.snap[f] \in HFile /\ H!Mine(p) = s.snap[f] /\ s.tmp \in HFile
      /\ s.uninstall \in BOOLEAN
  BY Commands DEF HProc
<1>1. /\ s.pc = "publish" /\ s.snap[f].ino = 0 /\ s.pc \in H!Busy
      /\ UNCHANGED <<durable, made, want, raced, editing>> /\ made' \in Nat
  BY <1>0 DEF H!Link, H!Replaces, H!Users, H!Counters, HType, H!Busy
<1>2. CASE file[f].ino # 0
  <2>1. H!Fails(p) /\ file' = file
    BY <1>0, <1>2 DEF H!Link
  <2> QED BY <1>1, <2>1, FailStep
<1>3. CASE file[f].ino = 0
  <2>1. /\ file' = [file EXCEPT ![f] = g] /\ pathLock' = pathLock
        /\ H!Publishes(p, f, [s EXCEPT !.pc = "unlink"])
    BY <1>0, <1>3 DEF H!Link
  <2>2. s.act = "write"
    <3>1. s.act \in {"write", "remove"}
      BY <1>0, <1>1 DEF CommandSound, Working
    <3>2. f = Skill => s.act = H!SkillAct(s.snap[Skill], s.uninstall)
      BY <1>0, <1>1 DEF CommandSound
    <3>3. f = Config => s.act \in {"check", "write"}
      BY <1>0, <1>1 DEF CommandSound
    <3> QED BY <3>1, <3>2, <3>3, <1>0, <1>1 DEF H!SkillAct, H!Files
  <2>3. Put(s) \in HFile /\ Sane(Put(s)) /\ Put(s).whole /\ Put(s) = s.tmp
    BY <1>0, <1>1, <2>2, PutIsSane DEF Put
  <2>4. g \in HFile /\ g.body = Put(s).body /\ g.ino = Put(s).ino /\ Sane(g) /\ g.whole
    BY <2>3 DEF HFile, Sane
  <2>5. f \notin raced => H!UserPart(f, g) = H!UserPart(f, want[f])
    <3>1. H!UserPart(f, g) = H!UserPart(f, Put(s))
      <4>1. f \in H!Files /\ g \in HFile /\ Put(s) \in HFile /\ g.body = Put(s).body
            /\ (g.ino = 0 <=> Put(s).ino = 0)
        BY <1>0, <2>3, <2>4
      <4> HIDE DEF f, g, s
      <4> QED BY <4>1, SamePart
    <3>2. H!UserPart(f, Put(s)) = H!UserPart(f, s.snap[f])
      BY <1>0, <1>1, PutKeeps
    <3>3. H!UserPart(f, s.snap[f]) = <<>>
      BY <1>0, <1>1, NoPart DEF CommandSound
    <3>4. H!UserPart(f, file[f]) = <<>>
      BY <1>0, <1>3, NoPart DEF FilesSound
    <3>5. f \notin raced => H!UserPart(f, file[f]) = H!UserPart(f, want[f])
      BY <1>0 DEF FilesSound
    <3> QED BY <3>1, <3>2, <3>3, <3>4, <3>5
  <2> HIDE DEF g
  <2> QED BY <1>1, <2>1, <2>2, <2>4, <2>5, PublishStep
<1> QED BY <1>2, <1>3

\* Counting the links of a file again changes nothing else.
LEMMA LinkAgain ==
    ASSUME HInv, NEW f \in H!Files, file' \in {file, [file EXCEPT ![f].links = 1]},
           UNCHANGED <<durable, want, raced>>
    PROVE  /\ file' \in [H!Files -> HFile] /\ durable' \in [H!Files -> HFile] /\ FilesSound'
           /\ \A h \in H!Files : file'[h].body = file[h].body /\ file'[h].ino = file[h].ino
<1>0. HType /\ FilesSound
  BY DEF HInv
<1>1. \A h \in H!Files : file[h] \in HFile
  BY <1>0 DEF HType
<1>2. \A h \in H!Files : /\ file'[h] \in HFile /\ file'[h].body = file[h].body
                         /\ file'[h].ino = file[h].ino /\ file'[h].whole = file[h].whole
  BY <1>0, <1>1 DEF HType, HFile
<1>3. file' \in [H!Files -> HFile] /\ durable' \in [H!Files -> HFile]
  BY <1>0, <1>1 DEF HType, HFile
<1>4. \A h \in H!Files : H!UserPart(h, file'[h]) = H!UserPart(h, file[h])
  BY <1>1, <1>2, SamePart
<1>5. \A h \in H!Files : Sane(file'[h])
  BY <1>0, <1>2 DEF FilesSound, Sane
<1>6. FilesSound'
  BY <1>0, <1>2, <1>4, <1>5 DEF FilesSound
<1> QED BY <1>2, <1>3, <1>6

LEMMA UnlinkSound ==
    ASSUME HInv, NEW p \in Procs, H!Unlink(p)
    PROVE  HInv'
<1> DEFINE s == proc[p]  t == [s EXCEPT !.pc = "syncDir"]
<1>0. HType /\ s \in HProc /\ s.at \in H!Files /\ CommandSound(s) /\ DoneWith(s, file) /\ H!At(p) = s.at
  BY Commands
<1>1. /\ s.pc = "unlink" /\ s.pc \in H!Busy /\ s.pc \in Working /\ proc' = [proc EXCEPT ![p] = t]
      /\ UNCHANGED <<durable, pathLock, made, want, raced, editing>>
      /\ file' \in {file, [file EXCEPT ![s.at].links = 1]}
  BY <1>0 DEF H!Unlink, H!Users, H!Counters, H!Busy, Working, H!Become
<1>2. pathLock' \in [H!Files -> Procs \cup {NoProc}] /\ made' \in Nat
  BY <1>0, <1>1 DEF HType
<1>3. t \in HProc
  BY <1>0 DEF HProc, H!Busy
<1>4. /\ t.pc = "syncDir" /\ t.at = s.at /\ t.act = s.act /\ t.tmp = s.tmp
      /\ t.body = s.body /\ t.snap = s.snap /\ t.uninstall = s.uninstall /\ t.over = s.over
      /\ t.result = s.result
  BY <1>0 DEF HProc
<1>5. /\ s.act = "write" /\ s.tmp.body = s.body /\ s.tmp.ino # 0 /\ s.result # "ok"
      /\ \A h \in H!Files : Sane(s.snap[h])
  BY <1>0, <1>1 DEF CommandSound, Working
<1>6. s.at = Config => /\ s.body = H!ConfigBody(s.snap[Config], s.uninstall)
                       /\ s.act = IF s.body = s.snap[Config].body THEN "check" ELSE "write"
  BY <1>0, <1>1 DEF CommandSound
<1>7. s.at = Skill => /\ s.body = H!Body("generated", <<>>)
                      /\ s.act = H!SkillAct(s.snap[Skill], s.uninstall)
  BY <1>0, <1>1 DEF CommandSound
<1> HIDE DEF t
<1>8. CommandSound(t) /\ Ready(t, want, raced)
  BY <1>4, <1>5, <1>6, <1>7 DEF CommandSound, Ready
<1>9. DoneWith(t, file)
  BY <1>0, <1>1, <1>4, <1>5 DEF DoneWith
<1> QED BY <1>0, <1>1, <1>2, <1>3, <1>8, <1>9, LinkAgain, LocalStep

LEMMA SyncDirSound ==
    ASSUME HInv, NEW p \in Procs, H!SyncDir(p)
    PROVE  HInv'
<1> DEFINE s == proc[p]  f == s.at
<1>0. /\ HType /\ FilesSound /\ s \in HProc /\ f \in {Config, Skill} /\ f \in H!Files /\ CommandSound(s)
      /\ DoneWith(s, file) /\ H!At(p) = f /\ file[f] \in HFile
  BY Commands DEF H!Files
<1>1. /\ s.pc = "syncDir" /\ s.pc \in H!Busy /\ H!Continue(p, s) /\ durable' = [durable EXCEPT ![f] = file[f]]
      /\ pathLock' = [pathLock EXCEPT ![f] = NoProc] /\ UNCHANGED <<file, made, want, raced, editing>>
  BY <1>0 DEF H!SyncDir, H!Users, H!Counters, H!Busy
<1>2. pathLock' \in [H!Files -> Procs \cup {NoProc}] /\ made' \in Nat /\ durable' \in [H!Files -> HFile]
  BY <1>0, <1>1 DEF HType
<1>3. FilesSound'
  <2>1. \A h \in H!Files : durable'[h] = IF h = f THEN file[h] ELSE durable[h]
    BY <1>0, <1>1 DEF HType
  <2> QED BY <2>1, <1>0, <1>1 DEF FilesSound
<1>4. s.result # "ok" /\ \A h \in H!Files : Sane(s.snap[h])
  BY <1>0, <1>1 DEF CommandSound
<1>5. f \in s.over \/ Done(s.uninstall, f, file[f])
  BY <1>0, <1>1 DEF DoneWith
<1>6. f = Skill => Config \in s.over \/ Done(s.uninstall, Config, file[Config])
  BY <1>0, <1>1 DEF DoneWith
<1> HIDE DEF s
<1> QED BY <1>0, <1>1, <1>2, <1>3, <1>4, <1>5, <1>6, ContinueStep

LEMMA FaultSound ==
    ASSUME HInv, NEW p \in Procs, H!CallFails(p) \/ H!Crash(p)
    PROVE  HInv'
<1>0. HType /\ proc[p].at \in H!Files /\ H!At(p) = proc[p].at
  BY Commands
<1>1. /\ H!Fails(p) /\ UNCHANGED <<durable, made, want, raced, editing>>
      /\ file' \in {file, [file EXCEPT ![proc[p].at].links = 1]} /\ made' \in Nat
  <2>1. CASE H!CallFails(p)
    BY <2>1, <1>0 DEF H!CallFails, H!Users, HType
  <2>2. CASE H!Crash(p)
    BY <2>2, <1>0 DEF H!Crash, H!Users, HType
  <2> QED BY <2>1, <2>2
<1>2. pathLock' \in [H!Files -> Procs \cup {NoProc}] /\ proc' = [proc EXCEPT ![p] = Failed]
  BY <1>0, <1>1, Released
<1>3. Failed \in HProc /\ CommandSound(Failed) /\ Ready(Failed, want, raced) /\ DoneWith(Failed, file)
  BY Ended
<1> QED BY <1>0, <1>1, <1>2, <1>3, LinkAgain, LocalStep

LEMMA InstallStep == HInv /\ [H!Next]_(H!vars) => HInv'
<1> SUFFICES ASSUME HInv, [H!Next]_(H!vars) PROVE HInv'
  OBVIOUS
<1>1. ASSUME NEW p \in Procs, H!Command(p) \/ H!CallFails(p) \/ H!Crash(p) PROVE HInv'
  BY <1>1, ReadConfigSound, ReadSkillSound, CheckSound, LockSound, WriteTmpSound, SyncTmpSound,
     CheckAgainSound, ReplaceSound, LinkSound, UnlinkSound, SyncDirSound, FaultSound DEF H!Command
<1>2. CASE UNCHANGED H!vars
  BY <1>2 DEF H!vars, HInv, HType, FilesSound
<1> QED BY <1>1, <1>2, UsersSound, EditorSound, PowerSound DEF H!Next

LEMMA InstallInit == H!Init => HInv
<1> SUFFICES ASSUME H!Init PROVE HInv
  OBVIOUS
<1>1. PICK c \in {H!NoFile} \cup {H!OnDisk(H!Body("entries", es)) : es \in UserConfigs},
           k \in {H!NoFile} \cup {H!OnDisk(H!Body(t, <<>>)) : t \in Skills} :
        file = [f \in H!Files |-> IF f = Config THEN c ELSE k]
  BY DEF H!Init
<1>2. \A b \in HBody : b.text # "torn" => H!OnDisk(b) \in HFile /\ Sane(H!OnDisk(b)) /\ H!OnDisk(b).whole
  BY BodyTypes DEF H!OnDisk, Sane
<1>3. ASSUME NEW f \in H!Files, NEW b \in H!Bodies(f) PROVE b \in HBody /\ b.text # "torn"
  BY UserBody
<1>4. c \in HFile /\ Sane(c) /\ c.whole
  <2>1. \A es \in UserConfigs : H!Body("entries", es) \in H!Bodies(Config)
    BY DEF H!Bodies
  <2> QED BY <2>1, <1>2, <1>3, BodyTypes DEF H!Files
<1>5. k \in HFile /\ Sane(k) /\ k.whole
  <2>1. \A t \in Skills : H!Body(t, <<>>) \in H!Bodies(Skill)
    BY InstallNames DEF H!Bodies
  <2> QED BY <2>1, <1>2, <1>3, BodyTypes DEF H!Files
<1>6. /\ durable = file /\ want = file /\ pathLock = [f \in H!Files |-> NoProc] /\ made = 1 /\ raced = {}
      /\ proc = [p \in Procs |-> H!Idle] /\ editing = [file |-> Config, ino |-> 0]
  BY DEF H!Init
<1>7. file \in [H!Files -> HFile]
  BY <1>1, <1>4, <1>5
<1>8. HType
  BY <1>6, <1>7, Ended DEF HType, H!Files
<1>9. FilesSound
  BY <1>1, <1>4, <1>5, <1>6 DEF FilesSound
<1>10. ASSUME NEW p \in Procs
       PROVE  CommandSound(proc[p]) /\ Ready(proc[p], want, raced) /\ DoneWith(proc[p], file)
  <2>1. proc[p] = H!Idle
    BY <1>6
  <2> QED BY <2>1, Ended
<1> QED BY <1>8, <1>9, <1>10 DEF HInv

\* The installers of the run are installers.
LEMMA InstallsAreRuns == PartsSpec => H!Spec
<1>1. PartsInit => H!Init
  BY DEF PartsInit
<1>2. [PartsNext]_parts => [H!Next]_(H!vars)
  BY DEF PartsNext, parts, installing, H!vars
<1> QED BY <1>1, <1>2, PTL DEF PartsSpec, H!Spec

LEMMA InstallInvariant == PartsSpec => []HInv
BY InstallsAreRuns, InstallInit, InstallStep, PTL DEF H!Spec

\* Installs and uninstalls, however they interleave, fail and die, and whenever
\* the power goes, leave what users made of the configuration and of the skill,
\* but for a change after the last check (hook_config.rs `commit`, `unchanged`).
THEOREM EditsAreKept == PartsSpec => []EditsSurvive
<1>1. HInv => H!EditsSurvive
  BY DEF HInv, FilesSound, H!EditsSurvive
<1>2. HInv => H!NeverTorn
  BY DEF HInv, FilesSound, H!NeverTorn, Sane
<1>3. HInv => EditsSurvive
  BY <1>1, <1>2 DEF EditsSurvive
<1> QED BY <1>3, InstallInvariant, PTL

-----------------------------------------------------------------------------
(* Installing the hook: what outlives the power                             *)

\* What a command changed is as it says, and will be, once it is done with it.
Lasting(s, du) ==
    /\ s.act = "preserve" => Skill \notin s.wrote
    /\ s.pc \in H!Busy \cup {"readSkill"} =>
          /\ s.at = Config => Skill \notin s.wrote
          /\ s.pc \notin {"unlink", "syncDir"} => s.at \notin s.wrote
    /\ (s.at = Skill /\ s.pc \in H!Busy) \/ s.result = "ok" =>
          (Config \in s.wrote \ s.over => Done(s.uninstall, Config, du[Config]))
    /\ s.result = "ok" =>
          (Skill \in s.wrote \ s.over => Done(s.uninstall, Skill, du[Skill]))

LastInv == HInv /\ \A p \in Procs : Lasting(proc[p], durable)
AllLast == \A p \in Procs : Lasting(proc[p], durable)

LEMMA NothingWritten ==
    /\ \A s, du : s.wrote = {} => Lasting(s, du)
    /\ H!Idle.wrote = {} /\ Failed.wrote = {}
<1>1. \A s, du : s.wrote = {} => Lasting(s, du)
  BY DEF Lasting
<1>2. H!Idle.wrote = {} /\ Failed.wrote = {}
  BY DEF H!Idle, Failed
<1> QED BY <1>1, <1>2

\* A step of p that makes of a file only what is there outlive the power.
LEMMA LastingStep ==
    ASSUME LastInv, NEW p \in Procs, NEW t, proc' = [proc EXCEPT ![p] = t], Lasting(t, durable'),
           \A h \in H!Files : durable'[h] \in {durable[h], file[h]}
    PROVE  AllLast'
<1> SUFFICES ASSUME NEW q \in Procs PROVE Lasting(proc'[q], durable')
  BY DEF AllLast
<1>0. HInv /\ proc'[q] = IF q = p THEN t ELSE proc[q]
  BY DEF LastInv, HInv, HType
<1>1. CASE q = p
  BY <1>0, <1>1
<1>2. CASE q # p
  <2> DEFINE s == proc[q]
  <2>1. Lasting(s, durable) /\ DoneWith(s, file) /\ Config \in H!Files /\ Skill \in H!Files
    BY <1>0, Commands DEF LastInv, H!Files
  <2> HIDE DEF s
  <2>2. (s.at = Skill /\ s.pc \in H!Busy) \/ s.result = "ok" =>
           (Config \in s.wrote \ s.over => Done(s.uninstall, Config, durable'[Config]))
    BY <2>1 DEF Lasting, DoneWith
  <2>3. s.result = "ok" => (Skill \in s.wrote \ s.over => Done(s.uninstall, Skill, durable'[Skill]))
    BY <2>1 DEF Lasting, DoneWith
  <2>4. Lasting(s, durable')
    BY <2>1, <2>2, <2>3 DEF Lasting
  <2> QED BY <1>0, <1>2, <2>4 DEF s
<1> QED BY <1>1, <1>2

\* A command that fails, or has not changed anything yet.
LEMMA UnwrittenStep ==
    ASSUME LastInv, NEW p \in Procs, NEW t, proc' = [proc EXCEPT ![p] = t], t.wrote = {},
           UNCHANGED durable
    PROVE  AllLast'
BY NothingWritten, LastingStep

LEMMA FailLasts ==
    ASSUME LastInv, NEW p \in Procs, H!Fails(p), UNCHANGED durable
    PROVE  AllLast'
<1>1. HType
  BY DEF LastInv, HInv
<1> QED BY <1>1, Released, NothingWritten, UnwrittenStep

\* A step of p to another point in the same operation.
LEMMA MoveLasts ==
    ASSUME LastInv, NEW p \in Procs, NEW t, proc' = [proc EXCEPT ![p] = t], UNCHANGED durable,
           proc[p].pc \in H!Busy \cup {"readSkill"}, t.pc \in H!Busy,
           t.at = proc[p].at, t.act = proc[p].act, t.wrote = proc[p].wrote, t.uninstall = proc[p].uninstall,
           t.result = proc[p].result, t.over = proc[p].over \/ proc[p].pc = "readSkill",
           proc[p].pc \in {"unlink", "syncDir"} => t.pc \in {"unlink", "syncDir"}
    PROVE  AllLast'
<1> DEFINE s == proc[p]
<1>1. CommandSound(s) /\ Lasting(s, durable)
  BY Commands DEF LastInv
<1>2. t.result # "ok" /\ (s.pc = "readSkill" => s.at = Config)
  <2>1. s.pc # "idle"
    BY DEF H!Busy
  <2> HIDE DEF s
  <2>2. s.result # "ok" /\ (s.pc = "readSkill" => s.at = Config)
    BY <1>1, <2>1 DEF CommandSound
  <2> QED BY <2>2 DEF s
<1> HIDE DEF s
<1>3. t.at = s.at /\ t.act = s.act /\ t.wrote = s.wrote /\ t.uninstall = s.uninstall
      /\ (t.over = s.over \/ s.at = Config)
      /\ s.pc \in H!Busy \cup {"readSkill"} /\ t.pc \in H!Busy
      /\ (s.pc \in {"unlink", "syncDir"} => t.pc \in {"unlink", "syncDir"})
  BY <1>2 DEF s
<1>4. t.at = Skill => s.pc \in H!Busy /\ t.over = s.over
  BY <1>2, <1>3, InstallNames
<1>5. Lasting(t, durable')
  BY <1>1, <1>2, <1>3, <1>4 DEF Lasting
<1> QED BY <1>5, LastingStep

\* A command goes on to the skill, or ends.
LEMMA ContinueLasts ==
    ASSUME LastInv, NEW p \in Procs, NEW s \in HProc, H!Continue(p, s),
           \A h \in H!Files : durable'[h] \in {durable[h], file[h]},
           s.result # "ok",
           s.act = "preserve" => Skill \notin s.wrote,
           s.at = Config => Skill \notin s.wrote,
           Config \in s.wrote \ s.over => Done(s.uninstall, Config, durable'[Config]),
           s.at = Skill => (Skill \in s.wrote \ s.over => Done(s.uninstall, Skill, durable'[Skill]))
    PROVE  AllLast'
<1> DEFINE a == [s EXCEPT !.pc = "apply", !.at = Skill, !.act = H!SkillAct(s.snap[Skill], s.uninstall),
                          !.body = H!Body("generated", <<>>), !.tmp = H!NoFile]
           b == [H!Idle EXCEPT !.result = "ok", !.uninstall = s.uninstall, !.act = s.act, !.over = s.over,
                               !.wrote = s.wrote]
           t == IF s.at = Config THEN a ELSE b
<1>1. proc' = [proc EXCEPT ![p] = t]
  BY DEF H!Continue, H!Become
<1>2. CASE s.at = Config
  <2>1. /\ a.pc = "apply" /\ a.at = Skill /\ a.uninstall = s.uninstall
        /\ a.result = s.result /\ a.over = s.over /\ a.wrote = s.wrote
    BY DEF HProc
  <2> HIDE DEF a
  <2>2. Lasting(a, durable')
    BY <1>2, <2>1, InstallNames DEF Lasting
  <2>3. t = a
    BY <1>2
  <2> HIDE DEF t
  <2> QED BY <1>1, <2>2, <2>3, LastingStep
<1>3. CASE s.at # Config
  <2>1. /\ b.pc = "idle" /\ b.act = s.act /\ b.result = "ok"
        /\ b.uninstall = s.uninstall /\ b.over = s.over /\ b.wrote = s.wrote
    BY DEF H!Idle
  <2>0. s.at = Skill
    BY <1>3 DEF HProc, H!Files
  <2> HIDE DEF b
  <2>2. Lasting(b, durable')
    BY <2>0, <2>1 DEF Lasting, H!Busy
  <2>3. t = b
    BY <1>3
  <2> HIDE DEF t
  <2> QED BY <1>1, <2>2, <2>3, LastingStep
<1> QED BY <1>2, <1>3

\* A command overtaken answers for less.
LEMMA OvertakenLasts ==
    ASSUME NEW s \in HProc, NEW f \in H!Files, NEW v, NEW du, NEW dv, Lasting(s, du),
           v = [s EXCEPT !.over = @ \cup {f}], \A h \in H!Files : h # f => dv[h] = du[h]
    PROVE  Lasting(v, dv)
<1>1. /\ v.pc = s.pc /\ v.at = s.at /\ v.act = s.act /\ v.uninstall = s.uninstall
      /\ v.result = s.result /\ v.over = s.over \cup {f} /\ v.wrote = s.wrote
  BY DEF HProc
<1>2. \A h \in {Config, Skill} : h \in v.wrote \ v.over => h \in s.wrote \ s.over /\ dv[h] = du[h]
  BY <1>1 DEF H!Files
<1> QED BY <1>1, <1>2 DEF Lasting

LEMMA PublishLasts ==
    ASSUME LastInv, NEW p \in Procs, NEW c \in {"unlink", "syncDir"}, proc[p].pc = "publish",
           H!Publishes(p, proc[p].at, [proc[p] EXCEPT !.pc = c]), UNCHANGED durable
    PROVE  AllLast'
<1> DEFINE s == proc[p]  f == s.at
           t == [s EXCEPT !.pc = c, !.over = @ \ {f}, !.wrote = @ \cup {f}]
           o(q) == [proc[q] EXCEPT !.over = @ \cup {f}]
<1>0. s \in HProc /\ f \in H!Files /\ CommandSound(s) /\ Lasting(s, durable) /\ s.uninstall \in BOOLEAN
  BY Commands DEF LastInv
<1>1. proc' = [q \in Procs |-> IF q = p THEN t ELSE o(q)]
  BY <1>0 DEF H!Publishes, HProc
<1>2. Lasting(t, durable)
  <2>1. /\ t.pc = c /\ t.at = f /\ t.act = s.act /\ t.uninstall = s.uninstall
        /\ t.result = s.result /\ t.over = s.over \ {f} /\ t.wrote = s.wrote \cup {f}
    BY <1>0 DEF HProc
  <2>2. s.pc = "publish" /\ s.pc \in H!Busy /\ s.pc \in Working /\ f \in {Config, Skill} /\ f = s.at
    BY <1>0 DEF H!Busy, Working, H!Files
  <2> HIDE DEF t, s, f
  <2>3. s.act \in {"write", "remove"} /\ s.result # "ok"
    BY <1>0, <2>2 DEF CommandSound
  <2>4. f = Config => Skill \notin t.wrote
    BY <1>0, <2>1, <2>2, InstallNames DEF Lasting
  <2>5. f = Skill => (Config \in t.wrote \ t.over => Done(t.uninstall, Config, durable[Config]))
    BY <1>0, <2>1, <2>2, InstallNames DEF Lasting
  <2> QED BY <2>1, <2>3, <2>4, <2>5 DEF Lasting
<1>3. ASSUME NEW q \in Procs PROVE Lasting(proc'[q], durable)
  <2>1. proc'[q] = IF q = p THEN t ELSE o(q)
    BY <1>1
  <2>2. Lasting(o(q), durable)
    <3>1. proc[q] \in HProc /\ Lasting(proc[q], durable)
      BY Commands DEF LastInv
    <3> HIDE DEF f
    <3> QED BY <1>0, <3>1, OvertakenLasts
  <2> HIDE DEF t, o
  <2> QED BY <2>1, <2>2, <1>2
<1> QED BY <1>3 DEF AllLast

LEMMA UserLasts ==
    ASSUME LastInv, NEW f \in H!Files, NEW g, H!UserMakes(f, g)
    PROVE  AllLast'
<1>1. durable' = [durable EXCEPT ![f] = g]
      /\ proc' = [q \in Procs |-> [proc[q] EXCEPT !.over = @ \cup {f}]]
  BY DEF H!UserMakes
<1>2. \A h \in H!Files : h # f => durable'[h] = durable[h]
  BY <1>1 DEF LastInv, HInv, HType
<1>3. ASSUME NEW q \in Procs PROVE Lasting(proc'[q], durable')
  <2>1. proc[q] \in HProc /\ Lasting(proc[q], durable)
    BY Commands DEF LastInv
  <2>2. proc'[q] = [proc[q] EXCEPT !.over = @ \cup {f}]
    BY <1>1
  <2>3. \A v : v = [proc[q] EXCEPT !.over = @ \cup {f}] => Lasting(v, durable')
    BY ONLY <1>2, <2>1, OvertakenLasts, f \in H!Files
  <2> QED BY <2>2, <2>3
<1> QED BY <1>3 DEF AllLast

-----------------------------------------------------------------------------

LEMMA ReadsLast ==
    ASSUME LastInv, NEW p \in Procs, H!ReadConfig(p) \/ H!ReadSkill(p)
    PROVE  AllLast'
<1>1. CASE H!ReadConfig(p)
  <2>1. PICK u \in BOOLEAN :
        proc' = [proc EXCEPT ![p] =
                   IF ~H!Parses(file[Config]) THEN Failed
                   ELSE [H!Idle EXCEPT !.pc = "readSkill", !.uninstall = u,
                                     !.snap[Config] = file[Config], !.body = H!ConfigBody(file[Config], u),
                                     !.act = IF H!ConfigBody(file[Config], u) = file[Config].body THEN "check"
                                             ELSE "write"]]
    BY <1>1 DEF H!ReadConfig, H!Become, Failed
  <2> DEFINE r == [H!Idle EXCEPT !.pc = "readSkill", !.uninstall = u,
                                 !.snap[Config] = file[Config], !.body = H!ConfigBody(file[Config], u),
                                 !.act = IF H!ConfigBody(file[Config], u) = file[Config].body THEN "check"
                                         ELSE "write"]
             t == IF ~H!Parses(file[Config]) THEN Failed ELSE r
  <2>2. r.wrote = {}
    BY DEF H!Idle
  <2>3. UNCHANGED durable
    BY <1>1 DEF H!ReadConfig
  <2>4. proc' = [proc EXCEPT ![p] = t]
    BY <2>1
  <2> HIDE DEF r
  <2>5. t.wrote = {}
    BY <2>2, NothingWritten
  <2> HIDE DEF t
  <2> QED BY <2>3, <2>4, <2>5, UnwrittenStep
<1>2. CASE H!ReadSkill(p)
  <2> DEFINE s == proc[p]
             t == [s EXCEPT !.pc = "apply", !.snap[Skill] = file[Skill], !.over = @ \ {Skill}]
  <2>1. proc' = [proc EXCEPT ![p] = t] /\ UNCHANGED durable /\ s.pc = "readSkill" /\ s \in HProc
    BY <1>2, Commands DEF H!ReadSkill, H!Become, LastInv
  <2>2. /\ t.pc = "apply" /\ t.at = s.at /\ t.act = s.act /\ t.uninstall = s.uninstall
        /\ t.result = s.result /\ t.wrote = s.wrote /\ t.pc \in H!Busy
    BY <2>1 DEF HProc, H!Busy
  <2> HIDE DEF t
  <2> QED BY <2>1, <2>2, MoveLasts
<1> QED BY <1>1, <1>2

LEMMA CheckLasts ==
    ASSUME LastInv, NEW p \in Procs, H!Check(p)
    PROVE  AllLast'
<1> DEFINE s == proc[p]
           t == [s EXCEPT !.over = @ \ {s.at}]
<1>0. /\ s \in HProc /\ s.at \in {Config, Skill} /\ CommandSound(s) /\ Lasting(s, durable)
      /\ s.pc = "apply" /\ s.pc \in H!Busy /\ UNCHANGED durable
  BY Commands DEF LastInv, H!Check, H!Busy, H!Files
<1>1. s.result # "ok" /\ s.at \notin s.wrote /\ (s.at = Config => Skill \notin s.wrote)
      /\ (s.act = "preserve" => Skill \notin s.wrote)
      /\ (s.at = Skill => (Config \in s.wrote \ s.over => Done(s.uninstall, Config, durable[Config])))
  BY <1>0 DEF CommandSound, Lasting
<1>2. CASE H!Continue(p, s)
  <2>1. Config \in s.wrote \ s.over => Done(s.uninstall, Config, durable'[Config])
    BY <1>0, <1>1
  <2> HIDE DEF s
  <2> QED BY <1>0, <1>1, <1>2, <2>1, ContinueLasts
<1>3. CASE H!Continue(p, t)
  <2>1. /\ t \in HProc /\ t.at = s.at /\ t.result = s.result /\ t.uninstall = s.uninstall
        /\ t.over = s.over \ {s.at} /\ t.act = s.act /\ t.wrote = s.wrote
    BY <1>0 DEF HProc
  <2> HIDE DEF t, s
  <2>2. Config \in t.wrote \ t.over => Done(t.uninstall, Config, durable'[Config])
    BY <1>0, <1>1, <2>1
  <2> QED BY <1>0, <1>1, <1>3, <2>1, <2>2, ContinueLasts
<1>4. CASE H!Fails(p)
  BY <1>0, <1>4, FailLasts
<1>5. H!Continue(p, s) \/ H!Continue(p, t) \/ H!Fails(p)
  BY DEF H!Check, H!At
<1> QED BY <1>2, <1>3, <1>4, <1>5

LEMMA MovesLast ==
    ASSUME LastInv, NEW p \in Procs,
           H!Lock(p) \/ H!WriteTmp(p) \/ H!SyncTmp(p) \/ H!CheckAgain(p) \/ H!Unlink(p)
    PROVE  AllLast'
<1> DEFINE s == proc[p]
           g == [ino |-> made + 1, links |-> 1, whole |-> FALSE, body |-> s.body]
           To(c) == [s EXCEPT !.pc = c]
           Copy == [s EXCEPT !.pc = "sync", !.tmp = g]
           Synced == [s EXCEPT !.pc = "commit", !.tmp.whole = TRUE]
<1>0. s \in HProc /\ UNCHANGED durable /\ s.pc \in H!Busy
      /\ (s.pc = "unlink" \/ s.pc \notin {"unlink", "syncDir"})
  BY Commands DEF LastInv, H!Lock, H!WriteTmp, H!SyncTmp, H!CheckAgain, H!Unlink, H!Busy
<1>1. CASE H!Fails(p)
  BY <1>0, <1>1, FailLasts
<1>2. ASSUME NEW c \in H!Busy, proc' = [proc EXCEPT ![p] = To(c)], s.pc = "unlink" => c = "syncDir"
      PROVE  AllLast'
  <2> DEFINE t == To(c)
  <2>1. /\ t.pc = c /\ t.at = s.at /\ t.act = s.act /\ t.uninstall = s.uninstall
        /\ t.result = s.result /\ t.wrote = s.wrote /\ t.over = s.over /\ proc' = [proc EXCEPT ![p] = t]
    BY <1>0, <1>2 DEF HProc
  <2> HIDE DEF t
  <2> QED BY <1>0, <1>2, <2>1, MoveLasts
<1>3. ASSUME NEW t \in {Copy, Synced}, proc' = [proc EXCEPT ![p] = t], s.pc # "unlink"
      PROVE  AllLast'
  <2>1. /\ t.pc \in {"sync", "commit"} /\ t.at = s.at /\ t.act = s.act /\ t.uninstall = s.uninstall
        /\ t.result = s.result /\ t.wrote = s.wrote /\ t.over = s.over
    BY <1>0, <1>3 DEF HProc
  <2>2. t.pc \in H!Busy
    BY <2>1 DEF H!Busy
  <2> QED BY <1>0, <1>3, <2>1, <2>2, MoveLasts
<1>4. {"tmp", "commit", "publish", "syncDir"} \subseteq H!Busy
  BY DEF H!Busy
<1>5. CASE H!Lock(p)
  <2>1. H!Fails(p) \/ proc' = [proc EXCEPT ![p] = To(IF s.act = "write" THEN "tmp" ELSE "commit")]
    BY <1>5 DEF H!Lock, H!Become
  <2>2. s.pc # "unlink"
    BY <1>5 DEF H!Lock
  <2>3. (IF s.act = "write" THEN "tmp" ELSE "commit") \in H!Busy
    BY <1>4
  <2> HIDE DEF To
  <2> QED BY <1>1, <1>2, <2>1, <2>2, <2>3
<1>6. CASE H!WriteTmp(p)
  <2>1. H!Fails(p) \/ proc' = [proc EXCEPT ![p] = Copy]
    BY <1>6 DEF H!WriteTmp, H!Become
  <2>2. s.pc # "unlink"
    BY <1>6 DEF H!WriteTmp
  <2> HIDE DEF Copy
  <2> QED BY <1>1, <1>3, <2>1, <2>2
<1>7. CASE H!SyncTmp(p)
  <2>1. proc' = [proc EXCEPT ![p] = Synced] /\ s.pc # "unlink"
    BY <1>7 DEF H!SyncTmp, H!Become
  <2> HIDE DEF Synced
  <2> QED BY <1>3, <2>1
<1>8. CASE H!CheckAgain(p)
  <2>1. (H!Fails(p) \/ proc' = [proc EXCEPT ![p] = To("publish")]) /\ s.pc # "unlink"
    BY <1>8 DEF H!CheckAgain, H!Become
  <2> HIDE DEF To
  <2> QED BY <1>1, <1>2, <1>4, <2>1
<1>9. CASE H!Unlink(p)
  <2>1. proc' = [proc EXCEPT ![p] = To("syncDir")]
    BY <1>9 DEF H!Unlink, H!Become
  <2> HIDE DEF To
  <2> QED BY <1>2, <1>4, <2>1
<1> QED BY <1>5, <1>6, <1>7, <1>8, <1>9

LEMMA PublishesLast ==
    ASSUME LastInv, NEW p \in Procs, H!Replace(p) \/ H!Link(p)
    PROVE  AllLast'
<1>1. UNCHANGED durable /\ H!At(p) = proc[p].at /\ proc[p].pc = "publish"
  BY DEF H!Replace, H!Link, H!At, H!Replaces
<1>2. CASE H!Fails(p)
  BY <1>1, <1>2, FailLasts
<1>3. CASE ~H!Fails(p)
  <2>1. PICK c \in {"unlink", "syncDir"} : H!Publishes(p, proc[p].at, [proc[p] EXCEPT !.pc = c])
    BY <1>1, <1>3 DEF H!Replace, H!Link
  <2> QED BY <1>1, <2>1, PublishLasts
<1> QED BY <1>2, <1>3

LEMMA SyncDirLasts ==
    ASSUME LastInv, NEW p \in Procs, H!SyncDir(p)
    PROVE  AllLast'
<1> DEFINE s == proc[p]  f == s.at
<1>0. /\ HType /\ s \in HProc /\ f \in {Config, Skill} /\ f \in H!Files /\ CommandSound(s) /\ Lasting(s, durable)
      /\ DoneWith(s, file) /\ H!At(p) = f
  BY Commands DEF LastInv, H!Files
<1>1. /\ s.pc = "syncDir" /\ s.pc \in H!Busy /\ s.pc \in Working /\ H!Continue(p, s)
      /\ durable' = [durable EXCEPT ![f] = file[f]]
  BY <1>0 DEF H!SyncDir, H!Busy, Working
<1>2. \A h \in H!Files : durable'[h] = IF h = f THEN file[h] ELSE durable[h]
  BY <1>0, <1>1 DEF HType
<1>3. Config \in H!Files /\ Skill \in H!Files /\ Config # Skill
  BY InstallNames DEF H!Files
<1> HIDE DEF s, f
<1>4. f = s.at
  BY DEF f
<1>5. s.result # "ok" /\ (s.act = "preserve" => Skill \notin s.wrote) /\ (s.at = Config => Skill \notin s.wrote)
  BY <1>0, <1>1 DEF CommandSound, Lasting
<1>6. f \in s.over \/ Done(s.uninstall, f, file[f])
  BY <1>0, <1>1, <1>4 DEF DoneWith
<1>7. Config \in s.wrote \ s.over => Done(s.uninstall, Config, durable'[Config])
  <2>1. CASE f = Config
    BY <2>1, <1>2, <1>3, <1>6
  <2>2. CASE f = Skill
    BY <2>2, <1>0, <1>1, <1>2, <1>3, <1>4 DEF Lasting
  <2> QED BY <2>1, <2>2, <1>0
<1>8. s.at = Skill => (Skill \in s.wrote \ s.over => Done(s.uninstall, Skill, durable'[Skill]))
  BY <1>2, <1>3, <1>4, <1>6
<1> QED BY <1>0, <1>1, <1>2, <1>5, <1>7, <1>8, ContinueLasts

LEMMA LastStep == LastInv /\ [H!Next]_(H!vars) => LastInv'
<1> SUFFICES ASSUME LastInv, [H!Next]_(H!vars) PROVE AllLast'
  BY InstallStep DEF LastInv, AllLast
<1>1. ASSUME NEW p \in Procs, H!Command(p) PROVE AllLast'
  BY <1>1, ReadsLast, CheckLasts, MovesLast, PublishesLast, SyncDirLasts DEF H!Command
<1>2. ASSUME NEW p \in Procs, H!CallFails(p) \/ H!Crash(p) PROVE AllLast'
  <2>1. H!Fails(p) /\ UNCHANGED durable
    BY <1>2 DEF H!CallFails, H!Crash
  <2> QED BY <2>1, FailLasts
<1>3. ASSUME NEW f \in H!Files, H!UserReplaces(f) \/ H!UserRemoves(f) \/ H!EditorOpens(f) PROVE AllLast'
  <2>1. PICK g : H!UserMakes(f, g)
    BY <1>3 DEF H!UserReplaces, H!UserRemoves, H!EditorOpens
  <2> QED BY <2>1, UserLasts
<1>4. CASE UNCHANGED <<proc, durable>>
  BY <1>4 DEF LastInv, AllLast
<1>5. CASE H!EditorSaves
  <2>1. CASE UNCHANGED <<proc, durable>>
    BY <2>1, <1>4
  <2>2. CASE ~UNCHANGED <<proc, durable>>
    <3>1. PICK g : H!UserMakes(editing.file, g)
      BY <1>5, <2>2 DEF H!EditorSaves
    <3>2. editing.file \in H!Files
      BY DEF LastInv, HInv, HType
    <3> QED BY <3>1, <3>2, UserLasts
  <2> QED BY <2>1, <2>2
<1>6. CASE H!PowerLoss
  <2>1. proc' = [p \in Procs |-> H!Idle]
    BY <1>6 DEF H!PowerLoss
  <2> QED BY <2>1, NothingWritten DEF AllLast
<1>7. CASE UNCHANGED H!vars
  BY <1>7, <1>4 DEF H!vars
<1> QED BY <1>1, <1>2, <1>3, <1>5, <1>6, <1>7 DEF H!Next

LEMMA LastInvariant == PartsSpec => []LastInv
<1>1. H!Init => LastInv
  <2>1. H!Init => proc = [p \in Procs |-> H!Idle]
    BY DEF H!Init
  <2>2. H!Init => \A p \in Procs : proc[p] = H!Idle
    BY <2>1
  <2> QED BY <2>2, InstallInit, NothingWritten DEF LastInv
<1> QED BY <1>1, LastStep, InstallsAreRuns, PTL DEF H!Spec

LEMMA DoneIsAsSaid ==
    ASSUME NEW u \in BOOLEAN, NEW f \in {Config, Skill}, NEW g, Done(u, f, g)
    PROVE  H!AsSaid(u, f, g)
<1>1. H!Had(g.body.entries, u) \in BOOLEAN
  BY DEF H!Had
<1> QED BY <1>1 DEF Done, H!AsSaid

\* A command that reports success has done both files, whatever others did at
\* the same time, unless they changed them after it; and what it changed itself
\* is there, whole, after a power loss (hook.rs `install`, `uninstall`,
\* hook_config.rs `Pending::commit`, `Config::remove`).
THEOREM SuccessIsDone == PartsSpec => []OkIsDone
<1>1. ASSUME HInv, NEW p \in Procs, proc[p].result = "ok"
      PROVE  /\ Config \in proc[p].over \/ H!AsSaid(proc[p].uninstall, Config, file[Config])
             /\ Skill \in proc[p].over \/ proc[p].act = "preserve"
                \/ H!AsSaid(proc[p].uninstall, Skill, file[Skill])
  <2>1. DoneWith(proc[p], file) /\ proc[p].uninstall \in BOOLEAN
    BY <1>1, Commands
  <2>2. Config \in proc[p].over \/ Done(proc[p].uninstall, Config, file[Config])
    BY <2>1, <1>1 DEF DoneWith
  <2>3. Skill \in proc[p].over \/ proc[p].act = "preserve" \/ Done(proc[p].uninstall, Skill, file[Skill])
    BY <2>1, <1>1 DEF DoneWith
  <2> QED BY <2>1, <2>2, <2>3, DoneIsAsSaid
<1>2. HInv => H!OkIsDone
  BY <1>1 DEF H!OkIsDone
<1>3. ASSUME LastInv, NEW p \in Procs, proc[p].result = "ok", NEW f \in proc[p].wrote \ proc[p].over
      PROVE  durable[f].whole /\ H!AsSaid(proc[p].uninstall, f, durable[f])
  <2>1. /\ HInv /\ Lasting(proc[p], durable) /\ FilesSound /\ proc[p].uninstall \in BOOLEAN
        /\ f \in H!Files /\ f \in {Config, Skill}
    BY <1>3, Commands DEF LastInv, HProc, H!Files
  <2>2. Done(proc[p].uninstall, f, durable[f])
    BY <1>3, <2>1 DEF Lasting
  <2> QED BY <2>1, <2>2, DoneIsAsSaid DEF FilesSound
<1>4. LastInv => H!OkIsDurable
  BY <1>3 DEF H!OkIsDurable
<1>5. LastInv => OkIsDone
  BY <1>2, <1>4 DEF OkIsDone, LastInv
<1> QED BY <1>5, LastInvariant, PTL

-----------------------------------------------------------------------------
(* What the hook knows of a line before each of its commands *)

\* What names a directory or a command here.
Dir == STRING \cup {"?", "elsewhere", "x"}
Part == [at : Nat, afterOther : BOOLEAN, piped : BOOLEAN, glob : BOOLEAN, regex : BOOLEAN,
         lone : BOOLEAN, cds : Seq(Dir)]
Known == [parts : Seq(Part), other : BOOLEAN, env : BOOLEAN, readers : BOOLEAN,
          cds : Seq(Dir), at : Nat]

LEMMA CommandFields ==
    ASSUME NEW c \in Command
    PROVE  /\ c.cd \in Dir /\ c.words \in Dir /\ c.sep \in {";", "&&", "||"} /\ c.glob \in BOOLEAN /\ c.env \in BOOLEAN
           /\ c.regex \in BOOLEAN /\ c.moves \in BOOLEAN
           /\ c.search # "no" => c.cd = "" /\ ~c.moves /\ ~c.env
BY DEF Command, Dir

LEMMA UnknownIs == Unknown \in Seq(Dir) /\ Unknown # <<>> /\ <<>> \in Seq(Dir)
<1>1. "?" \in Dir
  BY DEF Dir
<1>2. \A D, x : x \in D => <<x>> \in Seq(D) /\ <<x>> # <<>> /\ <<>> \in Seq(D)
  OBVIOUS
<1> QED BY <1>1, <1>2 DEF Unknown

\* The path of `cd`s after c, but for its separator.
Moved(s, c) == IF Takes(s, c) \/ s.cds = Unknown THEN s.cds
               ELSE IF c.cd # "" /\ c.pipe = "none" THEN Append(s.cds, c.cd) ELSE Unknown

LEMMA TakesIs ==
    ASSUME NEW s \in Known, NEW c \in Command
    PROVE  Takes(s, c) \in BOOLEAN
BY DEF Takes, Alone, Reads

LEMMA WalkParts ==
    ASSUME NEW s, NEW c
    PROVE  /\ Walk(s, c).parts = (IF Takes(s, c) THEN Append(s.parts, PartOf(s, c)) ELSE s.parts)
           /\ Walk(s, c).at = s.at + 1
BY DEF Walk

LEMMA WalkFlags ==
    ASSUME NEW s, NEW c
    PROVE  /\ Walk(s, c).other = (s.other \/ ~Takes(s, c))
           /\ Walk(s, c).env = (s.env \/ (~Takes(s, c) /\ c.env))
BY DEF Walk

LEMMA WalkCds ==
    ASSUME NEW s, NEW c
    PROVE  Walk(s, c).cds = IF c.sep # "&&" /\ Moved(s, c) # <<>> THEN Unknown ELSE Moved(s, c)
BY DEF Walk, Moved

LEMMA PartType ==
    ASSUME NEW s \in Known, NEW c \in Command
    PROVE  PartOf(s, c) \in Part /\ PartOf(s, c).at = s.at
<1>0. c.glob \in BOOLEAN /\ c.regex \in BOOLEAN
  BY CommandFields
<1>1. s.at \in Nat /\ s.other \in BOOLEAN /\ s.cds \in Seq(Dir)
  BY DEF Known
<1> QED BY <1>0, <1>1 DEF PartOf, Part

LEMMA WalkType ==
    ASSUME NEW s \in Known, NEW c \in Command
    PROVE  Walk(s, c) \in Known
<1>0. c.cd \in Dir
  BY CommandFields
<1>1. s.parts \in Seq(Part) /\ s.at \in Nat /\ s.cds \in Seq(Dir)
  BY DEF Known
<1>2. Moved(s, c) \in Seq(Dir)
  <2>1. Append(s.cds, c.cd) \in Seq(Dir)
    BY <1>0, <1>1
  <2>2. Moved(s, c) \in {s.cds, Append(s.cds, c.cd), Unknown}
    BY Zenon DEF Moved
  <2> QED BY <2>1, <2>2, <1>1, UnknownIs
<1> DEFINE took == Takes(s, c)
           w == [parts |-> IF took THEN Append(s.parts, PartOf(s, c)) ELSE s.parts,
                 other |-> s.other \/ ~took,
                 env |-> s.env \/ (~took /\ c.env),
                 readers |-> s.readers \/ (Reads(c) /\ c.pipe = "reader"),
                 cds |-> IF c.sep # "&&" /\ Moved(s, c) # <<>> THEN Unknown ELSE Moved(s, c),
                 at |-> s.at + 1]
<1>3. Walk(s, c) = w
  BY DEF Walk, Moved
<1>6. (IF took THEN Append(s.parts, PartOf(s, c)) ELSE s.parts) \in Seq(Part)
  BY <1>1, PartType
<1>7. (IF c.sep # "&&" /\ Moved(s, c) # <<>> THEN Unknown ELSE Moved(s, c)) \in Seq(Dir)
  BY <1>2, UnknownIs
<1>8. (s.other \/ ~took) \in BOOLEAN /\ (s.env \/ (~took /\ c.env)) \in BOOLEAN
      /\ (s.readers \/ (Reads(c) /\ c.pipe = "reader")) \in BOOLEAN
  OBVIOUS
<1>9. w \in Known
  BY <1>1, <1>6, <1>7, <1>8 DEF Known
<1> QED BY <1>3, <1>9

LEMMA WalkedSteps ==
    ASSUME NEW l \in Seq(Command)
    PROVE  /\ Walked(l) \in [0 .. Len(l) -> Known] /\ Walked(l)[0] = Start
           /\ \A i \in 1 .. Len(l) : Walked(l)[i] = Walk(Walked(l)[i - 1], l[i])
<1> DEFINE n == Len(l)  B == Known  b == Start
           g == [i \in 1 .. n |-> [x \in Known |-> Walk(x, l[i])]]
           F(w) == w = [i \in 0 .. Len(l) |-> IF i = 0 THEN Start ELSE Walk(w[i - 1], l[i])]
<1>1. n \in Nat /\ \A i \in 1 .. n : l[i] \in Command
  OBVIOUS
<1>2. Start \in Known
  BY DEF Start, Known
<1>3. g \in [1 .. n -> [B -> B]]
  BY <1>1, WalkType
<1>4. PICK f \in [0 .. n -> Known] : f = [i \in 0 .. n |-> IF i = 0 THEN Start ELSE g[i][f[i - 1]]]
  <2>1. n \in Nat /\ b \in B /\ g \in [1 .. n -> [B -> B]]
    BY <1>1, <1>2, <1>3
  <2> HIDE DEF g, n, B, b
  <2>2. \E f \in [0 .. n -> B] : Recurs(n, b, g, f)
    BY <2>1, Recursion
  <2> QED BY <2>2 DEF B, b, Recurs
<1>5. ASSUME NEW i \in 0 .. n, i # 0
      PROVE  g[i][f[i - 1]] = Walk(f[i - 1], l[i])
  <2>1. i \in 1 .. n /\ i - 1 \in 0 .. n
    BY <1>5
  <2>2. f[i - 1] \in Known
    BY <2>1
  <2> QED BY <2>1, <2>2
<1>6. F(f)
  BY <1>4, <1>5
<1>7. PICK h : F(h) /\ Walked(l) = h
  <2> DEFINE h == CHOOSE w : F(w)
  <2>1. F(h)
    BY <1>6
  <2>2. Walked(l) = h
    BY DEF Walked
  <2> HIDE DEF h
  <2> QED BY <2>1, <2>2
<1>8. h = f
  <2> DEFINE D == {i \in 0 .. n : h[i] # f[i]}
  <2>1. SUFFICES D = {}
    BY <2>1, <1>6, <1>7
  <2>2. SUFFICES ASSUME D # {} PROVE FALSE
    OBVIOUS
  <2>3. PICK i \in D : \A j \in D : i <= j
    <3>1. D \in SUBSET Nat
      OBVIOUS
    <3> QED BY <3>1, <2>2, Least
  <2>4. i # 0
    BY <2>3, <1>6, <1>7
  <2>5. i - 1 \in 0 .. n /\ ~ (i <= i - 1)
    BY <2>4
  <2>6. h[i - 1] = f[i - 1]
    BY <2>5, <2>3
  <2>7. h[i] = f[i]
    BY <2>4, <2>6, <1>6, <1>7
  <2> QED BY <2>7
<1>9. /\ Walked(l) = f /\ f \in [0 .. Len(l) -> Known]
      /\ \A i \in 0 .. Len(l) : f[i] = IF i = 0 THEN Start ELSE Walk(f[i - 1], l[i])
  BY <1>4, <1>6, <1>7, <1>8
<1> HIDE DEF g, F, n, B, b
<1>10. f[0] = Start /\ \A i \in 1 .. Len(l) : f[i] = Walk(f[i - 1], l[i])
  BY <1>9
<1> QED BY <1>9, <1>10

\* Before command i of l.
Before0(l, i) == Walked(l)[i - 1]
Taken(l, i) == Takes(Before0(l, i), l[i])

LEMMA WalkedAt ==
    ASSUME NEW l \in Seq(Command), NEW i \in 1 .. Len(l)
    PROVE  /\ l[i] \in Command /\ Before0(l, i) \in Known /\ Walked(l)[i] \in Known
           /\ Walked(l)[i] = Walk(Before0(l, i), l[i]) /\ Before0(l, i + 1) = Walked(l)[i]
<1>1. i - 1 \in 0 .. Len(l) /\ i \in 0 .. Len(l) /\ (i + 1) - 1 = i /\ l[i] \in Command
  OBVIOUS
<1>2. Walked(l) \in [0 .. Len(l) -> Known]
  BY WalkedSteps
<1>3. Walked(l)[i - 1] \in Known /\ Walked(l)[i] \in Known
  BY <1>1, <1>2
<1>4. Walked(l)[i] = Walk(Walked(l)[i - 1], l[i])
  BY WalkedSteps
<1> QED BY <1>1, <1>3, <1>4 DEF Before0

\* The parts of a line are its commands that are taken, each as it is found.
LEMMA PartsAre ==
    ASSUME NEW l \in Seq(Command), NEW i \in 0 .. Len(l)
    PROVE  /\ Walked(l)[i].at = i + 1
           /\ \A k \in DOMAIN Walked(l)[i].parts :
                LET p == Walked(l)[i].parts[k]
                IN  p.at \in 1 .. i /\ Taken(l, p.at) /\ p = PartOf(Before0(l, p.at), l[p.at])
           /\ \A j \in 1 .. i : Taken(l, j) => \E k \in DOMAIN Walked(l)[i].parts : Walked(l)[i].parts[k].at = j
           /\ \A j \in 0 .. i : /\ Walked(l)[j].env => Walked(l)[i].env
                                /\ Walked(l)[j].other => Walked(l)[i].other
           /\ ~Walked(l)[i].other => \A j \in 1 .. i : Taken(l, j)
<1> DEFINE w(m) == Walked(l)[m]
           Fine(m) == /\ w(m).at = m + 1
                      /\ \A k \in DOMAIN w(m).parts :
                           LET p == w(m).parts[k]
                           IN  p.at \in 1 .. m /\ Taken(l, p.at) /\ p = PartOf(Before0(l, p.at), l[p.at])
                      /\ \A j \in 1 .. m : Taken(l, j) => \E k \in DOMAIN w(m).parts : w(m).parts[k].at = j
                      /\ \A j \in 0 .. m : (w(j).env => w(m).env) /\ (w(j).other => w(m).other)
                      /\ ~w(m).other => \A j \in 1 .. m : Taken(l, j)
           D == {m \in 0 .. Len(l) : ~Fine(m)}
<1>1. SUFFICES ASSUME D # {} PROVE FALSE
  <2>1. Fine(i)
    BY <1>1
  <2> QED BY <2>1
<1>2. PICK m \in D : \A j \in D : m <= j
  <2>1. D \in SUBSET Nat
    OBVIOUS
  <2> QED BY <2>1, <1>1, Least
<1>3. w(0) = Start
  BY WalkedSteps
<1>4. m # 0
  <2>1. Fine(0)
    BY <1>3 DEF Start
  <2> QED BY <2>1, <1>2
<1>5. m \in 1 .. Len(l) /\ m - 1 \in 0 .. Len(l) /\ ~ (m <= m - 1) /\ m = (m - 1) + 1 /\ m \in Nat
  BY <1>2, <1>4
<1>6. Fine(m - 1)
  BY <1>5, <1>2
<1> DEFINE s == w(m - 1)  c == l[m]
<1>7. /\ s \in Known /\ c \in Command /\ w(m) = Walk(s, c) /\ w(m) \in Known /\ Before0(l, m) = s
      /\ (Taken(l, m) <=> Takes(s, c)) /\ Takes(s, c) \in BOOLEAN
  BY <1>5, WalkedAt, TakesIs DEF Before0, Taken
<1>8. w(m).at = m + 1
  <2>1. s.at = m
    BY <1>5, <1>6
  <2> HIDE DEF w, s
  <2> QED BY <2>1, <1>7, WalkParts
<1>9. PartOf(s, c) \in Part /\ PartOf(s, c).at = m
  <2>1. s.at = m
    BY <1>5, <1>6
  <2> HIDE DEF w, s
  <2> QED BY <2>1, <1>7, PartType
<1>10. s.parts \in Seq(Part) /\ w(m).parts = IF Takes(s, c) THEN Append(s.parts, PartOf(s, c)) ELSE s.parts
  BY <1>7, WalkParts DEF Known
<1>11. ASSUME NEW k \in DOMAIN w(m).parts
       PROVE  LET p == w(m).parts[k]
              IN  p.at \in 1 .. m /\ Taken(l, p.at) /\ p = PartOf(Before0(l, p.at), l[p.at])
  <2>1. CASE k \in DOMAIN s.parts
    <3>1. w(m).parts[k] = s.parts[k]
      BY <2>1, <1>9, <1>10
    <3>2. s.parts[k].at \in 1 .. m - 1 /\ Taken(l, s.parts[k].at)
          /\ s.parts[k] = PartOf(Before0(l, s.parts[k].at), l[s.parts[k].at])
      BY <2>1, <1>6
    <3>3. s.parts[k].at \in 1 .. m
      BY <3>2, <1>5
    <3> HIDE DEF w, s
    <3> QED BY <3>1, <3>2, <3>3
  <2>2. CASE k \notin DOMAIN s.parts
    <3>1. Takes(s, c) /\ w(m).parts[k] = PartOf(s, c)
      BY <2>2, <1>9, <1>10
    <3> QED BY <3>1, <1>5, <1>7, <1>9
  <2> QED BY <2>1, <2>2
<1>12. ASSUME NEW j \in 1 .. m, Taken(l, j)
       PROVE  \E k \in DOMAIN w(m).parts : w(m).parts[k].at = j
  <2>1. CASE j = m
    <3>1. Takes(s, c) /\ w(m).parts = Append(s.parts, PartOf(s, c))
      BY <2>1, <1>7, <1>10, <1>12
    <3>2. Len(s.parts) + 1 \in DOMAIN w(m).parts /\ w(m).parts[Len(s.parts) + 1] = PartOf(s, c)
      BY <3>1, <1>9, <1>10
    <3> QED BY <3>2, <2>1, <1>9
  <2>2. CASE j # m
    <3>1. j \in 1 .. m - 1
      BY <2>2, <1>5
    <3>2. PICK k \in DOMAIN s.parts : s.parts[k].at = j
      BY <3>1, <1>6, <1>12
    <3>3. k \in DOMAIN w(m).parts /\ w(m).parts[k] = s.parts[k]
      BY <1>9, <1>10
    <3> QED BY <3>2, <3>3
  <2> QED BY <2>1, <2>2
<1>13. (s.env => w(m).env) /\ (s.other => w(m).other) /\ (~w(m).other => Taken(l, m))
  <2>1. /\ w(m).other = (s.other \/ ~Takes(s, c))
        /\ w(m).env = (s.env \/ (~Takes(s, c) /\ c.env))
    BY <1>7, WalkFlags
  <2>2. /\ s.other \in BOOLEAN /\ s.env \in BOOLEAN /\ w(m).other \in BOOLEAN /\ w(m).env \in BOOLEAN
    BY <1>7 DEF Known
  <2> HIDE DEF w, s
  <2> QED BY Zenon, <2>1, <2>2, <1>7
<1>14. \A j \in 0 .. m : (w(j).env => w(m).env) /\ (w(j).other => w(m).other)
  BY <1>5, <1>6, <1>13
<1>15. ~w(m).other => \A j \in 1 .. m : Taken(l, j)
  BY <1>5, <1>6, <1>13
<1>16. Fine(m)
  BY <1>8, <1>11, <1>12, <1>14, <1>15
<1> QED BY <1>16, <1>2

-----------------------------------------------------------------------------
(* Where the shell is when it comes to each command *)

NoOr(l) == \A i \in DOMAIN l : l[i].sep # "||"

\* Before command n of l, in directory d and with the last status st.
Where(l, n, d, st) ==
    /\ ~Before0(l, n).other => d = <<>>
    /\ NoOr(l) /\ Before0(l, n).cds # Unknown =>
         \/ d = Before0(l, n).cds
         \/ st = "fail" /\ n > 1 /\ l[n - 1].sep = "&&" /\ Before0(l, n).cds # <<>>

\* What the loop knows after n, of a line on which it goes on knowing.
LEMMA StillKnown ==
    ASSUME NEW l \in Seq(Command), NEW n \in 1 .. Len(l), Before0(l, n + 1).cds # Unknown
    PROVE  /\ Before0(l, n).cds # Unknown
           /\ l[n].sep = "&&" \/ Before0(l, n + 1).cds = <<>>
           /\ Before0(l, n + 1).cds = Moved(Before0(l, n), l[n])
           /\ \/ Taken(l, n) /\ Before0(l, n + 1).cds = Before0(l, n).cds
              \/ /\ l[n].cd # "" /\ l[n].pipe = "none"
                 /\ Before0(l, n + 1).cds = Append(Before0(l, n).cds, l[n].cd)
<1> DEFINE s == Before0(l, n)  c == l[n]  t == Before0(l, n + 1)
<1>1. t = Walk(s, c) /\ s \in Known /\ c \in Command
  BY WalkedAt
<1>2. t.cds = IF c.sep # "&&" /\ Moved(s, c) # <<>> THEN Unknown ELSE Moved(s, c)
  BY <1>1, WalkCds
<1>3. t.cds = Moved(s, c) /\ (c.sep = "&&" \/ t.cds = <<>>) /\ Moved(s, c) # Unknown
  BY <1>2
<1>4. Moved(s, c) = IF Takes(s, c) \/ s.cds = Unknown THEN s.cds
                    ELSE IF c.cd # "" /\ c.pipe = "none" THEN Append(s.cds, c.cd) ELSE Unknown
  BY DEF Moved
<1>5. s.cds # Unknown
  BY <1>3, <1>4, Zenon
<1>6. \/ Takes(s, c) /\ t.cds = s.cds
      \/ c.cd # "" /\ c.pipe = "none" /\ t.cds = Append(s.cds, c.cd)
  BY <1>3, <1>4, <1>5, Zenon
<1> QED BY <1>3, <1>5, <1>6 DEF Taken

LEMMA CdIsNotTaken ==
    ASSUME NEW l \in Seq(Command), NEW n \in 1 .. Len(l), l[n].cd # ""
    PROVE  ~Taken(l, n)
<1>1. l[n] \in Command
  BY WalkedAt
<1>2. l[n].search = "no"
  BY <1>1, CommandFields
<1> QED BY <1>2 DEF Taken, Takes, Alone, Reads

LEMMA OtherAfter ==
    ASSUME NEW l \in Seq(Command), NEW n \in 1 .. Len(l)
    PROVE  /\ ~Before0(l, n + 1).other => Taken(l, n) /\ ~Before0(l, n).other
           /\ ~Taken(l, n) /\ l[n].env => Before0(l, n + 1).env
<1> DEFINE s == Before0(l, n)  c == l[n]  t == Before0(l, n + 1)
<1>1. t = Walk(s, c)
  BY WalkedAt
<1>2. t.other = (s.other \/ ~Takes(s, c)) /\ t.env = (s.env \/ (~Takes(s, c) /\ c.env))
  BY <1>1, WalkFlags
<1> HIDE DEF s, c, t
<1>3. (~t.other => Takes(s, c) /\ ~s.other) /\ (~Takes(s, c) /\ c.env => t.env)
  BY <1>2, Zenon
<1> QED BY <1>3 DEF Taken, s, c, t

\* A command the shell comes to that leaves the directory as it is.
LEMMA WhereStays ==
    ASSUME NEW l \in Seq(Command), NEW n \in 1 .. Len(l), NEW d, NEW st, NEW st2, Where(l, n, d, st),
           \/ st2 = st /\ st = "fail" /\ (NoOr(l) => n > 1 /\ l[n - 1].sep = "&&")
           \/ /\ Taken(l, n)
              /\ NoOr(l) => ~ (st = "fail" /\ n > 1 /\ l[n - 1].sep = "&&")
           \/ ~Taken(l, n) /\ NoOr(l) /\ Before0(l, n + 1).cds = Unknown
    PROVE  Where(l, n + 1, d, st2)
<1> DEFINE s == Before0(l, n)  c == l[n]  t == Before0(l, n + 1)
<1>1. ~t.other => d = <<>>
  BY OtherAfter DEF Where
<1>2. ASSUME NoOr(l), t.cds # Unknown
      PROVE  t.cds = d \/ (st2 = "fail" /\ c.sep = "&&" /\ t.cds # <<>>)
  <2>1. /\ s.cds # Unknown /\ (c.sep = "&&" \/ t.cds = <<>>)
        /\ (Taken(l, n) /\ t.cds = s.cds) \/ (c.cd # "" /\ t.cds = Append(s.cds, c.cd))
    BY <1>2, StillKnown
  <2>2. d = s.cds \/ (st = "fail" /\ n > 1 /\ l[n - 1].sep = "&&" /\ s.cds # <<>>)
    BY <2>1, <1>2 DEF Where
  <2>3. s.cds \in Seq(Dir) /\ c.cd \in Dir
    BY WalkedAt, CommandFields DEF Known
  <2>4. Append(s.cds, c.cd) # <<>>
    BY <2>3
  <2>5. c.cd # "" => ~Taken(l, n)
    BY CdIsNotTaken
  <2> HIDE DEF s, c, t
  <2> QED BY <2>1, <2>2, <2>4, <2>5, <1>2 DEF t
<1>3. n + 1 > 1 /\ (n + 1) - 1 = n
  OBVIOUS
<1> QED BY <1>1, <1>2, <1>3 DEF Where

LEMMA Next1 == \A n \in Nat \ {0} : n + 1 > 1 /\ (n + 1) - 1 = n
OBVIOUS

LEMMA Positive == \A k, n : n \in 1 .. k => n \in Nat \ {0}
OBVIOUS

LEMMA Longer == \A D, u, x : u \in Seq(D) /\ x \in D => Append(u, x) # <<>>
<1> SUFFICES ASSUME NEW D, NEW u \in Seq(D), NEW x \in D PROVE Append(u, x) # <<>>
  OBVIOUS
<1>1. Len(Append(u, x)) = Len(u) + 1 /\ Len(u) \in Nat
  OBVIOUS
<1> QED BY <1>1

LEMMA WhereMoves ==
    ASSUME NEW l \in Seq(Command), NEW n \in 1 .. Len(l), NEW d, NEW st, NEW d2, NEW st2, Where(l, n, d, st),
           l[n].cd # "", NoOr(l) => ~ (st = "fail" /\ n > 1 /\ l[n - 1].sep = "&&"),
           d2 = Append(d, l[n].cd) \/ (d2 = d /\ st2 = "fail")
    PROVE  Where(l, n + 1, d2, st2)
<1> DEFINE s == Before0(l, n)  c == l[n]  t == Before0(l, n + 1)
<1>1. ~Taken(l, n)
  BY CdIsNotTaken
<1>2. t.other
  BY <1>1, OtherAfter
<1>3. ASSUME NoOr(l), t.cds # Unknown
      PROVE  t.cds = d2 \/ (st2 = "fail" /\ c.sep = "&&" /\ t.cds # <<>>)
  <2>1. s.cds # Unknown /\ (c.sep = "&&" \/ t.cds = <<>>) /\ t.cds = Append(s.cds, c.cd)
    BY <1>1, <1>3, StillKnown
  <2>2. d = s.cds
    BY <2>1, <1>3 DEF Where
  <2>3. s.cds \in Seq(Dir) /\ c.cd \in Dir
    BY WalkedAt, CommandFields DEF Known
  <2>4. Append(s.cds, c.cd) # <<>>
    BY <2>3, Longer, Zenon
  <2> HIDE DEF s, c, t
  <2> QED BY <2>1, <2>2, <2>4 DEF c
<1>4. n + 1 > 1 /\ (n + 1) - 1 = n
  <2>1. n \in Nat \ {0}
    BY Zenon, Positive
  <2> QED BY <2>1, Next1, Zenon
<1> QED BY <1>2, <1>3, <1>4 DEF Where

\* What the hook checked of a line it rewrites.
LEMMA DecideIs ==
    ASSUME NEW l \in Seq(Command), NEW a, NEW w, Decide(l, a, w).ok
    PROVE  LET r == Decide(l, a, w)  e == Walked(l)[Len(l)]
           IN  /\ r.parts = e.parts /\ ~e.env /\ (a = "codex" => ~e.other)
               /\ \A k \in DOMAIN r.parts :
                    /\ r.parts[k].glob => <<>> \in w.literal
                    /\ r.parts[k].lone => /\ r.parts[k].cds # Unknown
                                          /\ Append(r.parts[k].cds, "d") \in w.dirs
<1> DEFINE r == Decide(l, a, w)  e == Walked(l)[Len(l)]  full == RewriteFull(l)
           stands == {full.parts[i] : i \in DOMAIN full.parts}
<1>1. /\ full.parts = e.parts /\ full.ok = (e.parts # <<>> /\ ~e.env) /\ full.whole = (~e.other /\ ~e.readers)
  BY DEF RewriteFull
<1>2. /\ r = full /\ full.ok /\ (a = "codex" => full.whole)
      /\ \A p \in stands : p.glob => <<>> \in w.literal
      /\ \A p \in stands : p.lone => p.cds # Unknown /\ Append(p.cds, "d") \in w.dirs
  BY DEF Decide
<1>3. \A k \in DOMAIN full.parts : full.parts[k] \in stands
  OBVIOUS
<1> HIDE DEF full, stands
<1>4. ~e.env /\ (a = "codex" => ~e.other)
  BY <1>1, <1>2, Zenon
<1> QED BY <1>1, <1>2, <1>3, <1>4

\* The parts of a rewritten line, by the command they stand for.
LEMMA RewrittenAre ==
    ASSUME NEW l \in Seq(Command), NEW a, NEW w, Decide(l, a, w).ok, NEW n \in 1 .. Len(l)
    PROVE  LET r == Decide(l, a, w)
           IN  /\ (\E k \in DOMAIN r.parts : r.parts[k].at = n) <=> Taken(l, n)
               /\ \A k \in DOMAIN r.parts : r.parts[k].at = n => r.parts[k] = PartOf(Before0(l, n), l[n])
<1> DEFINE e == Walked(l)[Len(l)]
<1>1. Len(l) \in 0 .. Len(l) /\ Decide(l, a, w).parts = e.parts
  BY DecideIs
<1>2. /\ \A k \in DOMAIN e.parts :
           LET p == e.parts[k]
           IN  p.at \in 1 .. Len(l) /\ Taken(l, p.at) /\ p = PartOf(Before0(l, p.at), l[p.at])
      /\ \A j \in 1 .. Len(l) : Taken(l, j) => \E k \in DOMAIN e.parts : e.parts[k].at = j
  BY <1>1, PartsAre
<1> HIDE DEF e
<1>3. (\E k \in DOMAIN e.parts : e.parts[k].at = n) <=> Taken(l, n)
  BY <1>2
<1>4. \A k \in DOMAIN e.parts : e.parts[k].at = n => e.parts[k] = PartOf(Before0(l, n), l[n])
  BY <1>2
<1> QED BY <1>1, <1>3, <1>4

-----------------------------------------------------------------------------
(* The shell of an agent's call *)

Running == pc \in {"hook", "shell", "greeg"}
ShellSound ==
    /\ line \in Seq(Command)
    /\ Running => /\ rw = Decide(line, agent, world) /\ rw.ok /\ ~env
                  /\ at \in 1 .. Len(line) + 1 /\ Where(line, at, cwd, status)
    /\ pc = "greeg" => at <= Len(line) /\ Rewrites(at) /\ ~Skipped
    /\ RunsAsChecked

LEMMA ShellInit == Init => ShellSound
BY DEF Init, ShellSound, Running, RunsAsChecked

\* What a step needs that runs nothing.
LEMMA NothingRun ==
    ASSUME ShellSound, line' = line, UNCHANGED <<rw, agent, world, ran>>,
           Running' => Running /\ ~env' /\ at' \in 1 .. Len(line) + 1 /\ Where(line, at', cwd', status'),
           pc' # "greeg" \/ (pc = "greeg" /\ UNCHANGED <<at, status>>)
    PROVE  ShellSound'
<1>1. RunsAsChecked'
  BY DEF ShellSound, RunsAsChecked, Rewrites
<1>2. pc' = "greeg" => at' <= Len(line') /\ Rewrites(at)' /\ ~Skipped'
  BY DEF ShellSound, Rewrites, Skipped, Between
<1> QED BY <1>1, <1>2 DEF ShellSound, Running

LEMMA AskSound ==
    ASSUME ShellSound, NEW l \in Lines0, NEW a \in Agents, NEW w \in Worlds, Ask(l, a, w)
    PROVE  ShellSound'
<1>1. l \in Seq(Command) /\ line' = l /\ rw' = Decide(l, a, w) /\ agent' = a /\ world' = w /\ ran' = {}
      /\ at' = 1 /\ cwd' = <<>> /\ status' = "ok" /\ env' = FALSE
      /\ (Decide(l, a, w).ok \/ pc' = "idle") /\ pc' \in {"hook", "idle"}
  BY CallsAssumption DEF LinesAssumption, Ask
<1>2. RunsAsChecked'
  BY <1>1 DEF RunsAsChecked
<1>3. 1 \in 1 .. Len(l) + 1
  BY <1>1
<1>4. Before0(l, 1) = Start
  BY <1>1, WalkedSteps DEF Before0
<1>5. Where(l, 1, <<>>, "ok")
  BY <1>4 DEF Where, Start
<1> QED BY <1>1, <1>2, <1>3, <1>5 DEF ShellSound, Running

LEMMA HookSound ==
    ASSUME ShellSound, RecordHook \/ HookEnds \/ HookDies
    PROVE  ShellSound'
<1>1. line' = line /\ UNCHANGED <<rw, agent, world, ran, at, cwd, status, env>> /\ Running /\ pc' # "greeg"
  BY DEF RecordHook, HookEnds, HookDies, Running
<1> QED BY <1>1, NothingRun DEF ShellSound

\* What the shell knows of the command it comes to.
LEMMA Comes ==
    ASSUME ShellSound, Running, at <= Len(line)
    PROVE  /\ at \in 1 .. Len(line) /\ at + 1 \in 1 .. Len(line) + 1 /\ line \in Seq(Command)
           /\ Where(line, at, cwd, status) /\ ~env /\ (Rewrites(at) <=> Taken(line, at))
           /\ (Taken(line, at) \/ ~line[at].env)
           /\ NoOr(line) => (Skipped <=> status = "fail" /\ at > 1 /\ line[at - 1].sep = "&&")
<1>1. /\ line \in Seq(Command) /\ rw = Decide(line, agent, world) /\ rw.ok /\ ~env
      /\ at \in 1 .. Len(line) + 1 /\ Where(line, at, cwd, status)
  BY DEF ShellSound
<1>2. at \in 1 .. Len(line) /\ at + 1 \in 1 .. Len(line) + 1
  BY <1>1
<1>3. Rewrites(at) <=> Taken(line, at)
  BY <1>1, <1>2, RewrittenAre DEF Rewrites
<1>4. Taken(line, at) \/ ~line[at].env
  <2>1. SUFFICES ASSUME ~Taken(line, at), line[at].env PROVE FALSE
    OBVIOUS
  <2>2. Before0(line, at + 1).env /\ Before0(line, at + 1) = Walked(line)[at]
    BY <1>1, <1>2, <2>1, OtherAfter, WalkedAt
  <2>3. at \in 0 .. Len(line) /\ Len(line) \in 0 .. Len(line)
    BY <1>1, <1>2
  <2>4. Walked(line)[Len(line)].env
    BY <1>1, <1>2, <2>2, <2>3, PartsAre
  <2> QED BY <2>4, <1>1, DecideIs
<1>5. NoOr(line) => (Skipped <=> status = "fail" /\ at > 1 /\ line[at - 1].sep = "&&")
  <2>1. CASE at = 1
    BY <2>1 DEF Skipped, Between
  <2>2. CASE at # 1
    <3>1. at > 1 /\ at - 1 \in DOMAIN line /\ Between = line[at - 1].sep
      BY <2>2, <1>1, <1>2 DEF Between
    <3>2. NoOr(line) => Between # "||"
      BY <3>1 DEF NoOr
    <3> QED BY <3>1, <3>2 DEF Skipped
  <2> QED BY <2>1, <2>2
<1> QED BY <1>1, <1>2, <1>3, <1>4, <1>5

LEMMA SkipSound == ASSUME ShellSound, Skip PROVE ShellSound'
<1>1. /\ Running /\ at <= Len(line) /\ Skipped /\ at' = at + 1 /\ pc' = "shell" /\ line' = line
      /\ UNCHANGED <<rw, agent, world, ran, cwd, status, env>>
  BY DEF Skip, InShell, Past, Running
<1>2. Where(line, at + 1, cwd, status)
  <2>1. CASE status = "fail"
    BY <2>1, <1>1, Comes, WhereStays
  <2>2. CASE status # "fail"
    <3>1. ~NoOr(line)
      BY <2>2, <1>1, Comes
    <3>2. ~Before0(line, at + 1).other => cwd = <<>>
      BY <1>1, Comes, OtherAfter DEF Where
    <3> QED BY <3>1, <3>2 DEF Where
  <2> QED BY <2>1, <2>2
<1> QED BY <1>1, <1>2, Comes, NothingRun DEF Running

LEMMA CdSound == ASSUME ShellSound, Cd PROVE ShellSound'
<1>1. /\ Running /\ at <= Len(line) /\ ~Skipped /\ at' = at + 1 /\ pc' = "shell" /\ line' = line
      /\ line[at].cd # "" /\ UNCHANGED <<rw, agent, world, ran, env>>
      /\ (cwd' = Append(cwd, line[at].cd) \/ (cwd' = cwd /\ status' = "fail"))
  BY DEF Cd, InShell, Past, Running
<1>2. Where(line, at + 1, cwd', status')
  BY <1>1, Comes, WhereMoves
<1> QED BY <1>1, <1>2, Comes, NothingRun DEF Running

LEMMA OtherSound == ASSUME ShellSound, Other PROVE ShellSound'
<1>1. /\ Running /\ at <= Len(line) /\ at' = at + 1 /\ pc' = "shell" /\ line' = line
      /\ ~Rewrites(at) /\ ~ (line[at].cd # "" /\ line[at].pipe = "none")
      /\ UNCHANGED <<rw, agent, world, ran>> /\ env' = (env \/ (line[at].env /\ line[at].pipe = "none"))
  BY DEF Other, InShell, Past, Running
<1>2. ~Taken(line, at) /\ ~line[at].env /\ ~env
  BY <1>1, Comes
<1>3. Before0(line, at + 1).cds = Unknown
  BY <1>1, <1>2, Comes, StillKnown
<1>4. Before0(line, at + 1).other
  BY <1>1, <1>2, Comes, OtherAfter
<1>5. Where(line, at + 1, cwd', status')
  BY <1>3, <1>4 DEF Where
<1>6. ~env'
  BY <1>1, <1>2, Zenon
<1> QED BY <1>1, <1>5, <1>6, Comes, NothingRun DEF Running

LEMMA GreegSound == ASSUME ShellSound, Greeg PROVE ShellSound'
<1> DEFINE r == [at |-> at, cwd |-> cwd, env |-> env]  s == Before0(line, at)  p == PartOf(s, line[at])
<1>1. /\ Running /\ at <= Len(line) /\ ~Skipped /\ Rewrites(at) /\ pc' = "greeg" /\ ran' = ran \cup {r}
      /\ UNCHANGED <<line, rw, agent, world, at, cwd, status, env>>
  BY DEF Greeg, InShell, Running
<1>2. /\ line \in Seq(Command) /\ at \in 1 .. Len(line) /\ Taken(line, at) /\ ~env /\ Where(line, at, cwd, status)
      /\ NoOr(line) => ~ (status = "fail" /\ at > 1 /\ line[at - 1].sep = "&&")
  BY <1>1, Comes
<1>3. rw = Decide(line, agent, world) /\ rw.ok
  BY <1>1 DEF ShellSound
<1>4. PICK k \in DOMAIN rw.parts : rw.parts[k].at = at
  BY <1>1 DEF Rewrites
<1>5. \A j \in DOMAIN rw.parts : rw.parts[j].at = at => rw.parts[j] = p
  BY <1>2, <1>3, RewrittenAre
<1>6. rw.parts[k] = p
  BY <1>4, <1>5
<1>7. (CHOOSE q \in Range(rw.parts) : q.at = r.at) = p
  <2>1. Range(rw.parts) = {rw.parts[j] : j \in DOMAIN rw.parts}
    BY DEF Range
  <2>2. p \in Range(rw.parts) /\ p.at = at /\ \A q \in Range(rw.parts) : q.at = at => q = p
    BY <2>1, <1>4, <1>5, <1>6
  <2> HIDE DEF p
  <2> QED BY <2>2
<1>8. /\ p.glob => <<>> \in world.literal
      /\ p.lone => p.cds # Unknown /\ Append(p.cds, "d") \in world.dirs
  BY <1>2, <1>3, <1>4, <1>6, DecideIs
<1>9. p.glob = line[at].glob /\ p.afterOther = s.other /\ p.cds = s.cds
  BY DEF PartOf
<1>10. line[at].glob => ~s.other
  BY <1>2 DEF Taken, Takes
<1>11. ~s.other => cwd = <<>>
  BY <1>2 DEF Where
<1>12. NoOr(line) /\ s.cds # Unknown => cwd = s.cds
  BY <1>2 DEF Where
<1>13. agent = "codex" => \A i \in DOMAIN line : Rewrites(i)
  <2>1. SUFFICES ASSUME agent = "codex", NEW i \in DOMAIN line PROVE Rewrites(i)
    OBVIOUS
  <2>2. i \in 1 .. Len(line) /\ Len(line) \in 0 .. Len(line)
    BY <1>2
  <2>3. ~Walked(line)[Len(line)].other
    BY <2>1, <1>2, <1>3, DecideIs
  <2>4. Taken(line, i)
    BY <2>2, <2>3, <1>2, PartsAre
  <2> QED BY <2>2, <2>4, <1>2, <1>3, RewrittenAre DEF Rewrites
<1>14. /\ ~r.env /\ (p.glob => r.cwd \in world.literal) /\ (~p.afterOther => r.cwd = <<>>)
       /\ p.lone /\ NoOr(line) => Append(r.cwd, "d") \in world.dirs
  <2> HIDE DEF p, s
  <2>1. p.glob => cwd \in world.literal
    BY <1>8, <1>9, <1>10, <1>11
  <2>2. ~p.afterOther => cwd = <<>>
    BY <1>9, <1>11
  <2>3. p.lone /\ NoOr(line) => Append(cwd, "d") \in world.dirs
    BY <1>8, <1>9, <1>12
  <2> QED BY <2>1, <2>2, <2>3, <1>2
<1> HIDE DEF r, p, s
<1>15. RunsAsChecked'
  <2>1. RunsAsChecked
    BY DEF ShellSound
  <2> SUFFICES ASSUME NEW x \in ran'
               PROVE  LET q == CHOOSE q \in Range(rw.parts) : q.at = x.at IN
                      /\ ~x.env
                      /\ q.glob => x.cwd \in world.literal
                      /\ ~q.afterOther => x.cwd = <<>>
                      /\ q.lone /\ (\A i \in DOMAIN line : line[i].sep # "||") => Append(x.cwd, "d") \in world.dirs
                      /\ agent = "codex" => \A i \in DOMAIN line : Rewrites(i)
    BY <1>1 DEF RunsAsChecked, Rewrites
  <2>2. CASE x \in ran
    BY <2>1, <2>2 DEF RunsAsChecked
  <2>3. CASE x = r
    BY <2>3, <1>7, <1>13, <1>14 DEF NoOr
  <2> QED BY <2>2, <2>3, <1>1
<1>16. Rewrites(at)' /\ ~Skipped'
  BY <1>1 DEF Rewrites, Skipped, Between
<1> QED BY <1>1, <1>2, <1>3, <1>15, <1>16 DEF ShellSound, Running

LEMMA GreegEndsSound == ASSUME ShellSound, GreegEnds PROVE ShellSound'
<1>1. /\ Running /\ at <= Len(line) /\ ~Skipped /\ Rewrites(at) /\ at' = at + 1 /\ pc' = "shell" /\ line' = line
      /\ UNCHANGED <<rw, agent, world, ran, cwd, env>>
  BY DEF GreegEnds, Past, Running, ShellSound
<1>2. Where(line, at + 1, cwd, status')
  BY <1>1, Comes, WhereStays
<1> QED BY <1>1, <1>2, Comes, NothingRun DEF Running

LEMMA ShellStep == ShellSound /\ [Next]_vars => ShellSound'
<1> SUFFICES ASSUME ShellSound, [Next]_vars PROVE ShellSound'
  OBVIOUS
<1>1. CASE UNCHANGED shell
  BY <1>1, NothingRun DEF shell, ShellSound, Running
<1>2. CASE LineEnds
  BY <1>2, NothingRun DEF LineEnds, Running
<1>3. ASSUME NEW w \in WordLists, Explain(w) PROVE ShellSound'
  BY <1>3, NothingRun DEF Explain, Running
<1>4. ASSUME NEW w \in Writers, NEW k, Elsewhere(w, k) PROVE UNCHANGED shell
  BY <1>4 DEF Elsewhere
<1> QED BY <1>1, <1>2, <1>3, <1>4, AskSound, HookSound, SkipSound, CdSound, OtherSound, GreegSound, GreegEndsSound
        DEF Next, vars

\* The calls of the run are an agent's.
LEMMA CallsAreRuns == PartsSpec => Spec
<1>1. PartsInit => Init
  BY DEF PartsInit
<1>2. [PartsNext]_parts => [Next]_vars
  BY DEF PartsNext, parts, vars
<1> QED BY <1>1, <1>2, PTL DEF PartsSpec, Spec

\* Whatever line an agent sends, what the hook checked of a search before it
\* rewrote it holds where the shell comes to run it: in the directory that was
\* checked, in the environment that was, and for Codex with nothing but rewritten
\* commands around it (rewrite.rs `rewrite_full`, hook.rs `decide`).
THEOREM RewritesRunAsChecked == PartsSpec => []RunsAsChecked
<1>1. ShellSound => RunsAsChecked
  BY DEF ShellSound
<1> QED BY <1>1, ShellInit, ShellStep, CallsAreRuns, PTL DEF Spec

-----------------------------------------------------------------------------
(* Pairing the runs of a report *)

\* The last of some events.
LEMMA LastOf ==
    ASSUME NEW e, NEW n \in Nat, NEW T \in Nat, NEW S \in SUBSET (1 .. n), S # {},
           \A i \in S : e[i].ts \in 0 .. T
    PROVE  \E i \in S : \A j \in S : i = j \/ Before(e, j, i)
<1>0. \A j \in S : e[j].ts \in Nat /\ T - e[j].ts \in Nat /\ j \in Nat
  <2> SUFFICES ASSUME NEW j \in S PROVE e[j].ts \in Nat /\ T - e[j].ts \in Nat /\ j \in Nat
    OBVIOUS
  <2>1. e[j].ts \in 0 .. T /\ j \in 1 .. n
    OBVIOUS
  <2> QED BY <2>1
<1> DEFINE U == {T - e[j].ts : j \in S}
<1>1. PICK u \in U : \A v \in U : u <= v
  <2>1. U \in SUBSET Nat /\ U # {}
    BY <1>0
  <2> QED BY <2>1, Least
<1>2. PICK k \in S : u = T - e[k].ts
  OBVIOUS
<1>3. \A j \in S : e[j].ts <= e[k].ts
  <2> SUFFICES ASSUME NEW j \in S PROVE e[j].ts <= e[k].ts
    OBVIOUS
  <2>1. T - e[k].ts <= T - e[j].ts
    BY <1>1, <1>2
  <2>2. e[k].ts \in Nat /\ e[j].ts \in Nat
    BY <1>0
  <2> QED BY <2>1, <2>2
<1> DEFINE back == {n - j : j \in {i \in S : e[i].ts = e[k].ts}}
<1>4. PICK w \in back : \A v \in back : w <= v
  <2>1. back \in SUBSET Nat /\ back # {}
    OBVIOUS
  <2> QED BY <2>1, Least
<1>5. PICK i \in S : e[i].ts = e[k].ts /\ w = n - i
  OBVIOUS
<1>6. \A j \in S : e[j].ts = e[k].ts => j <= i
  <2> SUFFICES ASSUME NEW j \in S, e[j].ts = e[k].ts PROVE j <= i
    OBVIOUS
  <2>1. n - i <= n - j
    BY <1>4, <1>5
  <2> QED BY <2>1
<1>7. ASSUME NEW j \in S, j # i PROVE Before(e, j, i)
  <2>1. e[j].ts <= e[i].ts /\ e[j].ts \in Nat /\ e[i].ts \in Nat /\ i \in Nat /\ j \in Nat
    BY <1>0, <1>3, <1>5
  <2>2. e[j].ts = e[i].ts => j <= i
    BY <1>5, <1>6
  <2> QED BY <2>1, <2>2, <1>7 DEF Before
<1> QED BY <1>7

\* The hooks run r may take, if the runs before it took what f says.
Free(e, f, r) == {h \in OfKind(e, "hook") : Fits(e[h], e[r])
                                            /\ \A q \in OfKind(e, "run") : Before(e, q, r) => f[q] # h}
Pick(e, f, r) == IF Free(e, f, r) = {} THEN None ELSE Best(e, Free(e, f, r))

\* Runs before event i of time t.
Until(e, t, i) == {q \in OfKind(e, "run") : e[q].ts < t \/ (e[q].ts = t /\ q < i)}
Paired(e, D, f) == DOMAIN f = D /\ \A r \in D : f[r] = Pick(e, f, r)

LEMMA PairsExist ==
    ASSUME NEW e, NEW n \in Nat, DOMAIN e = 1 .. n, NEW T \in Nat,
           \A q \in OfKind(e, "run") : e[q].ts \in 0 .. T
    PROVE  \E f : Paired(e, OfKind(e, "run"), f)
<1> DEFINE those == OfKind(e, "run")
           Solved(t, i) == \E f : Paired(e, Until(e, t, i), f)
           D == {t \in 0 .. T + 1 : \E i \in 1 .. n + 1 : ~Solved(t, i)}
<1>0. those \in SUBSET (1 .. n) /\ \A q \in those : e[q].ts \in Nat
  BY DEF OfKind
<1>1. SUFFICES ASSUME D # {} PROVE FALSE
  <2>1. Solved(T + 1, 1)
    <3>1. T + 1 \in 0 .. T + 1 /\ 1 \in 1 .. n + 1
      OBVIOUS
    <3> HIDE DEF Solved
    <3> QED BY <1>1, <3>1
  <2>2. Until(e, T + 1, 1) = those
    BY <1>0 DEF Until
  <2> QED BY <2>1, <2>2
<1>2. PICK t \in D : \A u \in D : t <= u
  <2>1. D \in SUBSET Nat
    OBVIOUS
  <2> QED BY <2>1, <1>1, Least
<1> DEFINE I == {i \in 1 .. n + 1 : ~Solved(t, i)}
<1>3. PICK i \in I : \A j \in I : i <= j
  <2>1. I \in SUBSET Nat /\ I # {}
    BY <1>2
  <2> QED BY <2>1, Least
<1>4. CASE i = 1
  <2>1. CASE t = 0
    <3>1. Until(e, t, i) = {}
      BY <1>0, <1>4, <2>1 DEF Until
    <3>2. Paired(e, {}, [r \in {} |-> None])
      BY DEF Paired
    <3> QED BY <3>1, <3>2, <1>3
  <2>2. CASE t # 0
    <3>1. t - 1 \in 0 .. T + 1 /\ ~ (t <= t - 1) /\ n + 1 \in 1 .. n + 1
      BY <2>2
    <3>2. Solved(t - 1, n + 1)
      BY <3>1, <1>2
    <3>3. Until(e, t, i) = Until(e, t - 1, n + 1)
      BY <1>0, <1>4, <3>1 DEF Until
    <3> QED BY <3>2, <3>3, <1>3
  <2> QED BY <2>1, <2>2
<1>5. CASE i # 1
  <2> DEFINE m == i - 1
  <2>1. m \in 1 .. n + 1 /\ m \in 1 .. n /\ ~ (i <= m) /\ i = m + 1
    BY <1>5
  <2>2. PICK f : Paired(e, Until(e, t, m), f)
    BY <2>1, <1>3
  <2>3. CASE m \notin those \/ e[m].ts # t
    <3>1. Until(e, t, i) = Until(e, t, m)
      BY <2>1, <2>3, <1>0 DEF Until
    <3> QED BY <3>1, <2>2, <1>3
  <2>4. CASE m \in those /\ e[m].ts = t
    <3> DEFINE A == Until(e, t, m)
               g == [r \in A \cup {m} |-> IF r = m THEN Pick(e, f, m) ELSE f[r]]
    <3>1. Until(e, t, i) = A \cup {m} /\ m \notin A
      BY <2>1, <2>4, <1>0 DEF Until
    <3>2. \A r \in A \cup {m}, q \in those : Before(e, q, r) => q \in A
      <4> SUFFICES ASSUME NEW r \in A \cup {m}, NEW q \in those, Before(e, q, r) PROVE q \in A
        OBVIOUS
      <4>1. r \in those /\ (e[r].ts < t \/ (e[r].ts = t /\ r <= m))
        BY <2>1, <2>4, <1>0 DEF Until
      <4>2. e[q].ts < e[r].ts \/ (e[q].ts = e[r].ts /\ q < r)
        BY DEF Before
      <4>3. q \in Nat /\ r \in Nat /\ e[q].ts \in Nat /\ e[r].ts \in Nat /\ t \in Nat
        BY <4>1, <1>0
      <4>4. e[q].ts < t \/ (e[q].ts = t /\ q < m)
        BY <2>1, <4>1, <4>2, <4>3
      <4> QED BY <4>4 DEF Until
    <3>3. \A r \in A \cup {m} : Pick(e, g, r) = Pick(e, f, r)
      <4> SUFFICES ASSUME NEW r \in A \cup {m} PROVE Free(e, g, r) = Free(e, f, r)
        BY DEF Pick
      <4>1. \A q \in those : Before(e, q, r) => g[q] = f[q]
        BY <3>1, <3>2
      <4> HIDE DEF g, A
      <4> QED BY <4>1 DEF Free
    <3>4. \A r \in A \cup {m} : g[r] = Pick(e, g, r)
      BY <3>3, <2>2 DEF Paired
    <3>5. Paired(e, A \cup {m}, g)
      BY <3>4 DEF Paired
    <3> QED BY <3>1, <3>5, <1>3
  <2> QED BY <2>3, <2>4
<1> QED BY <1>4, <1>5

LEMMA PairsIs ==
    ASSUME NEW e, \E f : Paired(e, OfKind(e, "run"), f)
    PROVE  Paired(e, OfKind(e, "run"), Pairs(e))
<1> DEFINE those == OfKind(e, "run")
           F(f) == f = [r \in those |-> Pick(e, f, r)]
<1>1. PICK g : DOMAIN g = those /\ \A r \in those : g[r] = Pick(e, g, r)
  BY DEF Paired
<1>2. PICK f : F(f)
  <2> DEFINE k == [r \in those |-> g[r]]
  <2>1. \A r \in those : Free(e, k, r) = Free(e, g, r)
    BY DEF Free
  <2>2. \A r \in those : Pick(e, k, r) = Pick(e, g, r)
    BY <2>1 DEF Pick
  <2>3. F(k)
    BY <1>1, <2>2
  <2> QED BY <2>3
<1> DEFINE h == CHOOSE c : F(c)
<1>3. F(h)
  BY <1>2
<1>4. Pairs(e) = h
  BY DEF Pairs, Pick, Free
<1> HIDE DEF h
<1> QED BY <1>3, <1>4 DEF Paired

\* A run takes a hook that nothing of its command came after.
LEMMA PairsOwn ==
    ASSUME NEW e, NEW n \in Nat, DOMAIN e = 1 .. n, NEW T \in Nat,
           \A i \in DOMAIN e : Readable(e[i]) => e[i].ts \in 0 .. T,
           NEW r \in OfKind(e, "run"), NEW h \in OfKind(e, "hook"), Fits(e[h], e[r]),
           \A k \in DOMAIN e :
               (Readable(e[k]) /\ e[k].id = e[r].id /\ e[h].ts <= e[k].ts /\ e[k].ts <= e[r].ts)
               => k \in {h, r}
    PROVE  Pairs(e)[r] = h
<1> DEFINE p == Pairs(e)  those == OfKind(e, "run")  hooks == OfKind(e, "hook")
<1>1. /\ those \in SUBSET (1 .. n) /\ hooks \in SUBSET (1 .. n)
      /\ \A i \in those : e[i].kind = "run" /\ e[i].ts \in 0 .. T /\ Readable(e[i])
      /\ \A i \in hooks : e[i].kind = "hook" /\ e[i].ts \in 0 .. T /\ Readable(e[i])
  BY DEF OfKind, Readable
<1>2. Paired(e, those, p)
  BY <1>1, PairsExist, PairsIs
<1> HIDE DEF p
<1>3. \A q \in those : Free(e, p, q) # {} => p[q] \in Free(e, p, q)
                      /\ \A j \in Free(e, p, q) : p[q] = j \/ Before(e, j, p[q])
  <2> SUFFICES ASSUME NEW q \in those, Free(e, p, q) # {}
               PROVE  p[q] \in Free(e, p, q) /\ \A j \in Free(e, p, q) : p[q] = j \/ Before(e, j, p[q])
    OBVIOUS
  <2> DEFINE S == Free(e, p, q)
  <2>1. p[q] = CHOOSE i \in S : \A j \in S : i = j \/ Before(e, j, i)
    BY <1>2 DEF Paired, Pick, Best
  <2>2. S \in SUBSET hooks
    BY DEF Free
  <2>3. S \in SUBSET (1 .. n) /\ \A i \in S : e[i].ts \in 0 .. T
    BY <1>1, <2>2
  <2> HIDE DEF S
  <2>4. \E i \in S : \A j \in S : i = j \/ Before(e, j, i)
    BY <2>3, LastOf DEF S
  <2> QED BY <2>1, <2>4 DEF S
<1>4. \A q \in those : Free(e, p, q) = {} => p[q] = None
  BY <1>2 DEF Paired, Pick
<1>5. ASSUME NEW q \in those, p[q] = h
      PROVE  Fits(e[h], e[q])
  <2>1. h # None
    BY <1>1 DEF None
  <2>2. h \in Free(e, p, q)
    BY <1>3, <1>4, <1>5, <2>1
  <2> QED BY <2>2 DEF Free
<1>6. ASSUME NEW q \in those, Before(e, q, r) PROVE p[q] # h
  <2>1. SUFFICES ASSUME p[q] = h PROVE FALSE
    OBVIOUS
  <2>2. Fits(e[h], e[q])
    BY <2>1, <1>5
  <2>3. e[q].id = e[r].id /\ e[h].ts <= e[q].ts
    BY <2>2 DEF Fits
  <2>4. e[q].ts <= e[r].ts /\ q # r
    BY <1>6, <1>1 DEF Before
  <2>5. q \in DOMAIN e /\ q # h
    <3>1. "run" # "hook"
      OBVIOUS
    <3> QED BY <1>1, <3>1
  <2> QED BY <2>3, <2>4, <2>5, <1>1
<1>7. h \in Free(e, p, r)
  BY <1>6 DEF Free
<1>8. ASSUME NEW j \in Free(e, p, r), j # h PROVE e[j].ts < e[h].ts
  <2>1. j \in hooks /\ e[j].id = e[r].id /\ e[j].ts <= e[r].ts
    BY DEF Free, Fits
  <2>2. j \in DOMAIN e /\ j # r
    <3>1. "run" # "hook"
      OBVIOUS
    <3> QED BY <1>1, <2>1, <3>1
  <2>3. ~ (e[h].ts <= e[j].ts)
    BY <2>1, <2>2, <1>1, <1>8
  <2> QED BY <2>1, <2>3, <1>1
<1>9. p[r] \in Free(e, p, r) /\ (p[r] = h \/ Before(e, h, p[r]))
  BY <1>3, <1>7
<1>10. p[r] # h => ~Before(e, h, p[r])
  <2>1. SUFFICES ASSUME p[r] # h PROVE ~Before(e, h, p[r])
    OBVIOUS
  <2>2. e[p[r]].ts < e[h].ts
    BY <2>1, <1>8, <1>9
  <2>3. p[r] \in hooks
    BY <1>9 DEF Free
  <2> QED BY <2>2, <2>3, <1>1 DEF Before
<1> QED BY <1>9, <1>10 DEF p

-----------------------------------------------------------------------------
(* What a line of the log is, and what a write makes of a file *)

Ids == (Seq(Dir) \X Dir) \cup {""}
Bys == (Nat \X Nat) \cup {<<w>> : w \in Writers} \cup {""}
LogLine == [kind : {"hook", "run", "piece", "joined"}, id : Ids, by : Bys, ts : Nat]

LEMMA PieceIs == Piece \in LogLine /\ ~Readable(Piece)
BY DEF Piece, LogLine, Readable, Ids, Bys

\* A file keeps what can be read in it.
Keeps(u, v) ==
    /\ Len(u) <= Len(v)
    /\ \A j \in DOMAIN u : Readable(u[j]) => j \in DOMAIN v /\ v[j] = u[j]

LEMMA OneMore ==
    ASSUME NEW S, NEW f \in Seq(S), NEW x \in S
    PROVE  /\ f \o <<x>> \in Seq(S) /\ Len(f \o <<x>>) = Len(f) + 1 /\ (f \o <<x>>)[Len(f) + 1] = x
           /\ \A i \in 1 .. Len(f) : (f \o <<x>>)[i] = f[i]
OBVIOUS

LEMMA WrittenIs ==
    ASSUME NEW u \in Seq(LogLine), NEW r \in LogLine, r = Piece \/ Readable(r)
    PROVE  LET v == Written(u, r)
           IN  /\ v \in Seq(LogLine) /\ Keeps(u, v)
               /\ \A j \in DOMAIN v : Readable(v[j]) =>
                    (j \in DOMAIN u /\ v[j] = u[j]) \/ (j = Len(u) + 1 /\ v[j] = r /\ ~Joined(u))
               /\ ~Joined(u) => Len(u) + 1 \in DOMAIN v /\ v[Len(u) + 1] = r
<1> DEFINE v == Written(u, r)
<1>1. CASE ~Joined(u)
  <2>1. v = Append(u, r)
    BY <1>1 DEF Written
  <2> QED BY <2>1, <1>1 DEF Keeps
<1>2. CASE Joined(u)
  <2> DEFINE x == IF r = Piece THEN Piece ELSE [r EXCEPT !.kind = "joined"]
             m == Len(u)
  <2>1. m \in Nat /\ m >= 1 /\ u[m].kind = "piece"
    BY <1>2 DEF Joined, Last
  <2>2. x \in LogLine /\ ~Readable(x)
    BY PieceIs DEF LogLine, Readable
  <2>3. v = Front(u) \o <<x>>
    BY <1>2 DEF Written
  <2>4. Front(u) = [i \in 1 .. m - 1 |-> u[i]]
    BY <2>1 DEF Front
  <2>5. Front(u) \in Seq(LogLine) /\ Len(Front(u)) = m - 1
    BY <2>1, <2>4
  <2> HIDE DEF x
  <2>6. v \in Seq(LogLine) /\ Len(v) = m /\ v[m] = x /\ \A i \in 1 .. m - 1 : v[i] = u[i]
    <3>1. PICK f \in Seq(LogLine) : f = Front(u)
      BY <2>5
    <3>2. /\ v \in Seq(LogLine) /\ Len(v) = Len(f) + 1 /\ v[Len(f) + 1] = x
          /\ \A i \in 1 .. Len(f) : v[i] = f[i]
      BY <3>1, <2>2, <2>3, OneMore
    <3>3. Len(f) = m - 1 /\ Len(f) + 1 = m /\ \A i \in 1 .. m - 1 : f[i] = u[i]
      BY <3>1, <2>1, <2>4, <2>5
    <3> HIDE DEF v, m
    <3> QED BY <3>2, <3>3
  <2>7. ~Readable(u[m])
    BY <2>1 DEF Readable
  <2>8. \A j \in 1 .. m : j = m \/ j \in 1 .. m - 1
    BY <2>1
  <2> HIDE DEF v
  <2> QED BY <1>2, <2>1, <2>2, <2>6, <2>7, <2>8 DEF Keeps, v
<1> QED BY <1>1, <1>2

-----------------------------------------------------------------------------
(* The files of the log and what is written in them *)

Steps == {"idle", "create", "open", "size", "lock", "again", "rename", "recreate", "reopen", "check", "write"}
Entry == [pc : Steps, rec : LogLine, fd : Nat, rot : Nat]

\* Where the file i is that was opened after r rotations.
Kept2(i, r) ==
    \/ i \in cleared \/ r + 2 <= rotations
    \/ r = rotations /\ i = current
    \/ r + 1 = rotations /\ i = older

FilesOk ==
    /\ data \in Seq(Seq(LogLine)) /\ rotations \in Nat /\ now \in Nat
    /\ current \in 0 .. Len(data) /\ older \in 0 .. Len(data)
    /\ current # 0 /\ older # 0 => older < current

WriterOk(e) ==
    /\ e \in Entry /\ e.fd \in 0 .. Len(data) /\ e.rot \in 0 .. rotations
    /\ e.fd # 0 => Kept2(e.fd, e.rot)
    /\ e.pc # "idle" => Readable(e.rec) /\ e.rec.ts \in 0 .. now
    /\ e.pc \in {"size", "check", "lock", "write"} => e.fd # 0

AckedOk(a) ==
    /\ a.rec \in LogLine /\ Readable(a.rec) /\ a.rec.ts \in 0 .. now
    /\ a.fd \in 1 .. Len(data) /\ a.rot \in 0 .. rotations /\ Kept2(a.fd, a.rot)
    /\ ~a.joined => \E j \in DOMAIN data[a.fd] : data[a.fd][j] = a.rec

LogOk ==
    /\ FilesOk
    /\ writer \in [Writers -> Entry] /\ \A w \in Writers : WriterOk(writer[w])
    /\ \A a \in acked : AckedOk(a)

\* What becomes of the files in one step.
Turns ==
    \/ UNCHANGED <<current, older, rotations, cleared, data>>
    \/ /\ current = 0 /\ current' = Len(data) + 1 /\ data' = Append(data, <<>>)
       /\ UNCHANGED <<older, rotations, cleared>>
    \/ /\ current # 0 /\ older' = current /\ current' = 0 /\ rotations' = rotations + 1
       /\ UNCHANGED <<data, cleared>>
    \/ /\ cleared' = cleared \cup ({current} \ {0}) /\ current' = 0 /\ UNCHANGED <<older, rotations, data>>
    \/ /\ cleared' = cleared \cup ({older} \ {0}) /\ older' = 0 /\ UNCHANGED <<current, rotations, data>>
    \/ /\ \E i \in 1 .. Len(data), r \in LogLine :
            (r = Piece \/ Readable(r)) /\ data' = [data EXCEPT ![i] = Written(data[i], r)]
       /\ UNCHANGED <<current, older, rotations, cleared>>

LEMMA TurnsFiles ==
    ASSUME FilesOk, Turns, now' \in Nat
    PROVE  /\ FilesOk' /\ Len(data) <= Len(data') /\ rotations <= rotations'
           /\ \A i \in 1 .. Len(data) : i \in 1 .. Len(data') /\ Keeps(data[i], data'[i])
           /\ \A i \in 1 .. Len(data) : data[i] \in Seq(LogLine)
<1>0. /\ data \in Seq(Seq(LogLine)) /\ rotations \in Nat /\ Len(data) \in Nat
      /\ current \in 0 .. Len(data) /\ older \in 0 .. Len(data) /\ (current # 0 /\ older # 0 => older < current)
      /\ \A i \in 1 .. Len(data) : data[i] \in Seq(LogLine)
  BY DEF FilesOk
<1>1. \A u \in Seq(LogLine) : Keeps(u, u)
  BY DEF Keeps
<1>2. CASE data' = data
  <2>1. \A i \in 1 .. Len(data) : i \in 1 .. Len(data') /\ Keeps(data[i], data'[i])
    BY <1>0, <1>1, <1>2
  <2>2. FilesOk' /\ Len(data) <= Len(data') /\ rotations <= rotations'
    BY <1>0, <1>2 DEF Turns, FilesOk
  <2> QED BY <2>1, <2>2, <1>0
<1>3. CASE /\ current = 0 /\ current' = Len(data) + 1 /\ data' = Append(data, <<>>)
           /\ UNCHANGED <<older, rotations, cleared>>
  <2>1. <<>> \in Seq(LogLine)
    OBVIOUS
  <2>2. data' \in Seq(Seq(LogLine)) /\ Len(data') = Len(data) + 1 /\ \A i \in 1 .. Len(data) : data'[i] = data[i]
    BY <2>1, <1>0, <1>3
  <2>3. \A i \in 1 .. Len(data) : i \in 1 .. Len(data') /\ Keeps(data[i], data'[i])
    BY <1>0, <1>1, <2>2
  <2>4. FilesOk'
    BY <1>0, <1>3, <2>2 DEF FilesOk
  <2>5. Len(data) <= Len(data') /\ rotations <= rotations'
    BY <2>2, <1>0, <1>3
  <2>6. \A i \in 1 .. Len(data) : data[i] \in Seq(LogLine)
    BY <1>0
  <2> QED BY <2>3, <2>4, <2>5, <2>6, Zenon
<1>4. ASSUME NEW i \in 1 .. Len(data), NEW r \in LogLine, r = Piece \/ Readable(r),
             data' = [data EXCEPT ![i] = Written(data[i], r)], UNCHANGED <<current, older, rotations, cleared>>
      PROVE  /\ FilesOk' /\ Len(data) <= Len(data') /\ rotations <= rotations'
             /\ \A j \in 1 .. Len(data) : j \in 1 .. Len(data') /\ Keeps(data[j], data'[j])
  <2>1. Written(data[i], r) \in Seq(LogLine) /\ Keeps(data[i], Written(data[i], r))
    BY <1>0, <1>4, WrittenIs
  <2>2. data' \in Seq(Seq(LogLine)) /\ Len(data') = Len(data)
        /\ \A j \in 1 .. Len(data) : data'[j] = IF j = i THEN Written(data[i], r) ELSE data[j]
    BY <2>1, <1>0, <1>4
  <2>3. \A j \in 1 .. Len(data) : j \in 1 .. Len(data') /\ Keeps(data[j], data'[j])
    BY <2>1, <2>2, <1>0, <1>1
  <2>4. FilesOk'
    BY <1>0, <1>4, <2>2 DEF FilesOk
  <2> QED BY <2>2, <2>3, <2>4, <1>0, <1>4
<1> QED BY <1>0, <1>2, <1>3, <1>4 DEF Turns

LEMMA TurnsKept ==
    ASSUME FilesOk, Turns, NEW i \in 1 .. Len(data), NEW r \in 0 .. rotations, Kept2(i, r)
    PROVE  Kept2(i, r)'
BY DEF FilesOk, Turns, Kept2

LEMMA TurnsWriter ==
    ASSUME FilesOk, Turns, now' \in Nat, now <= now', NEW e, WriterOk(e)
    PROVE  WriterOk(e)'
<1>1. Len(data) <= Len(data') /\ rotations <= rotations' /\ FilesOk'
  BY TurnsFiles
<1>2. Len(data) \in Nat /\ rotations \in Nat /\ now \in Nat /\ Len(data') \in Nat /\ rotations' \in Nat
  BY <1>1 DEF FilesOk
<1>3. e \in Entry /\ e.fd \in 0 .. Len(data) /\ e.rot \in 0 .. rotations
  BY DEF WriterOk
<1>4. e.fd # 0 => Kept2(e.fd, e.rot)'
  <2>1. e.fd # 0 => e.fd \in 1 .. Len(data) /\ Kept2(e.fd, e.rot)
    BY <1>2, <1>3 DEF WriterOk
  <2> QED BY <2>1, <1>3, TurnsKept
<1>5. e.pc # "idle" => Readable(e.rec) /\ e.rec.ts \in 0 .. now'
  BY <1>2 DEF WriterOk
<1>6. e.fd \in 0 .. Len(data') /\ e.rot \in 0 .. rotations'
  BY <1>1, <1>2, <1>3
<1> QED BY <1>3, <1>4, <1>5, <1>6 DEF WriterOk

LEMMA TurnsAcked ==
    ASSUME FilesOk, Turns, now' \in Nat, now <= now', NEW a, AckedOk(a)
    PROVE  AckedOk(a)'
<1>1. /\ Len(data) <= Len(data') /\ rotations <= rotations' /\ FilesOk'
      /\ \A i \in 1 .. Len(data) : Keeps(data[i], data'[i])
  BY TurnsFiles
<1>2. Len(data) \in Nat /\ rotations \in Nat /\ now \in Nat /\ Len(data') \in Nat /\ rotations' \in Nat
  BY <1>1 DEF FilesOk
<1>3. a.rec \in LogLine /\ Readable(a.rec) /\ a.rec.ts \in 0 .. now
      /\ a.fd \in 1 .. Len(data) /\ a.rot \in 0 .. rotations
  BY DEF AckedOk
<1>4. Kept2(a.fd, a.rot)'
  BY <1>3, TurnsKept DEF AckedOk
<1>5. ~a.joined => \E j \in DOMAIN data'[a.fd] : data'[a.fd][j] = a.rec
  BY <1>1, <1>3 DEF AckedOk, Keeps
<1>6. a.rec.ts \in 0 .. now' /\ a.fd \in 1 .. Len(data') /\ a.rot \in 0 .. rotations'
  BY <1>1, <1>2, <1>3
<1> QED BY <1>3, <1>4, <1>5, <1>6 DEF AckedOk

-----------------------------------------------------------------------------
(* Each step of the log *)

\* Records begin as they are to be written.
Starts == \E w \in Writers, r \in LogLine : Readable(r) /\ r.ts = now /\ Record(w, r)
Kills == \E w \in Writers : Killed(w)
LogMove == LogNext \/ Starts \/ Kills \/ UNCHANGED log

LEMMA WriteTurns ==
    ASSUME LogOk, NEW w \in Writers, Write(w)
    PROVE  /\ Turns
           /\ writer[w].fd \in 1 .. Len(data) /\ Readable(writer[w].rec) /\ writer[w].rec \in LogLine
           /\ data' \in {[data EXCEPT ![writer[w].fd] = Written(data[writer[w].fd], writer[w].rec)],
                         [data EXCEPT ![writer[w].fd] = Written(data[writer[w].fd], Piece)]}
<1>1. /\ writer[w].fd \in 0 .. Len(data) /\ writer[w].fd # 0 /\ Readable(writer[w].rec)
      /\ writer[w].rec \in LogLine /\ data \in Seq(Seq(LogLine))
  BY DEF LogOk, FilesOk, WriterOk, Write, Entry
<1>2. writer[w].fd \in 1 .. Len(data)
  BY <1>1
<1>3. data' \in {[data EXCEPT ![writer[w].fd] = Written(data[writer[w].fd], writer[w].rec)],
                 [data EXCEPT ![writer[w].fd] = Written(data[writer[w].fd], Piece)]}
  BY DEF Write
<1>4. UNCHANGED <<current, older, rotations, cleared>>
  BY DEF Write
<1> QED BY <1>1, <1>2, <1>3, <1>4, PieceIs DEF Turns

LEMMA Turned ==
    ASSUME LogOk, LogMove
    PROVE  Turns /\ now' \in Nat /\ now <= now'
<1>0. now \in Nat /\ FilesOk
  BY DEF LogOk, FilesOk
<1>1. ASSUME NEW w \in Writers, Create(w) PROVE Turns
  BY <1>1 DEF Create, Turns, None
<1>2. ASSUME NEW w \in Writers, Open(w) \/ Size(w) \/ Lock(w) PROVE Turns
  BY <1>2 DEF Open, Size, Lock, Turns
<1>3. ASSUME NEW w \in Writers, Again(w) PROVE Turns
  BY <1>3 DEF Again, Turns, None
<1>4. ASSUME NEW w \in Writers, Rename(w) PROVE Turns
  BY <1>4 DEF Rename, Turns, None
<1>5. ASSUME ClearCurrent PROVE Turns
  BY <1>5 DEF ClearCurrent, Turns, None
<1>6. ASSUME ClearOlder PROVE Turns
  BY <1>6 DEF ClearOlder, Turns, None
<1>7. ASSUME UNCHANGED <<current, older, rotations, cleared, data>> PROVE Turns
  BY <1>7 DEF Turns
<1>10. ReadOlder \/ ReadCurrent \/ Tick => UNCHANGED <<current, older, rotations, cleared, data>>
  BY DEF ReadOlder, ReadCurrent, Tick
<1>11. Starts \/ Kills => UNCHANGED <<current, older, rotations, cleared, data>>
  BY DEF Starts, Kills, Record, Killed
<1>12. UNCHANGED log => UNCHANGED <<current, older, rotations, cleared, data>>
  BY DEF log
<1>8. Turns
  BY <1>1, <1>2, <1>3, <1>4, <1>5, <1>6, <1>7, <1>10, <1>11, <1>12, WriteTurns DEF LogMove, LogNext
<1>9. now' = now \/ now' = now + 1
  <2>1. CASE Starts \/ Kills \/ UNCHANGED log
    BY <2>1 DEF Starts, Kills, Record, Killed, log
  <2>2. CASE LogNext
    BY <2>2 DEF LogNext, Create, Open, Size, Lock, Again, Rename, Write, ClearCurrent, ClearOlder,
                ReadOlder, ReadCurrent, Tick
  <2> QED BY <2>1, <2>2 DEF LogMove
<1> QED BY <1>0, <1>8, <1>9

LEMMA QuietOk ==
    /\ Quiet \in Entry /\ (FilesOk => WriterOk(Quiet)) /\ (FilesOk' => WriterOk(Quiet)')
<1>1. Quiet.pc = "idle" /\ Quiet.fd = 0 /\ Quiet.rot = 0
  BY DEF Quiet, None
<1>2. Quiet \in Entry
  BY PieceIs DEF Quiet, Entry, Steps, None
<1>3. FilesOk => 0 \in 0 .. Len(data) /\ 0 \in 0 .. rotations
  BY DEF FilesOk
<1>4. FilesOk' => 0 \in 0 .. Len(data') /\ 0 \in 0 .. rotations'
  BY DEF FilesOk
<1> QED BY <1>1, <1>2, <1>3, <1>4 DEF WriterOk

\* A step that changes one writer's entry, and acknowledges nothing.
LEMMA EntrySound ==
    ASSUME LogOk, LogMove, NEW w \in Writers, NEW e, writer' = [writer EXCEPT ![w] = e], WriterOk(e)',
           acked' = acked
    PROVE  LogOk'
<1>1. FilesOk /\ Turns /\ now' \in Nat /\ now <= now' /\ writer \in [Writers -> Entry]
  BY Turned DEF LogOk
<1>2. FilesOk'
  BY <1>1, TurnsFiles
<1>3. \A a \in acked' : AckedOk(a)'
  BY <1>1, TurnsAcked DEF LogOk
<1>4. e \in Entry
  BY DEF WriterOk
<1>5. writer' \in [Writers -> Entry]
  BY <1>1, <1>4
<1>6. ASSUME NEW v \in Writers PROVE WriterOk(writer[v])'
  <2>1. CASE v = w
    BY <2>1, <1>1
  <2>2. CASE v # w
    <3>1. PICK x : x = writer[v]
      OBVIOUS
    <3>2. WriterOk(x)
      BY <3>1 DEF LogOk
    <3>3. WriterOk(x)' /\ writer'[v] = x
      BY <3>1, <3>2, <2>2, <1>1, TurnsWriter
    <3> QED BY <3>3
  <2> QED BY <2>1, <2>2
<1> QED BY <1>2, <1>3, <1>5, <1>6 DEF LogOk

LEMMA StepSound ==
    ASSUME LogOk, LogMove, NEW w \in Writers, NEW pc2 \in Steps, Step(w, pc2), writer[w].pc # "idle",
           pc2 \in {"size", "check", "lock", "write"} => writer[w].fd # 0, acked' = acked
    PROVE  LogOk'
<1>1. PICK e : e = writer[w]
  OBVIOUS
<1>2. PICK x : x = [e EXCEPT !.pc = pc2]
  OBVIOUS
<1>3. writer' = [writer EXCEPT ![w] = x] /\ WriterOk(e) /\ e \in Entry
  BY <1>1, <1>2 DEF Step, LogOk
<1>4. WriterOk(e)'
  BY <1>3, Turned, TurnsWriter DEF LogOk
<1>5. x \in Entry /\ x.pc = pc2 /\ x.rec = e.rec /\ x.fd = e.fd /\ x.rot = e.rot
  BY <1>2, <1>3 DEF Entry
<1>6. WriterOk(x)'
  BY <1>1, <1>4, <1>5 DEF WriterOk, Kept2
<1> QED BY <1>3, <1>6, EntrySound

LEMMA StopSound ==
    ASSUME LogOk, LogMove, NEW w \in Writers, Stop(w), acked' = acked
    PROVE  LogOk'
<1>1. FilesOk'
  BY Turned, TurnsFiles DEF LogOk
<1>2. WriterOk(Quiet)'
  BY <1>1, QuietOk
<1>3. PICK e : e = Quiet
  OBVIOUS
<1>4. WriterOk(e)'
  BY <1>2, <1>3
<1> QED BY <1>3, <1>4, EntrySound DEF Stop

\* A file that is opened is the current one.
LEMMA OpenSound ==
    ASSUME LogOk, LogMove, NEW w \in Writers, NEW pc2 \in Steps, writer[w].pc # "idle",
           writer' = [writer EXCEPT ![w].fd = current', ![w].rot = rotations, ![w].pc = pc2],
           current' # 0, rotations' = rotations, acked' = acked
    PROVE  LogOk'
<1>1. PICK e : e = writer[w]
  OBVIOUS
<1>2. PICK x : x = [e EXCEPT !.fd = current', !.rot = rotations, !.pc = pc2]
  OBVIOUS
<1>3. writer' = [writer EXCEPT ![w] = x] /\ WriterOk(e) /\ e \in Entry /\ FilesOk
  BY <1>1, <1>2 DEF LogOk
<1>4. WriterOk(e)' /\ FilesOk'
  BY <1>3, Turned, TurnsWriter, TurnsFiles
<1>5. current' \in 0 .. Len(data') /\ rotations' \in Nat /\ Len(data') \in Nat
  BY <1>4 DEF FilesOk
<1>6. x \in Entry /\ x.pc = pc2 /\ x.rec = e.rec /\ x.fd = current' /\ x.rot = rotations'
  <2>1. e.pc \in Steps /\ e.rec \in LogLine /\ current' \in Nat /\ rotations \in Nat
        /\ e = [pc |-> e.pc, rec |-> e.rec, fd |-> e.fd, rot |-> e.rot]
    BY <1>3, <1>5 DEF Entry
  <2>2. x = [pc |-> pc2, rec |-> e.rec, fd |-> current', rot |-> rotations]
    BY <1>2, <2>1
  <2> QED BY <2>1, <2>2 DEF Entry
<1>7. Kept2(x.fd, x.rot)'
  BY <1>6 DEF Kept2
<1>8. x.pc # "idle" => Readable(x.rec) /\ x.rec.ts \in 0 .. now'
  BY <1>1, <1>4, <1>6 DEF WriterOk
<1>9. WriterOk(x)'
  BY <1>5, <1>6, <1>7, <1>8 DEF WriterOk
<1> QED BY <1>3, <1>9, EntrySound

LEMMA RecordSound ==
    ASSUME LogOk, NEW w \in Writers, NEW r \in LogLine, Readable(r), r.ts = now, Record(w, r)
    PROVE  LogOk'
<1>0. LogMove
  BY DEF LogMove, Starts
<1>1. PICK x : x = [Quiet EXCEPT !.pc = "create", !.rec = r]
  OBVIOUS
<1>2. writer' = [writer EXCEPT ![w] = x] /\ acked' = acked
  BY <1>1 DEF Record
<1>3. x \in Entry /\ x.pc = "create" /\ x.rec = r /\ x.fd = 0 /\ x.rot = 0
  BY <1>1, QuietOk DEF Quiet, Entry, Steps, None
<1>4. FilesOk'
  BY <1>0, Turned, TurnsFiles DEF LogOk
<1>5. now' = now /\ now' \in Nat
  BY <1>4 DEF Record, FilesOk
<1>6. WriterOk(x)'
  BY <1>3, <1>4, <1>5 DEF WriterOk, FilesOk
<1> QED BY <1>0, <1>2, <1>6, EntrySound

LEMMA CreateSound == ASSUME LogOk, LogMove, NEW w \in Writers, Create(w) PROVE LogOk'
<1>0. acked' = acked /\ rotations' = rotations /\ writer[w].pc \in {"create", "recreate"} /\ writer \in [Writers -> Entry]
      /\ FilesOk
  BY DEF Create, LogOk
<1>1. CASE current = None
  <2>1. PICK pc2 \in Steps : pc2 = IF writer[w].pc = "create" THEN "size" ELSE "check"
    BY DEF Steps
  <2>2. current' = Len(data) + 1
    BY <1>1 DEF Create
  <2>3. writer' = [writer EXCEPT ![w].fd = current', ![w].rot = rotations, ![w].pc = pc2]
    BY <1>0, <1>1, <2>1, <2>2 DEF Create, Entry
  <2>4. current' # 0
    BY <1>0, <2>2 DEF FilesOk
  <2> QED BY <1>0, <2>3, <2>4, OpenSound
<1>2. CASE current # None
  <2>1. PICK pc2 \in Steps : pc2 = IF writer[w].pc = "create" THEN "open" ELSE "reopen"
    BY DEF Steps
  <2>2. Step(w, pc2) /\ pc2 \notin {"size", "check", "lock", "write"}
    BY <1>2, <2>1 DEF Create
  <2> QED BY <1>0, <2>2, StepSound
<1> QED BY <1>1, <1>2

LEMMA OpenedSound == ASSUME LogOk, LogMove, NEW w \in Writers, Open(w) PROVE LogOk'
<1>0. acked' = acked /\ rotations' = rotations /\ current' = current /\ writer[w].pc \in {"open", "reopen"}
      /\ writer \in [Writers -> Entry]
  BY DEF Open, LogOk
<1>1. CASE current = None
  BY <1>0, <1>1, StopSound DEF Open
<1>2. CASE current # None
  <2>1. PICK pc2 \in Steps : pc2 = IF writer[w].pc = "open" THEN "size" ELSE "check"
    BY DEF Steps
  <2>2. writer' = [writer EXCEPT ![w].fd = current', ![w].rot = rotations, ![w].pc = pc2]
    BY <1>0, <1>2, <2>1 DEF Open, Entry
  <2> QED BY <1>0, <1>2, <2>2, OpenSound DEF None
<1> QED BY <1>1, <1>2

LEMMA SizeSound == ASSUME LogOk, LogMove, NEW w \in Writers, Size(w) PROVE LogOk'
<1>0. acked' = acked /\ writer[w].pc \in {"size", "check"} /\ writer[w].fd # 0
  BY DEF Size, LogOk, WriterOk
<1>1. CASE Stop(w)
  BY <1>0, <1>1, StopSound
<1>2. CASE Step(w, IF writer[w].pc = "size" /\ Over(writer[w].fd) THEN "lock" ELSE "write")
  <2>1. PICK pc2 \in Steps : pc2 = IF writer[w].pc = "size" /\ Over(writer[w].fd) THEN "lock" ELSE "write"
    BY DEF Steps
  <2>2. Step(w, pc2)
    BY <1>2, <2>1
  <2> QED BY <1>0, <2>2, StepSound
<1> QED BY <1>1, <1>2 DEF Size

LEMMA LockSteps == ASSUME LogOk, LogMove, NEW w \in Writers, Lock(w) \/ Again(w) \/ Rename(w) PROVE LogOk'
<1>0. acked' = acked /\ writer[w].pc # "idle"
  BY DEF Lock, Again, Rename
<1>1. CASE Stop(w)
  BY <1>0, <1>1, StopSound
<1>2. ASSUME NEW pc2 \in {"again", "rename", "recreate"}, Step(w, pc2) PROVE LogOk'
  <2>1. pc2 \in Steps
    BY DEF Steps
  <2> QED BY <1>0, <1>2, <2>1, StepSound
<1>3. Stop(w) \/ \E pc2 \in {"again", "rename", "recreate"} : Step(w, pc2)
  BY DEF Lock, Again, Rename
<1> QED BY <1>1, <1>2, <1>3

LEMMA WriteSound == ASSUME LogOk, LogMove, NEW w \in Writers, Write(w) PROVE LogOk'
<1>1. CASE acked' = acked
  BY <1>1, StopSound DEF Write
<1>2. CASE acked' # acked
  <2>1. PICK e : e = writer[w]
    OBVIOUS
  <2>2. PICK b : b = Joined(data[e.fd])
    OBVIOUS
  <2>3. PICK a : a = [rec |-> e.rec, fd |-> e.fd, rot |-> e.rot, joined |-> b]
    OBVIOUS
  <2>4. /\ acked' = acked \cup {a} /\ data' = [data EXCEPT ![e.fd] = Written(data[e.fd], e.rec)]
        /\ writer' = [writer EXCEPT ![w] = Quiet] /\ now' = now
    BY <1>2, <2>1, <2>2, <2>3 DEF Write, Stop
  <2>5. FilesOk /\ Turns /\ now' \in Nat /\ now <= now' /\ WriterOk(e) /\ e.pc = "write"
    BY <2>1, Turned DEF LogOk, Write
  <2>6. /\ e.fd \in 1 .. Len(data) /\ Readable(e.rec) /\ e.rec \in LogLine /\ data[e.fd] \in Seq(LogLine)
    BY <2>1, <2>5, WriteTurns, TurnsFiles
  <2>7. data \in Seq(Seq(LogLine))
    BY <2>5 DEF FilesOk
  <2>8. FilesOk' /\ WriterOk(e)' /\ e.fd \in 1 .. Len(data')
    BY <2>5, <2>6, TurnsFiles, TurnsWriter
  <2>9. a.rec = e.rec /\ a.fd = e.fd /\ a.rot = e.rot /\ (a.joined \/ ~b)
    BY <2>3
  <2>10. ~b => Len(data[e.fd]) + 1 \in DOMAIN data'[e.fd] /\ data'[e.fd][Len(data[e.fd]) + 1] = e.rec
    <3>1. data'[e.fd] = Written(data[e.fd], e.rec)
      BY <2>4, <2>6, <2>7
    <3> QED BY <3>1, <2>2, <2>6, WrittenIs
  <2>11. ~a.joined => \E j \in DOMAIN data'[a.fd] : data'[a.fd][j] = a.rec
    BY <2>9, <2>10
  <2>12. e.rec.ts \in 0 .. now' /\ e.rot \in 0 .. rotations' /\ Kept2(e.fd, e.rot)'
    BY <2>5, <2>6, <2>8 DEF WriterOk
  <2>13. AckedOk(a)'
    <3>1. a.rec \in LogLine /\ Readable(a.rec) /\ a.rec.ts \in 0 .. now' /\ a.fd \in 1 .. Len(data')
          /\ a.rot \in 0 .. rotations' /\ Kept2(a.fd, a.rot)'
      BY <2>6, <2>8, <2>9, <2>12
    <3> QED BY <3>1, <2>11 DEF AckedOk
  <2>14. \A x \in acked' : AckedOk(x)'
    BY <2>4, <2>5, <2>13, TurnsAcked DEF LogOk
  <2>15. WriterOk(Quiet)'
    BY <2>8, QuietOk
  <2>16. writer' \in [Writers -> Entry]
    BY <2>4, QuietOk DEF LogOk
  <2>17. ASSUME NEW v \in Writers PROVE WriterOk(writer[v])'
    <3>1. CASE v = w
      <4>1. writer'[v] = Quiet
        BY <3>1, <2>4 DEF LogOk
      <4> QED BY <4>1, <2>15
    <3>2. CASE v # w
      <4>1. PICK x : x = writer[v]
        OBVIOUS
      <4>2. WriterOk(x)' /\ writer'[v] = x
        BY <4>1, <3>2, <2>4, <2>5, TurnsWriter DEF LogOk
      <4> QED BY <4>2
    <3> QED BY <3>1, <3>2
  <2> QED BY <2>8, <2>14, <2>16, <2>17 DEF LogOk
<1> QED BY <1>1, <1>2

LEMMA LogStep == LogOk /\ LogMove => LogOk'
<1> SUFFICES ASSUME LogOk, LogMove PROVE LogOk'
  OBVIOUS
<1>1. CASE Starts
  BY <1>1, RecordSound DEF Starts
<1>2. CASE Kills
  BY <1>2, StopSound DEF Kills, Killed
<1>3. CASE UNCHANGED <<writer, acked>>
  <2>1. FilesOk' /\ Turns /\ now' \in Nat /\ now <= now' /\ FilesOk
    BY Turned, TurnsFiles DEF LogOk
  <2>2. \A a \in acked' : AckedOk(a)'
    BY <1>3, <2>1, TurnsAcked DEF LogOk
  <2>3. ASSUME NEW v \in Writers PROVE WriterOk(writer[v])'
    <3>1. PICK x : x = writer[v]
      OBVIOUS
    <3>2. WriterOk(x)' /\ writer'[v] = x
      BY <3>1, <1>3, <2>1, TurnsWriter DEF LogOk
    <3> QED BY <3>2
  <2>4. writer' \in [Writers -> Entry]
    BY <1>3 DEF LogOk
  <2> QED BY <2>1, <2>2, <2>3, <2>4 DEF LogOk
<1>4. ClearCurrent \/ ClearOlder \/ ReadOlder \/ ReadCurrent \/ Tick \/ UNCHANGED log => UNCHANGED <<writer, acked>>
  BY DEF ClearCurrent, ClearOlder, ReadOlder, ReadCurrent, Tick, log
<1> QED BY <1>1, <1>2, <1>3, <1>4, CreateSound, OpenedSound, SizeSound, LockSteps, WriteSound DEF LogMove, LogNext

LEMMA LogStart == LogInit => LogOk
<1> SUFFICES ASSUME LogInit PROVE LogOk
  OBVIOUS
<1>1. FilesOk
  BY DEF LogInit, FilesOk, None
<1>2. writer = [w \in Writers |-> Quiet] /\ acked = {}
  BY DEF LogInit
<1>3. WriterOk(Quiet)
  BY <1>1, QuietOk
<1> QED BY <1>1, <1>2, <1>3, QuietOk DEF LogOk

-----------------------------------------------------------------------------
(* Who rotates, and what *)

Locked == {"again", "rename", "recreate", "reopen", "check"}

LockOk ==
    /\ clears \in Nat
    /\ \A w \in Writers : writer[w].pc \in Locked => lock = w
    /\ \A w \in Writers : writer[w].pc = "rename" /\ clears = 0 => Over(current)
    /\ older # 0 /\ clears = 0 => Over(older)

\* What a writer's step does to the lock and to the files' places.
LockTurn(w) ==
    /\ \A v \in Writers : v # w => writer'[v] = writer[v]
    /\ lock' = lock \/ (lock = NoOne /\ lock' = w) \/ (lock = w /\ lock' = NoOne)
    /\ writer'[w].pc \in Locked => lock' = w
    /\ clears' = clears
    /\ writer'[w].pc = "rename" => Over(current) /\ current' = current /\ data' = data
    /\ older' = older \/ (writer[w].pc = "rename" /\ older' = current /\ data' = data)
    /\ current' = current \/ current = 0 \/ (writer[w].pc = "rename" /\ writer'[w].pc # "rename")

LEMMA LockTurned ==
    ASSUME LogOk, LockOk, NEW w \in Writers,
           \/ Create(w) \/ Open(w) \/ Size(w) \/ Lock(w) \/ Again(w) \/ Rename(w) \/ Write(w) \/ Killed(w)
           \/ \E r : Record(w, r)
    PROVE  LockTurn(w)
<1>0. /\ writer \in [Writers -> Entry] /\ (writer[w].pc \in Locked => lock = w) /\ writer[w] \in Entry
      /\ (Freed(w) = lock \/ (lock = w /\ Freed(w) = NoOne)) /\ Quiet.pc = "idle"
  BY DEF LogOk, LockOk, Freed, Quiet
<1>1. CASE Create(w)
  BY <1>0, <1>1 DEF Create, LockTurn, Locked, Step, None, Entry
<1>2. CASE Open(w)
  BY <1>0, <1>2 DEF Open, LockTurn, Locked, Stop, None, Entry
<1>3. CASE Size(w)
  BY <1>0, <1>3 DEF Size, LockTurn, Locked, Step, Stop, Entry
<1>4. CASE Lock(w)
  BY <1>0, <1>4 DEF Lock, LockTurn, Locked, Step, Stop, Entry
<1>5. CASE Again(w)
  BY <1>0, <1>5 DEF Again, LockTurn, Locked, Step, None, Over, Entry
<1>6. CASE Rename(w)
  BY <1>0, <1>6 DEF Rename, LockTurn, Locked, Step, Stop, Entry, None
<1>7. CASE Write(w)
  BY <1>0, <1>7 DEF Write, LockTurn, Locked, Stop, Entry
<1>8. CASE Killed(w)
  BY <1>0, <1>8 DEF Killed, LockTurn, Locked, Stop, Entry
<1>9. ASSUME NEW r, Record(w, r) PROVE LockTurn(w)
  <2>1. PICK x : x = [Quiet EXCEPT !.pc = "create", !.rec = r]
    OBVIOUS
  <2>2. x.pc = "create"
    BY <2>1 DEF Quiet
  <2>3. writer' = [writer EXCEPT ![w] = x] /\ UNCHANGED <<lock, clears, older, current, data>>
    BY <1>9, <2>1 DEF Record
  <2>4. writer'[w].pc = "create" /\ \A v \in Writers : v # w => writer'[v] = writer[v]
    BY <1>0, <2>2, <2>3
  <2> QED BY <2>3, <2>4 DEF LockTurn, Locked
<1> QED BY <1>1, <1>2, <1>3, <1>4, <1>5, <1>6, <1>7, <1>8, <1>9

\* A full file stays full.
LEMMA StaysOver ==
    ASSUME LogOk, LogMove, NEW i \in 0 .. Len(data), Over(i)
    PROVE  Over(i)'
<1>1. FilesOk /\ Turns /\ now' \in Nat /\ i \in 1 .. Len(data)
  BY Turned DEF LogOk, FilesOk, Over, None
<1>2. Len(data[i]) <= Len(data'[i]) /\ data[i] \in Seq(LogLine) /\ i \in 1 .. Len(data') /\ FilesOk'
  BY <1>1, TurnsFiles DEF Keeps
<1>3. data'[i] \in Seq(LogLine)
  BY <1>2 DEF FilesOk
<1>4. Limit \in Nat
  BY CallsAssumption DEF LimitsAssumption
<1> QED BY <1>2, <1>3, <1>4 DEF Over

LEMMA LockWriterStep ==
    ASSUME LogOk, LockOk, LogMove, NEW w \in Writers, LockTurn(w)
    PROVE  LockOk'
<1>0. NoOne \notin Writers /\ current \in 0 .. Len(data) /\ older \in 0 .. Len(data)
  BY CallsAssumption DEF WritersAssumption, LogOk, FilesOk
<1>1. ASSUME NEW v \in Writers, writer'[v].pc \in Locked PROVE lock' = v
  <2>1. CASE v = w
    BY <2>1, <1>1 DEF LockTurn
  <2>2. CASE v # w
    <3>1. lock = v
      BY <1>1, <2>2 DEF LockTurn, LockOk
    <3> QED BY <3>1, <2>2, <1>0 DEF LockTurn
  <2> QED BY <2>1, <2>2
<1>2. ASSUME NEW v \in Writers, writer'[v].pc = "rename", clears' = 0 PROVE Over(current)'
  <2>1. Over(current) /\ current' = current
    <3>1. CASE v = w
      BY <3>1, <1>2 DEF LockTurn
    <3>2. CASE v # w
      <4>1. writer[v].pc = "rename" /\ clears = 0 /\ lock = v
        BY <1>2, <3>2 DEF LockTurn, LockOk, Locked
      <4>2. Over(current) /\ current # 0
        BY <4>1 DEF LockOk, Over, None
      <4>3. writer[w].pc # "rename"
        BY <4>1, <3>2 DEF LockOk, Locked
      <4> QED BY <4>2, <4>3 DEF LockTurn
    <3> QED BY <3>1, <3>2
  <2>2. PICK i : i = current
    OBVIOUS
  <2>3. Over(i)'
    BY <2>1, <2>2, <1>0, StaysOver
  <2> QED BY <2>1, <2>2, <2>3 DEF Over
<1>3. ASSUME older' # 0, clears' = 0 PROVE Over(older)'
  <2>1. PICK i : i = older'
    OBVIOUS
  <2>2. i \in 0 .. Len(data) /\ Over(i)
    BY <1>0, <1>3, <2>1 DEF LockTurn, LockOk
  <2>3. Over(i)'
    BY <2>2, StaysOver
  <2> QED BY <2>1, <2>3 DEF Over
<1>4. clears' \in Nat
  BY DEF LockTurn, LockOk
<1> QED BY <1>1, <1>2, <1>3, <1>4 DEF LockOk

LEMMA LockOtherStep ==
    ASSUME LogOk, LockOk, LogMove, ClearCurrent \/ ClearOlder \/ ReadOlder \/ ReadCurrent \/ Tick \/ UNCHANGED log
    PROVE  LockOk'
<1>1. writer' = writer /\ lock' = lock
  BY DEF ClearCurrent, ClearOlder, ReadOlder, ReadCurrent, Tick, log
<1>2. CASE ClearCurrent
  <2>1. clears' = clears + 1 /\ clears \in Nat
    BY <1>2 DEF ClearCurrent, LockOk
  <2> QED BY <2>1, <1>1 DEF LockOk
<1>3. CASE ClearOlder
  BY <1>1, <1>3 DEF ClearOlder, LockOk, Over, None
<1>4. CASE ReadOlder \/ ReadCurrent \/ Tick \/ UNCHANGED log
  <2>1. UNCHANGED <<current, older, data, clears>>
    BY <1>4 DEF ReadOlder, ReadCurrent, Tick, log
  <2> QED BY <2>1, <1>1 DEF LockOk, Over
<1> QED BY <1>2, <1>3, <1>4

LEMMA LockStep == LogOk /\ LockOk /\ LogMove => LockOk'
<1> SUFFICES ASSUME LogOk, LockOk, LogMove PROVE LockOk'
  OBVIOUS
<1>1. \/ \E w \in Writers : LockTurn(w)
      \/ ClearCurrent \/ ClearOlder \/ ReadOlder \/ ReadCurrent \/ Tick \/ UNCHANGED log
  BY LockTurned DEF LogMove, LogNext, Starts, Kills
<1> QED BY <1>1, LockWriterStep, LockOtherStep

LEMMA LockStart == LogInit => LockOk
<1> SUFFICES ASSUME LogInit PROVE LockOk
  OBVIOUS
<1>1. clears = 0 /\ older = 0 /\ \A w \in Writers : writer[w].pc = "idle"
  BY DEF LogInit, Quiet, None
<1> QED BY <1>1 DEF LockOk, Locked

-----------------------------------------------------------------------------
(* What the log's properties say, but for its reader *)

LEMMA KeptHolds == LogOk => Kept
<1> SUFFICES ASSUME LogOk, NEW a \in acked
             PROVE  \/ a.joined \/ a.fd \in cleared \/ rotations - a.rot >= 2
                    \/ Linked(a.fd) /\ Contains(data[a.fd], a.rec)
  BY DEF Kept
<1>1. AckedOk(a) /\ FilesOk
  BY DEF LogOk
<1>2. a.fd \in 1 .. Len(data) /\ a.rot \in 0 .. rotations /\ rotations \in Nat /\ data[a.fd] \in Seq(LogLine)
  BY <1>1 DEF AckedOk, FilesOk
<1>3. a.fd \in cleared \/ a.rot + 2 <= rotations \/ Linked(a.fd)
  BY <1>1 DEF AckedOk, Kept2, Linked
<1>4. a.rot + 2 <= rotations => rotations - a.rot >= 2
  BY <1>2
<1>5. ASSUME ~a.joined PROVE Contains(data[a.fd], a.rec)
  <2>1. PICK j \in DOMAIN data[a.fd] : data[a.fd][j] = a.rec
    BY <1>1, <1>5 DEF AckedOk
  <2> QED BY <1>2, <2>1 DEF Contains
<1> QED BY <1>3, <1>4, <1>5

LEMMA RotatedHolds == LockOk => RotatedFull
BY DEF LockOk, RotatedFull, None

-----------------------------------------------------------------------------
(* No line is there twice *)

\* A record nobody has written or is about to write.
New(w, r) ==
    /\ \A a \in acked : a.rec # r
    /\ \A v \in Writers : v # w /\ writer[v].pc # "idle" => writer[v].rec # r

LinesOk ==
    /\ \A i \in 1 .. Len(data) : \A j \in DOMAIN data[i] :
         Readable(data[i][j]) => \E a \in acked : a.rec = data[i][j]
    /\ \A i, k \in 1 .. Len(data) : \A j \in DOMAIN data[i], m \in DOMAIN data[k] :
         Readable(data[i][j]) /\ data[i][j] = data[k][m] => i = k /\ j = m
    /\ \A w \in Writers : writer[w].pc # "idle" => New(w, writer[w].rec)

NewStart == \E w \in Writers, r \in LogLine : Readable(r) /\ r.ts = now /\ Record(w, r) /\ New(w, r)
NewMove == LogNext \/ Kills \/ UNCHANGED log \/ NewStart

LEMMA NewMoves == NewMove => LogMove
BY DEF NewMove, NewStart, LogMove, Starts

\* A step of one writer that writes nothing.
LEMMA LinesWriter ==
    ASSUME LogOk, LinesOk, NEW w \in Writers,
           acked' = acked, \A v \in Writers : v # w => writer'[v] = writer[v],
           writer'[w].pc # "idle" => New(w, writer'[w].rec),
           data' = data \/ data' = Append(data, <<>>)
    PROVE  LinesOk'
<1>1. ASSUME NEW v \in Writers, writer'[v].pc # "idle" PROVE New(v, writer[v].rec)'
  <2>1. \A a \in acked' : a.rec # writer'[v].rec
    BY <1>1 DEF New, LinesOk
  <2>2. ASSUME NEW u \in Writers, u # v, writer'[u].pc # "idle" PROVE writer'[u].rec # writer'[v].rec
    <3>1. CASE u = w
      BY <3>1, <2>2, <1>1 DEF New
    <3>2. CASE u # w /\ v = w
      BY <3>2, <2>2, <1>1 DEF New
    <3>3. CASE u # w /\ v # w
      BY <3>3, <2>2, <1>1 DEF New, LinesOk
    <3> QED BY <3>1, <3>2, <3>3
  <2> QED BY <2>1, <2>2 DEF New
<1>2. data \in Seq(Seq(LogLine))
  BY DEF LogOk, FilesOk
<1>3. \A i \in 1 .. Len(data') : \A j \in DOMAIN data'[i] : i \in 1 .. Len(data) /\ data'[i] = data[i]
  <2>1. CASE data' = data
    BY <2>1
  <2>2. CASE data' = Append(data, <<>>)
    <3>1. Len(data') = Len(data) + 1 /\ data'[Len(data) + 1] = <<>>
          /\ \A i \in 1 .. Len(data) : data'[i] = data[i]
      BY <1>2, <2>2
    <3> QED BY <1>2, <3>1
  <2> QED BY <2>1, <2>2
<1> QED BY <1>1, <1>3 DEF LinesOk

LEMMA LinesWrite ==
    ASSUME LogOk, LinesOk, NEW w \in Writers, Write(w)
    PROVE  LinesOk'
<1>1. PICK e : e = writer[w]
  OBVIOUS
<1>2. /\ Turns /\ e.fd \in 1 .. Len(data) /\ Readable(e.rec) /\ e.rec \in LogLine
      /\ data \in Seq(Seq(LogLine)) /\ data[e.fd] \in Seq(LogLine) /\ FilesOk
  BY <1>1, WriteTurns DEF LogOk, FilesOk
<1>3. /\ writer' = [writer EXCEPT ![w] = Quiet] /\ e.pc = "write" /\ writer \in [Writers -> Entry]
  BY <1>1 DEF Write, Stop, LogOk
<1>4. PICK r \in {e.rec, Piece} :
        /\ data' = [data EXCEPT ![e.fd] = Written(data[e.fd], r)]
        /\ acked' = acked \/ r = e.rec
        /\ r = Piece \/ \E a \in acked' : a.rec = r
        /\ \A a \in acked : a \in acked'
        /\ \A a \in acked' : a \in acked \/ a.rec = e.rec
  <2>1. PICK b : b = Joined(data[e.fd])
    OBVIOUS
  <2>2. PICK a : a = [rec |-> e.rec, fd |-> e.fd, rot |-> e.rot, joined |-> b]
    OBVIOUS
  <2>3. a.rec = e.rec
    BY <2>2
  <2>4. \/ data' = [data EXCEPT ![e.fd] = Written(data[e.fd], e.rec)] /\ acked' = acked \cup {a}
        \/ data' = [data EXCEPT ![e.fd] = Written(data[e.fd], Piece)] /\ acked' = acked
    BY <1>1, <2>1, <2>2 DEF Write
  <2> QED BY <2>3, <2>4
<1>5. r \in LogLine /\ (r = Piece \/ Readable(r)) /\ ~Readable(Piece)
  BY <1>2, PieceIs
<1>6. Len(data') = Len(data) /\ \A i \in 1 .. Len(data) : data'[i] = IF i = e.fd THEN Written(data[e.fd], r) ELSE data[i]
  BY <1>2, <1>4, <1>5
<1> DEFINE u == data[e.fd]  v == Written(u, r)
<1>7. \A j \in DOMAIN v : Readable(v[j]) =>
        (j \in DOMAIN u /\ v[j] = u[j]) \/ (j = Len(u) + 1 /\ v[j] = e.rec)
  <2>1. \A j \in DOMAIN v : Readable(v[j]) =>
          (j \in DOMAIN u /\ v[j] = u[j]) \/ (j = Len(u) + 1 /\ v[j] = r)
    BY <1>2, <1>5, WrittenIs
  <2>2. Readable(r) => r = e.rec
    BY <1>4, <1>5
  <2> HIDE DEF u, v
  <2> QED BY <2>1, <2>2
<1>8. \A a \in acked : a.rec # e.rec
  BY <1>1, <1>3 DEF LinesOk, New
<1>9. \A i \in 1 .. Len(data) : \A j \in DOMAIN data[i] : Readable(data[i][j]) => data[i][j] # e.rec
  BY <1>8 DEF LinesOk
<1>10. \A i \in 1 .. Len(data) : \A j \in DOMAIN data'[i] : Readable(data'[i][j]) =>
         \/ j \in DOMAIN data[i] /\ data'[i][j] = data[i][j]
         \/ i = e.fd /\ j = Len(u) + 1 /\ data'[i][j] = e.rec
  <2> HIDE DEF u, v
  <2> QED BY <1>6, <1>7 DEF v, u
<1>11. ASSUME NEW i \in 1 .. Len(data'), NEW j \in DOMAIN data'[i], Readable(data'[i][j])
       PROVE  \E a \in acked' : a.rec = data'[i][j]
  <2>1. CASE j \in DOMAIN data[i] /\ data'[i][j] = data[i][j]
    BY <2>1, <1>4, <1>6, <1>11 DEF LinesOk
  <2>2. CASE i = e.fd /\ j = Len(u) + 1 /\ data'[i][j] = e.rec
    <3>1. r = e.rec
      <4>1. SUFFICES ASSUME r = Piece PROVE FALSE
        BY <1>4
      <4>2. \A m \in DOMAIN v : Readable(v[m]) => m \in DOMAIN u
        <5>1. \A m \in DOMAIN v : Readable(v[m]) => (m \in DOMAIN u /\ v[m] = u[m]) \/ v[m] = r
          BY <1>2, <1>5, WrittenIs
        <5> QED BY <5>1, <4>1, <1>5
      <4>3. data'[i] = v /\ Len(u) + 1 \notin DOMAIN u
        BY <2>2, <1>2, <1>6
      <4> QED BY <4>2, <4>3, <2>2, <1>11
    <3> QED BY <3>1, <2>2, <1>2, <1>4, <1>5
  <2> QED BY <2>1, <2>2, <1>6, <1>10, <1>11
<1>12. ASSUME NEW i \in 1 .. Len(data'), NEW k \in 1 .. Len(data'), NEW j \in DOMAIN data'[i], NEW m \in DOMAIN data'[k],
              Readable(data'[i][j]), data'[i][j] = data'[k][m]
       PROVE  i = k /\ j = m
  <2>1. /\ i \in 1 .. Len(data) /\ k \in 1 .. Len(data)
        /\ (j \in DOMAIN data[i] /\ data'[i][j] = data[i][j]) \/ (i = e.fd /\ j = Len(u) + 1 /\ data'[i][j] = e.rec)
        /\ (m \in DOMAIN data[k] /\ data'[k][m] = data[k][m]) \/ (k = e.fd /\ m = Len(u) + 1 /\ data'[k][m] = e.rec)
    BY <1>6, <1>10, <1>12
  <2> HIDE DEF u
  <2>2. CASE (j \in DOMAIN data[i] /\ data'[i][j] = data[i][j]) /\ (m \in DOMAIN data[k] /\ data'[k][m] = data[k][m])
    <3>1. Readable(data[i][j]) /\ data[i][j] = data[k][m]
      BY <2>2, <1>12
    <3> QED BY <3>1, <2>1, <2>2 DEF LinesOk
  <2>3. CASE (j \in DOMAIN data[i] /\ data'[i][j] = data[i][j]) /\ data'[k][m] = e.rec
    BY <2>1, <2>3, <1>9, <1>12
  <2>4. CASE data'[i][j] = e.rec /\ (m \in DOMAIN data[k] /\ data'[k][m] = data[k][m])
    BY <2>1, <2>4, <1>9, <1>12
  <2> QED BY <2>1, <2>2, <2>3, <2>4
<1>13. ASSUME NEW x \in Writers, writer'[x].pc # "idle" PROVE New(x, writer[x].rec)'
  <2>1. Quiet.pc = "idle"
    BY DEF Quiet
  <2>2. x # w /\ writer'[x] = writer[x] /\ New(x, writer[x].rec)
    BY <2>1, <1>3, <1>13 DEF LinesOk
  <2>3. writer[x].rec # e.rec
    BY <2>2, <1>1, <1>3, <1>13 DEF LinesOk, New
  <2>4. \A a \in acked' : a.rec # writer[x].rec
    BY <2>2, <2>3, <1>4 DEF New
  <2>5. ASSUME NEW y \in Writers, y # x, writer'[y].pc # "idle" PROVE writer'[y].rec # writer'[x].rec
    <3>1. y # w /\ writer'[y] = writer[y]
      BY <2>1, <2>5, <1>3
    <3> QED BY <3>1, <2>2, <2>5 DEF New
  <2> QED BY <2>2, <2>4, <2>5 DEF New
<1> QED BY <1>11, <1>12, <1>13 DEF LinesOk

\* What a writer's step but a write does to what it writes.
LEMMA SameRecord ==
    ASSUME LogOk, LinesOk, NEW w \in Writers,
           Create(w) \/ Open(w) \/ Size(w) \/ Lock(w) \/ Again(w) \/ Rename(w) \/ Killed(w)
    PROVE  /\ acked' = acked /\ \A v \in Writers : v # w => writer'[v] = writer[v]
           /\ writer'[w].pc # "idle" => writer'[w].rec = writer[w].rec /\ writer[w].pc # "idle"
           /\ data' = data \/ data' = Append(data, <<>>)
<1>0. writer \in [Writers -> Entry] /\ Quiet.pc = "idle"
  BY DEF LogOk, Quiet
<1>1. CASE Create(w)
  BY <1>0, <1>1 DEF Create, Step, Entry
<1>2. CASE Open(w) \/ Size(w)
  BY <1>0, <1>2 DEF Open, Size, Step, Stop, Entry
<1>3. CASE Lock(w)
  BY <1>0, <1>3 DEF Lock, Step, Stop, Entry
<1>4. CASE Again(w) \/ Rename(w)
  BY <1>0, <1>4 DEF Again, Rename, Step, Stop, Entry
<1>5. CASE Killed(w)
  BY <1>0, <1>5 DEF Killed, Stop, Entry
<1> QED BY <1>1, <1>2, <1>3, <1>4, <1>5

LEMMA LinesStep == LogOk /\ LinesOk /\ NewMove => LinesOk'
<1> SUFFICES ASSUME LogOk, LinesOk, NewMove PROVE LinesOk'
  OBVIOUS
<1>1. ASSUME NEW w \in Writers, Create(w) \/ Open(w) \/ Size(w) \/ Lock(w) \/ Again(w) \/ Rename(w) \/ Killed(w)
      PROVE  LinesOk'
  <2>1. writer'[w].pc # "idle" => New(w, writer'[w].rec)
    BY <1>1, SameRecord DEF LinesOk
  <2> QED BY <2>1, <1>1, SameRecord, LinesWriter
<1>2. CASE NewStart
  <2>1. PICK w \in Writers, r \in LogLine : Record(w, r) /\ New(w, r)
    BY <1>2 DEF NewStart
  <2>2. PICK x : x = [Quiet EXCEPT !.pc = "create", !.rec = r]
    OBVIOUS
  <2>3. x.rec = r
    BY <2>2 DEF Quiet
  <2>4. writer' = [writer EXCEPT ![w] = x] /\ acked' = acked /\ data' = data /\ writer \in [Writers -> Entry]
    BY <2>1, <2>2 DEF Record, LogOk
  <2>5. writer'[w] = x /\ \A v \in Writers : v # w => writer'[v] = writer[v]
    BY <2>4
  <2> QED BY <2>1, <2>3, <2>4, <2>5, LinesWriter
<1>3. CASE UNCHANGED <<data, acked, writer>>
  BY <1>3 DEF LinesOk, New
<1>4. ClearCurrent \/ ClearOlder \/ ReadOlder \/ ReadCurrent \/ Tick \/ UNCHANGED log => UNCHANGED <<data, acked, writer>>
  BY DEF ClearCurrent, ClearOlder, ReadOlder, ReadCurrent, Tick, log
<1> QED BY <1>1, <1>2, <1>3, <1>4, LinesWrite DEF NewMove, LogNext, Kills

LEMMA LinesStart == LogInit => LinesOk
BY DEF LogInit, LinesOk, Quiet

-----------------------------------------------------------------------------
(* What a reader has *)

\* What can be read in s is in file i, where it was.
From(s, i) == \A j \in DOMAIN s : Readable(s[j]) => i # 0 /\ j \in DOMAIN data[i] /\ data[i][j] = s[j]

\* Whether a, there when the reader began, is yet to be read or may be missed.
Missed(a) == rotations > reader.rot \/ a.fd \in cleared

ReaderOk ==
    /\ reader.pc \in {"idle", "second", "done"}
    /\ reader.pc = "second" =>
         /\ reader.first \in Seq(LogLine) /\ reader.rot \in 0 .. rotations
         /\ \E i \in 0 .. Len(data) : (current = 0 \/ i < current) /\ From(reader.first, i)
         /\ \A a \in reader.before : /\ a \in acked /\ ~a.joined
                                     /\ Missed(a) \/ Contains(reader.first, a.rec) \/ a.fd = current
    /\ reader.pc = "done" =>
         /\ reader.got \in Seq(LogLine) /\ reader.rot \in Nat
         /\ \A i \in DOMAIN reader.got : Readable(reader.got[i]) => reader.got[i].ts \in 0 .. now
         /\ \A i, j \in DOMAIN reader.got :
              Readable(reader.got[i]) /\ Readable(reader.got[j]) /\ reader.got[i] = reader.got[j] => i = j
         /\ \A a \in reader.before : Missed(a) \/ Contains(reader.got, a.rec)

LEMMA FromStays ==
    ASSUME LogOk, LogMove, NEW s, NEW i \in 0 .. Len(data), From(s, i)
    PROVE  From(s, i)' /\ i \in 0 .. Len(data') /\ (current = 0 \/ i < current => current' = 0 \/ i < current')
<1>1. FilesOk /\ Turns /\ now' \in Nat
  BY Turned DEF LogOk
<1>2. Len(data) <= Len(data') /\ (i # 0 => Keeps(data[i], data'[i])) /\ FilesOk'
  BY <1>1, TurnsFiles
<1>3. From(s, i)'
  BY <1>2 DEF From, Keeps
<1>4. i \in 0 .. Len(data')
  BY <1>1, <1>2 DEF FilesOk
<1>5. current' = current \/ current' = 0 \/ current' = Len(data) + 1
  BY <1>1 DEF Turns
<1> QED BY <1>1, <1>3, <1>4, <1>5 DEF FilesOk

LEMMA ReaderSame ==
    ASSUME LogOk, ReaderOk, LogMove, reader' = reader
    PROVE  ReaderOk'
<1>1. FilesOk /\ Turns /\ now' \in Nat /\ now <= now'
  BY Turned DEF LogOk
<1>2. FilesOk' /\ rotations <= rotations'
  BY <1>1, TurnsFiles
<1>3. rotations \in Nat /\ rotations' \in Nat /\ now \in Nat
  BY <1>1, <1>2 DEF FilesOk
<1>4. cleared \subseteq cleared'
  BY <1>1 DEF Turns
<1>5. acked \subseteq acked'
  <2>1. Starts \/ Kills \/ UNCHANGED log => acked' = acked
    BY DEF Starts, Kills, Record, Killed, log
  <2>2. LogNext => acked \subseteq acked'
    BY DEF LogNext, Create, Open, Size, Lock, Again, Rename, Write, ClearCurrent, ClearOlder,
           ReadOlder, ReadCurrent, Tick
  <2> QED BY <2>1, <2>2 DEF LogMove
<1>6. PICK r : r = reader
  OBVIOUS
<1>7. ASSUME r.rot \in Nat, NEW a, Missed(a) PROVE Missed(a)'
  BY <1>3, <1>2, <1>4, <1>6, <1>7 DEF Missed
<1>8. ASSUME r.pc = "second"
      PROVE  /\ r.first \in Seq(LogLine) /\ r.rot \in 0 .. rotations'
             /\ \E i \in 0 .. Len(data') : (current' = 0 \/ i < current') /\ From(r.first, i)'
             /\ \A a \in r.before : /\ a \in acked' /\ ~a.joined
                                    /\ Missed(a)' \/ Contains(r.first, a.rec) \/ a.fd = current'
  <2>1. r.first \in Seq(LogLine) /\ r.rot \in 0 .. rotations /\ r.rot \in Nat
    BY <1>3, <1>6, <1>8 DEF ReaderOk
  <2>2. PICK i \in 0 .. Len(data) : (current = 0 \/ i < current) /\ From(r.first, i)
    BY <1>6, <1>8 DEF ReaderOk
  <2>3. From(r.first, i)' /\ i \in 0 .. Len(data') /\ (current' = 0 \/ i < current')
    BY <2>2, FromStays
  <2>4. r.rot \in 0 .. rotations'
    BY <2>1, <1>2, <1>3
  <2>5. ASSUME NEW a \in r.before
        PROVE  a \in acked' /\ ~a.joined /\ (Missed(a)' \/ Contains(r.first, a.rec) \/ a.fd = current')
    <3>1. a \in acked /\ ~a.joined /\ (Missed(a) \/ Contains(r.first, a.rec) \/ a.fd = current)
      BY <1>6, <1>8 DEF ReaderOk
    <3>2. a \in acked'
      BY <3>1, <1>5
    <3>3. CASE Missed(a) \/ Contains(r.first, a.rec)
      BY <3>1, <3>2, <3>3, <2>1, <1>7
    <3>4. CASE a.fd = current
      <4>1. a.fd # 0
        BY <3>1 DEF LogOk, AckedOk
      <4>2. current' = current \/ rotations' = rotations + 1 \/ a.fd \in cleared'
        BY <1>1, <3>4, <4>1 DEF Turns
      <4>3. rotations' = rotations + 1 => rotations' > r.rot
        BY <2>1, <1>3
      <4> QED BY <3>1, <3>2, <3>4, <4>2, <4>3, <1>6 DEF Missed
    <3> QED BY <3>1, <3>3, <3>4
  <2> QED BY <2>1, <2>3, <2>4, <2>5
<1>9. ASSUME r.pc = "done"
      PROVE  /\ \A i \in DOMAIN r.got : Readable(r.got[i]) => r.got[i].ts \in 0 .. now'
             /\ \A a \in r.before : Missed(a)' \/ Contains(r.got, a.rec)
             /\ r.got \in Seq(LogLine) /\ r.rot \in Nat
             /\ \A i, j \in DOMAIN r.got :
                  Readable(r.got[i]) /\ Readable(r.got[j]) /\ r.got[i] = r.got[j] => i = j
  <2>1. /\ \A i \in DOMAIN r.got : Readable(r.got[i]) => r.got[i].ts \in 0 .. now
        /\ \A a \in r.before : Missed(a) \/ Contains(r.got, a.rec)
        /\ r.got \in Seq(LogLine) /\ r.rot \in Nat
        /\ \A i, j \in DOMAIN r.got :
             Readable(r.got[i]) /\ Readable(r.got[j]) /\ r.got[i] = r.got[j] => i = j
    BY <1>6, <1>9 DEF ReaderOk
  <2>2. \A t \in 0 .. now : t \in 0 .. now'
    BY <1>1, <1>3
  <2> QED BY <2>1, <2>2, <1>7
<1>10. reader' = r /\ r.pc \in {"idle", "second", "done"}
  BY <1>6 DEF ReaderOk
<1> QED BY <1>8, <1>9, <1>10 DEF ReaderOk

LEMMA ReadOlderSound == ASSUME LogOk, ReaderOk, ReadOlder PROVE ReaderOk'
<1>1. PICK r : r = [NotReading EXCEPT !.pc = "second", !.first = Lines(Generation(1)),
                                     !.rot = rotations, !.before = There]
  OBVIOUS
<1>2. reader' = r /\ r.pc = "second" /\ r.first = Lines(older) /\ r.rot = rotations /\ r.before = There
      /\ UNCHANGED <<current, older, data, rotations, acked, cleared>>
  BY <1>1 DEF ReadOlder, NotReading, Generation
<1>3. FilesOk /\ data \in Seq(Seq(LogLine)) /\ older \in 0 .. Len(data) /\ rotations \in Nat
  BY DEF LogOk, FilesOk
<1>4. r.first \in Seq(LogLine)
  BY <1>2, <1>3 DEF Lines, None
<1>5. \E i \in 0 .. Len(data) : (current = 0 \/ i < current) /\ From(r.first, i)
  <2>1. CASE older = 0
    <3>1. r.first = <<>> /\ 0 \in 0 .. Len(data)
      BY <1>2, <1>3, <2>1 DEF Lines, None
    <3>2. current = 0 \/ 0 < current
      BY <1>3 DEF FilesOk
    <3> QED BY <3>1, <3>2 DEF From
  <2>2. CASE older # 0
    <3>1. r.first = data[older]
      BY <1>2, <2>2 DEF Lines, None
    <3>2. current = 0 \/ older < current
      BY <2>2, <1>3 DEF FilesOk
    <3> QED BY <1>3, <2>2, <3>1, <3>2 DEF From
  <2> QED BY <2>1, <2>2
<1>6. ASSUME NEW a \in r.before
      PROVE  a \in acked /\ ~a.joined /\ (Contains(r.first, a.rec) \/ a.fd = current)
  <2>1. a \in acked /\ ~a.joined /\ (a.fd = current \/ a.fd = older) /\ AckedOk(a)
    BY <1>2 DEF There, Linked, LogOk
  <2>2. CASE a.fd = older
    <3>1. older # 0
      BY <2>1, <2>2 DEF AckedOk
    <3>2. r.first = data[older]
      BY <3>1, <1>2 DEF Lines, None
    <3>3. PICK j \in DOMAIN data[older] : data[older][j] = a.rec
      BY <2>1, <2>2 DEF AckedOk
    <3> QED BY <2>1, <3>2, <3>3, <1>4 DEF Contains
  <2> QED BY <2>1, <2>2
<1>7. rotations' \in Nat /\ r.rot \in 0 .. rotations'
  BY <1>2, <1>3
<1> QED BY <1>2, <1>4, <1>5, <1>6, <1>7 DEF ReaderOk, From

Follows(u, v, w) ==
    /\ Len(u) \in Nat
    /\ \A k \in DOMAIN w : \/ k \in DOMAIN u /\ w[k] = u[k]
                           \/ k - Len(u) \in DOMAIN v /\ w[k] = v[k - Len(u)] /\ k \in Nat
    /\ \A j \in DOMAIN u : j \in DOMAIN w /\ w[j] = u[j]
    /\ \A j \in DOMAIN v : Len(u) + j \in DOMAIN w /\ w[Len(u) + j] = v[j]

LEMMA JoinedSeqs ==
    ASSUME NEW S, NEW u \in Seq(S), NEW v \in Seq(S)
    PROVE  u \o v \in Seq(S) /\ Follows(u, v, u \o v)
BY DEF Follows

LEMMA ContainsIn == ASSUME NEW S, NEW u \in Seq(S), NEW x PROVE Contains(u, x) <=> \E j \in DOMAIN u : u[j] = x
BY DEF Contains

LEMMA ReadCurrentSound == ASSUME LogOk, LinesOk, ReaderOk, ReadCurrent PROVE ReaderOk'
<1>1. PICK f, g : f = reader.first /\ g = Lines(current)
  OBVIOUS
<1>2. PICK r : r = [reader EXCEPT !.pc = "done", !.got = f \o g]
  OBVIOUS
<1>3. /\ reader' = [reader EXCEPT !.pc = "done", !.got = f \o g] /\ reader.pc = "second"
      /\ UNCHANGED <<current, older, data, rotations, acked, cleared, now>>
  BY <1>1 DEF ReadCurrent, Generation
<1>4. FilesOk /\ data \in Seq(Seq(LogLine)) /\ current \in 0 .. Len(data) /\ rotations \in Nat /\ now \in Nat
  BY DEF LogOk, FilesOk
<1>5. f \in Seq(LogLine) /\ reader.rot \in 0 .. rotations
  BY <1>1, <1>3 DEF ReaderOk
<1>6. g \in Seq(LogLine) /\ (current # 0 => g = data[current]) /\ (current = 0 => g = <<>>)
  BY <1>1, <1>4 DEF Lines, None
<1>7. PICK i \in 0 .. Len(data) : (current = 0 \/ i < current) /\ From(f, i)
  BY <1>1, <1>3 DEF ReaderOk
<1> DEFINE e == f \o g
<1>8. /\ e \in Seq(LogLine) /\ Len(f) \in Nat
      /\ \A k \in DOMAIN e : \/ k \in DOMAIN f /\ e[k] = f[k]
                             \/ k - Len(f) \in DOMAIN g /\ e[k] = g[k - Len(f)] /\ k \in Nat
      /\ \A j \in DOMAIN f : j \in DOMAIN e /\ e[j] = f[j]
      /\ \A j \in DOMAIN g : Len(f) + j \in DOMAIN e /\ e[Len(f) + j] = g[j]
  <2>1. e \in Seq(LogLine) /\ Follows(f, g, e)
    BY <1>5, <1>6, JoinedSeqs
  <2> HIDE DEF e
  <2> QED BY <2>1 DEF Follows
<1> HIDE DEF e
<1>9. \A k \in DOMAIN e : Readable(e[k]) =>
         \/ i # 0 /\ k \in DOMAIN data[i] /\ data[i][k] = e[k]
         \/ current # 0 /\ k - Len(f) \in DOMAIN data[current] /\ data[current][k - Len(f)] = e[k] /\ k \in Nat
  <2> SUFFICES ASSUME NEW k \in DOMAIN e, Readable(e[k])
               PROVE  \/ i # 0 /\ k \in DOMAIN data[i] /\ data[i][k] = e[k]
                      \/ current # 0 /\ k - Len(f) \in DOMAIN data[current]
                         /\ data[current][k - Len(f)] = e[k] /\ k \in Nat
    OBVIOUS
  <2>1. CASE k \in DOMAIN f /\ e[k] = f[k]
    BY <2>1, <1>7 DEF From
  <2>2. CASE k - Len(f) \in DOMAIN g /\ e[k] = g[k - Len(f)] /\ k \in Nat
    <3>1. current # 0
      BY <2>2, <1>6
    <3> QED BY <2>2, <3>1, <1>6
  <2> QED BY <2>1, <2>2, <1>8
<1>10. ASSUME NEW k \in DOMAIN e, Readable(e[k]) PROVE e[k].ts \in 0 .. now
  <2>1. \E c \in 1 .. Len(data) : \E j \in DOMAIN data[c] : data[c][j] = e[k]
    <3>1. (i # 0 => i \in 1 .. Len(data)) /\ (current # 0 => current \in 1 .. Len(data))
      BY <1>4, <1>7
    <3>2. CASE i # 0 /\ k \in DOMAIN data[i] /\ data[i][k] = e[k]
      BY <3>1, <3>2
    <3>3. CASE current # 0 /\ k - Len(f) \in DOMAIN data[current] /\ data[current][k - Len(f)] = e[k]
      BY <3>1, <3>3
    <3> QED BY <3>2, <3>3, <1>9, <1>10
  <2>2. \E a \in acked : a.rec = e[k]
    BY <2>1, <1>10 DEF LinesOk
  <2> QED BY <2>2 DEF LogOk, AckedOk
<1>11. ASSUME NEW k \in DOMAIN e, NEW m \in DOMAIN e, Readable(e[k]), Readable(e[m]), e[k] = e[m]
       PROVE  k = m
  <2>1. \A c, d \in 1 .. Len(data) : \A j \in DOMAIN data[c], l \in DOMAIN data[d] :
          Readable(data[c][j]) /\ data[c][j] = data[d][l] => c = d /\ j = l
    BY DEF LinesOk
  <2>2. (i # 0 => i \in 1 .. Len(data)) /\ (current # 0 => current \in 1 .. Len(data) /\ i # current)
    BY <1>4, <1>7
  <2>3. CASE i # 0 /\ k \in DOMAIN data[i] /\ data[i][k] = e[k]
    <3>1. CASE i # 0 /\ m \in DOMAIN data[i] /\ data[i][m] = e[m]
      BY <2>1, <2>2, <2>3, <3>1, <1>11
    <3>2. CASE current # 0 /\ m - Len(f) \in DOMAIN data[current] /\ data[current][m - Len(f)] = e[m]
      BY <2>1, <2>2, <2>3, <3>2, <1>11
    <3> QED BY <3>1, <3>2, <1>9, <1>11
  <2>4. CASE current # 0 /\ k - Len(f) \in DOMAIN data[current] /\ data[current][k - Len(f)] = e[k] /\ k \in Nat
    <3>1. CASE i # 0 /\ m \in DOMAIN data[i] /\ data[i][m] = e[m]
      BY <2>1, <2>2, <2>4, <3>1, <1>11
    <3>2. CASE current # 0 /\ m - Len(f) \in DOMAIN data[current] /\ data[current][m - Len(f)] = e[m] /\ m \in Nat
      <4>1. k - Len(f) = m - Len(f)
        BY <2>1, <2>2, <2>4, <3>2, <1>11
      <4> QED BY <4>1, <2>4, <3>2, <1>8
    <3> QED BY <3>1, <3>2, <1>9, <1>11
  <2> QED BY <2>3, <2>4, <1>9, <1>11
<1>12. ASSUME NEW a \in reader.before PROVE Missed(a) \/ Contains(e, a.rec)
  <2>1. a \in acked /\ ~a.joined /\ (Missed(a) \/ Contains(f, a.rec) \/ a.fd = current) /\ AckedOk(a)
    BY <1>1, <1>3 DEF ReaderOk, LogOk
  <2>2. CASE Contains(f, a.rec)
    <3>1. PICK j \in DOMAIN f : f[j] = a.rec
      BY <2>2, <1>5, ContainsIn
    <3> QED BY <3>1, <1>8, ContainsIn
  <2>3. CASE a.fd = current
    <3>1. current # 0
      BY <2>1, <2>3 DEF AckedOk
    <3>2. PICK j \in DOMAIN g : g[j] = a.rec
      BY <2>1, <2>3, <3>1, <1>6 DEF AckedOk
    <3> QED BY <3>2, <1>8, ContainsIn
  <2> QED BY <2>1, <2>2, <2>3
<1>13. r.pc = "done" /\ r.got = e /\ r.rot = reader.rot /\ r.before = reader.before /\ reader' = r
  <2>1. NotReading.pc = "idle"
    BY DEF NotReading
  <2> QED BY <1>2, <1>3 DEF e, ReaderOk
<1>14. \A a \in r.before : Missed(a)' \/ Contains(r.got, a.rec)
  BY <1>3, <1>12, <1>13 DEF Missed
<1>15. r.rot \in Nat /\ now' = now
  BY <1>3, <1>5, <1>13, <1>4
<1> QED BY <1>8, <1>10, <1>11, <1>13, <1>14, <1>15 DEF ReaderOk

LEMMA ReaderStep == LogOk /\ LinesOk /\ ReaderOk /\ LogMove => ReaderOk'
<1> SUFFICES ASSUME LogOk, LinesOk, ReaderOk, LogMove PROVE ReaderOk'
  OBVIOUS
<1>1. ReadOlder \/ ReadCurrent \/ reader' = reader
  <2>1. Starts \/ Kills \/ UNCHANGED log => reader' = reader
    BY DEF Starts, Kills, Record, Killed, log
  <2>2. LogNext => ReadOlder \/ ReadCurrent \/ reader' = reader
    BY DEF LogNext, Create, Open, Size, Lock, Again, Rename, Write, ClearCurrent, ClearOlder, Tick
  <2> QED BY <2>1, <2>2 DEF LogMove
<1> QED BY <1>1, ReaderSame, ReadOlderSound, ReadCurrentSound

LEMMA ReaderStart == LogInit => ReaderOk
BY DEF LogInit, ReaderOk, NotReading

-----------------------------------------------------------------------------
(* What the log's properties say of its reader *)

LEMMA ReadHolds == ReaderOk => ReadOnce
BY DEF ReaderOk, ReadOnce, Missed

LEMMA OwnHolds == FilesOk /\ ReaderOk => OwnHook
<1> SUFFICES ASSUME FilesOk, ReaderOk, reader.pc = "done",
                    NEW r \in OfKind(reader.got, "run"), NEW h \in OfKind(reader.got, "hook"),
                    reader.got[h].by = reader.got[r].by, Fits(reader.got[h], reader.got[r]),
                    \A k \in DOMAIN reader.got :
                      (Readable(reader.got[k]) /\ reader.got[k].id = reader.got[r].id
                       /\ reader.got[h].ts <= reader.got[k].ts /\ reader.got[k].ts <= reader.got[r].ts)
                      => k \in {h, r}
             PROVE  Pairs(reader.got)[r] = h
  BY DEF OwnHook
<1>1. PICK e : e = reader.got
  OBVIOUS
<1>2. e \in Seq(LogLine) /\ (\A i \in DOMAIN e : Readable(e[i]) => e[i].ts \in 0 .. now) /\ now \in Nat
  BY <1>1 DEF ReaderOk, FilesOk
<1>3. DOMAIN e = 1 .. Len(e) /\ Len(e) \in Nat
  BY <1>2
<1> QED BY <1>1, <1>2, <1>3, PairsOwn

-----------------------------------------------------------------------------
(* What made each record *)

LEMMA Tuples ==
    /\ \A v, c, i : <<v>> # <<c, i>>
    /\ \A v, w : <<v>> = <<w>> => v = w
    /\ \A c, i, d, j : <<c, i>> = <<d, j>> => c = d /\ i = j
<1>1. ASSUME NEW v, NEW c, NEW i PROVE <<v>> # <<c, i>>
  <2>1. Len(<<v>>) = 1 /\ Len(<<c, i>>) = 2
    OBVIOUS
  <2> QED BY <2>1
<1>2. ASSUME NEW v, NEW w, <<v>> = <<w>> PROVE v = w
  <2>1. <<v>>[1] = v /\ <<w>>[1] = w
    OBVIOUS
  <2> QED BY <2>1, <1>2
<1>3. ASSUME NEW c, NEW i, NEW d, NEW j, <<c, i>> = <<d, j>> PROVE c = d /\ i = j
  <2>1. <<c, i>>[1] = c /\ <<d, j>>[1] = d /\ <<c, i>>[2] = i /\ <<d, j>>[2] = j
    OBVIOUS
  <2> QED BY <2>1, <1>3
<1> QED BY <1>1, <1>2, <1>3, Zenon

\* Whether this call may have made a record of its command i.
Used(kind, i) ==
    Running => \/ kind = "hook" /\ \A p \in due : p.at # i
               \/ kind = "run" /\ pc \in {"shell", "greeg"} /\ (i < at \/ (pc = "greeg" /\ i = at))

Spent(r) ==
    \/ \E v \in Writers \ {Call} : r.by = <<v>>
    \/ \E c \in 0 .. calls, i \in Nat : r.by = <<c, i>> /\ (c = calls => Used(r.kind, i))

Due(w) ==
    IF w = Call THEN \E i \in Nat : writer[w].rec.by = <<calls, i>> /\ Used(writer[w].rec.kind, i)
    ELSE writer[w].rec.by = <<w>> /\ \A a \in acked : a.rec.by # <<w>>

CallsOk ==
    /\ calls \in Nat /\ cwd \in Seq(Dir)
    /\ Running => due \subseteq Range(rw.parts)
    /\ pc \notin {"hook", "greeg"} => writer[Call].pc = "idle"
    /\ \A a \in acked : Spent(a.rec)
    /\ \A w \in Writers : writer[w].pc # "idle" => Due(w)

AgentsOk == ShellSound /\ LogOk /\ LockOk /\ LinesOk /\ ReaderOk /\ CallsOk

LEMMA HookLine ==
    ASSUME LogOk, CallsOk, NEW d \in Seq(Dir), NEW c \in Command, NEW i \in Nat, NEW r,
           r = Hook(Id(d, c), By(i), now) \/ r = Run(Id(d, c), By(i), now)
    PROVE  /\ r \in LogLine /\ Readable(r) /\ r.ts = now /\ r.by = <<calls, i>>
           /\ r = Hook(Id(d, c), By(i), now) => r.kind = "hook"
           /\ r = Run(Id(d, c), By(i), now) => r.kind = "run"
<1>1. c.words \in Dir /\ now \in Nat /\ calls \in Nat
  BY CommandFields DEF LogOk, FilesOk, CallsOk
<1>2. Id(d, c) \in Ids
  BY <1>1 DEF Id, Ids
<1>3. By(i) = <<calls, i>> /\ By(i) \in Bys
  BY <1>1 DEF By, Bys
<1>4. \A x, y : x \in Ids /\ y \in Bys => Hook(x, y, now) \in LogLine /\ Run(x, y, now) \in LogLine
  BY <1>1 DEF Hook, Run, LogLine
<1>5. r \in LogLine
  BY <1>2, <1>3, <1>4
<1>6. r.ts = now /\ r.by = By(i) /\ r.kind \in {"hook", "run"}
      /\ (r = Hook(Id(d, c), By(i), now) => r.kind = "hook")
      /\ (r = Run(Id(d, c), By(i), now) => r.kind = "run")
  BY DEF Hook, Run
<1> QED BY <1>3, <1>5, <1>6 DEF Readable

\* Steps that make no record, of a call that has none to write.
LEMMA CallsKeep ==
    ASSUME CallsOk, acked' = acked, calls' = calls, cwd' \in Seq(Dir),
           \A w \in Writers : w # Call => writer'[w] = writer[w],
           writer'[Call].pc = "idle",
           Running' => due' \subseteq Range(rw'.parts),
           \A i \in Nat : Used("hook", i) => Used("hook", i)',
           \A i \in Nat : Used("run", i) => Used("run", i)',
           \A a \in acked : a.rec.kind \in {"hook", "run"}
    PROVE  CallsOk'
<1>1. ASSUME NEW a \in acked PROVE Spent(a.rec)'
  <2>1. Spent(a.rec)
    BY DEF CallsOk
  <2>2. CASE \E v \in Writers \ {Call} : a.rec.by = <<v>>
    BY <2>2 DEF Spent
  <2>3. ASSUME NEW c \in 0 .. calls, NEW i \in Nat, a.rec.by = <<c, i>>, c = calls => Used(a.rec.kind, i)
        PROVE  Spent(a.rec)'
    <3>1. c = calls' => Used(a.rec.kind, i)'
      BY <2>3
    <3>2. c \in 0 .. calls'
      OBVIOUS
    <3> QED BY <3>1, <3>2, <2>3 DEF Spent
  <2> QED BY <2>1, <2>2, <2>3 DEF Spent
<1>2. ASSUME NEW w \in Writers, writer'[w].pc # "idle" PROVE Due(w)'
  <2>1. w # Call /\ writer'[w] = writer[w] /\ Due(w)
    BY <1>2 DEF CallsOk
  <2> QED BY <2>1 DEF Due
<1>3. calls' \in Nat
  BY DEF CallsOk
<1> QED BY <1>1, <1>2, <1>3 DEF CallsOk

LEMMA Kinds == LogOk => \A a \in acked : a.rec.kind \in {"hook", "run"}
BY DEF LogOk, AckedOk, Readable

LEMMA ShellFacts ==
    ASSUME AgentsOk
    PROVE  /\ pc \in {"hook", "greeg"} \/ writer[Call].pc = "idle"
           /\ Running => at \in Nat /\ line \in Seq(Command)
           /\ \A a \in acked : a.rec.kind \in {"hook", "run"}
           /\ Call \in Writers /\ writer \in [Writers -> Entry] /\ cwd \in Seq(Dir)
BY Kinds, CallsAssumption DEF AgentsOk, ShellSound, CallsOk, CallAssumption, LogOk

LEMMA PassCalls ==
    ASSUME AgentsOk, Skip \/ Cd \/ Other \/ LineEnds \/ HookEnds
    PROVE  CallsOk'
<1>0. /\ writer[Call].pc = "idle" /\ UNCHANGED <<writer, acked, calls, due, rw>> /\ Running
      /\ cwd \in Seq(Dir) /\ line \in Seq(Command) /\ at \in Nat
      /\ \A a \in acked : a.rec.kind \in {"hook", "run"}
  <2>1. writer[Call].pc = "idle"
    BY ShellFacts DEF Skip, Cd, Other, LineEnds, HookEnds, InShell, Idle
  <2>2. UNCHANGED log
    BY DEF Skip, Cd, Other, LineEnds, HookEnds
  <2>3. UNCHANGED <<writer, acked>>
    BY <2>2 DEF log
  <2> QED BY <2>1, <2>3, ShellFacts DEF Skip, Cd, Other, LineEnds, HookEnds, InShell, Running
<1>1. cwd' \in Seq(Dir)
  <2>1. CASE cwd' = cwd
    BY <2>1, <1>0
  <2>2. CASE Cd
    <3>1. at \in 1 .. Len(line)
      <4>1. at <= Len(line)
        BY <2>2 DEF Cd, InShell
      <4>2. at \in 1 .. Len(line) + 1
        BY <1>0 DEF AgentsOk, ShellSound
      <4> QED BY <1>0, <4>1, <4>2
    <3>2. line[at] \in Command
      BY <3>1, <1>0
    <3>3. line[at].cd \in Dir
      BY <3>2, CommandFields
    <3>4. cwd' = cwd \/ cwd' = Append(cwd, line[at].cd)
      BY <2>2 DEF Cd
    <3>5. Append(cwd, line[at].cd) \in Seq(Dir)
      BY <3>3, <1>0
    <3> QED BY <3>4, <3>5, <1>0
  <2>3. CASE Other
    <3>1. "elsewhere" \in Dir
      BY DEF Dir
    <3>2. <<"elsewhere">> \in Seq(Dir)
      BY <3>1
    <3>3. cwd' \in {cwd, <<"elsewhere">>}
      BY <2>3 DEF Other
    <3> QED BY <3>2, <3>3, <1>0
  <2> QED BY <2>1, <2>2, <2>3 DEF Skip, LineEnds, HookEnds
<1>2. CASE Skip \/ Cd \/ Other
  <2>1. pc = "shell" /\ pc' = "shell" /\ at' = at + 1
    BY <1>2 DEF Skip, Cd, Other, InShell, Past
  <2>2. \A i \in Nat : (Used("hook", i) => Used("hook", i)') /\ (Used("run", i) => Used("run", i)')
    BY <1>0, <2>1 DEF Used, Running
  <2>3. Running' => due' \subseteq Range(rw'.parts)
    BY <1>0 DEF AgentsOk, CallsOk
  <2> QED BY <1>0, <1>1, <2>2, <2>3, CallsKeep DEF AgentsOk
<1>3. CASE LineEnds
  <2>1. pc' = "idle"
    BY <1>3 DEF LineEnds
  <2> QED BY <1>0, <1>1, <2>1, CallsKeep DEF AgentsOk, Used, Running
<1>4. CASE HookEnds
  <2>1. pc = "hook" /\ pc' = "shell" /\ due = {}
    BY <1>4 DEF HookEnds
  <2>2. \A i \in Nat : (Used("hook", i) => Used("hook", i)') /\ (Used("run", i) => Used("run", i)')
    BY <1>0, <2>1 DEF Used, Running
  <2>3. Running' => due' \subseteq Range(rw'.parts)
    BY <1>0 DEF AgentsOk, CallsOk
  <2> QED BY <1>0, <1>1, <2>2, <2>3, CallsKeep DEF AgentsOk
<1> QED BY <1>2, <1>3, <1>4

LEMMA KilledIs ==
    ASSUME LogOk, Killed(Call), Call \in Writers
    PROVE  /\ acked' = acked /\ writer'[Call].pc = "idle"
           /\ \A w \in Writers : w # Call => writer'[w] = writer[w]
BY DEF Killed, Stop, LogOk, Quiet

LEMMA EndCalls ==
    ASSUME AgentsOk, HookDies \/ GreegEnds
    PROVE  CallsOk'
<1>0. /\ calls' = calls /\ Running /\ cwd' \in Seq(Dir) /\ at \in Nat
      /\ \A a \in acked : a.rec.kind \in {"hook", "run"}
  BY ShellFacts DEF HookDies, GreegEnds, Running
<1>1. /\ acked' = acked /\ writer'[Call].pc = "idle"
      /\ \A w \in Writers : w # Call => writer'[w] = writer[w]
  <2>1. CASE Killed(Call)
    BY <2>1, KilledIs, ShellFacts DEF AgentsOk
  <2>2. CASE Idle(Call) /\ UNCHANGED log
    BY <2>2 DEF Idle, log
  <2> QED BY <2>1, <2>2 DEF HookDies, GreegEnds
<1>2. CASE HookDies
  <2>1. pc' = "idle"
    BY <1>2 DEF HookDies
  <2> QED BY <1>0, <1>1, <2>1, CallsKeep DEF AgentsOk, Used, Running
<1>3. CASE GreegEnds
  <2>1. pc = "greeg" /\ pc' = "shell" /\ at' = at + 1 /\ due' = due /\ rw' = rw
    BY <1>3 DEF GreegEnds, Past
  <2>2. \A i \in Nat : (Used("hook", i) => Used("hook", i)') /\ (Used("run", i) => Used("run", i)')
    BY <1>0, <2>1 DEF Used, Running
  <2>3. Running' => due' \subseteq Range(rw'.parts)
    BY <1>0, <2>1 DEF AgentsOk, CallsOk
  <2> QED BY <1>0, <1>1, <2>2, <2>3, CallsKeep DEF AgentsOk
<1> QED BY <1>2, <1>3

LEMMA ExplainCalls ==
    ASSUME AgentsOk, Untouched, NEW w \in WordLists, Explain(w)
    PROVE  CallsOk'
<1>1. pc = "idle" /\ pc' = "explained" /\ UNCHANGED <<calls, cwd>> /\ UNCHANGED log
  BY DEF Untouched, Explain
<1>2. UNCHANGED <<writer, acked>>
  BY <1>1 DEF log
<1> QED BY <1>1, <1>2, ShellFacts, CallsKeep DEF AgentsOk, Used, Running

LEMMA AskCalls ==
    ASSUME AgentsOk, pc = "idle", NEW l \in Lines0, NEW a \in Agents, NEW w \in Worlds, Ask(l, a, w)
    PROVE  CallsOk'
<1>0. writer[Call].pc = "idle" /\ calls \in Nat
  BY ShellFacts DEF AgentsOk, CallsOk
<1>1. /\ calls' = calls + 1 /\ cwd' = <<>> /\ rw' = Decide(l, a, w) /\ UNCHANGED log
      /\ due' \subseteq Range(rw'.parts)
  BY DEF Ask
<1>2. UNCHANGED <<writer, acked>>
  BY <1>1 DEF log
<1>3. ASSUME NEW x \in acked PROVE Spent(x.rec)'
  <2>1. Spent(x.rec)
    BY DEF AgentsOk, CallsOk
  <2>2. CASE \E v \in Writers \ {Call} : x.rec.by = <<v>>
    BY <2>2 DEF Spent
  <2>3. ASSUME NEW c \in 0 .. calls, NEW i \in Nat, x.rec.by = <<c, i>> PROVE Spent(x.rec)'
    <3>1. c \in 0 .. calls' /\ c # calls'
      BY <1>0, <1>1
    <3> QED BY <3>1, <2>3 DEF Spent
  <2> QED BY <2>1, <2>2, <2>3 DEF Spent
<1>4. ASSUME NEW x \in Writers, writer'[x].pc # "idle" PROVE Due(x)'
  BY <1>0, <1>2, <1>4 DEF Due, AgentsOk, CallsOk
<1>5. calls' \in Nat /\ cwd' \in Seq(Dir) /\ writer'[Call].pc = "idle"
  BY <1>0, <1>1, <1>2
<1> QED BY <1>1, <1>2, <1>3, <1>4, <1>5 DEF CallsOk

\* A record that begins: the one who makes it, and what stands of the others.
LEMMA BeginCalls ==
    ASSUME AgentsOk, NEW w \in Writers, NEW r \in LogLine, Readable(r), r.ts = now, Record(w, r),
           New(w, r), calls' = calls, cwd' = cwd, rw' = rw, Running, Running', due' \subseteq due,
           pc' \notin {"hook", "greeg"} => writer[Call].pc = "idle" /\ w # Call,
           \A i \in Nat : Used("hook", i) => Used("hook", i)',
           \A i \in Nat : Used("run", i) => Used("run", i)',
           IF w = Call THEN \E i \in Nat : r.by = <<calls, i>> /\ Used(r.kind, i)'
           ELSE r.by = <<w>> /\ \A a \in acked : a.rec.by # <<w>>
    PROVE  CallsOk' /\ NewMove
<1>1. NewMove
  BY DEF NewMove, NewStart
<1>2. PICK x : x = [Quiet EXCEPT !.pc = "create", !.rec = r]
  OBVIOUS
<1>3. x.rec = r
  BY <1>2 DEF Quiet
<1>4. writer' = [writer EXCEPT ![w] = x] /\ acked' = acked /\ writer \in [Writers -> Entry]
  BY <1>2, ShellFacts DEF Record
<1>5. writer'[w] = x /\ \A v \in Writers : v # w => writer'[v] = writer[v]
  BY <1>4
<1>6. ASSUME NEW a \in acked PROVE Spent(a.rec)'
  <2>1. Spent(a.rec) /\ a.rec.kind \in {"hook", "run"}
    BY ShellFacts DEF AgentsOk, CallsOk
  <2>2. CASE \E v \in Writers \ {Call} : a.rec.by = <<v>>
    BY <2>2 DEF Spent
  <2>3. ASSUME NEW c \in 0 .. calls, NEW i \in Nat, a.rec.by = <<c, i>>, c = calls => Used(a.rec.kind, i)
        PROVE  Spent(a.rec)'
    <3>1. c = calls' => Used(a.rec.kind, i)'
      BY <2>1, <2>3
    <3>2. c \in 0 .. calls'
      OBVIOUS
    <3> QED BY <3>1, <3>2, <2>3 DEF Spent
  <2> QED BY <2>1, <2>2, <2>3 DEF Spent
<1>7. ASSUME NEW v \in Writers, writer'[v].pc # "idle" PROVE Due(v)'
  <2>1. CASE v = w
    BY <2>1, <1>3, <1>4, <1>5 DEF Due
  <2>2. CASE v # w /\ v # Call
    <3>1. Due(v) /\ writer'[v] = writer[v]
      BY <2>2, <1>5, <1>7 DEF AgentsOk, CallsOk
    <3> QED BY <3>1, <2>2, <1>4 DEF Due
  <2>3. CASE v # w /\ v = Call
    <3>1. Due(v) /\ writer'[v] = writer[v] /\ writer[v].pc # "idle" /\ writer[v] \in Entry
      BY <2>3, <1>4, <1>5, <1>7 DEF AgentsOk, CallsOk
    <3>2. writer[v].rec.kind \in {"hook", "run"}
      BY <3>1 DEF AgentsOk, LogOk, WriterOk, Readable
    <3>3. PICK i \in Nat : writer[v].rec.by = <<calls, i>> /\ Used(writer[v].rec.kind, i)
      BY <3>1, <2>3 DEF Due
    <3>4. Used(writer[v].rec.kind, i)'
      BY <3>2, <3>3, <3>1 DEF Used
    <3> QED BY <3>1, <3>3, <3>4, <2>3 DEF Due
  <2> QED BY <2>1, <2>2, <2>3
<1>8. due' \subseteq Range(rw'.parts) /\ calls' \in Nat /\ cwd' \in Seq(Dir)
  BY DEF AgentsOk, CallsOk
<1>9. pc' \notin {"hook", "greeg"} => writer'[Call].pc = "idle"
  BY <1>5, ShellFacts
<1> QED BY <1>1, <1>4, <1>6, <1>7, <1>8, <1>9 DEF CallsOk

LEMMA DueParts ==
    ASSUME AgentsOk, Running, NEW p \in due
    PROVE  /\ p.at \in 1 .. Len(line) /\ line[p.at] \in Command
           /\ \A q \in due : q.at = p.at => q = p
<1>1. /\ line \in Seq(Command) /\ rw = Decide(line, agent, world) /\ rw.ok /\ due \subseteq Range(rw.parts)
      /\ Len(line) \in 0 .. Len(line)
  BY DEF AgentsOk, ShellSound, CallsOk
<1> DEFINE e == Walked(line)[Len(line)]
<1>2. rw.parts = e.parts
  BY <1>1, DecideIs
<1>3. \A k \in DOMAIN e.parts :
         /\ e.parts[k].at \in 1 .. Len(line)
         /\ e.parts[k] = PartOf(Before0(line, e.parts[k].at), line[e.parts[k].at])
  BY <1>1, PartsAre
<1> HIDE DEF e
<1>4. \A q \in due : q.at \in 1 .. Len(line) /\ q = PartOf(Before0(line, q.at), line[q.at])
  <2> SUFFICES ASSUME NEW q \in due PROVE q.at \in 1 .. Len(line) /\ q = PartOf(Before0(line, q.at), line[q.at])
    OBVIOUS
  <2>1. PICK k \in DOMAIN e.parts : q = e.parts[k]
    BY <1>1, <1>2 DEF Range
  <2> QED BY <2>1, <1>3
<1>5. \A q \in due : q.at = p.at => q = p
  BY <1>4
<1>6. p.at \in 1 .. Len(line)
  BY <1>4
<1>7. line[p.at] \in Command
  BY <1>1, <1>6
<1> QED BY <1>5, <1>6, <1>7

\* A record of this call is new if it may not have made it yet.
LEMMA NewOfCall ==
    ASSUME AgentsOk, NEW r, NEW i \in Nat, r.by = <<calls, i>>, ~Used(r.kind, i)
    PROVE  New(Call, r)
<1>1. ASSUME NEW a \in acked, a.rec = r PROVE FALSE
  <2>1. Spent(r)
    BY <1>1 DEF AgentsOk, CallsOk
  <2>2. \A v : r.by # <<v>>
    BY Tuples
  <2>3. PICK c \in 0 .. calls, j \in Nat : r.by = <<c, j>> /\ (c = calls => Used(r.kind, j))
    BY <2>1, <2>2 DEF Spent
  <2>4. c = calls /\ j = i
    BY <2>3, Tuples
  <2> QED BY <2>3, <2>4
<1>2. ASSUME NEW v \in Writers, v # Call, writer[v].pc # "idle" PROVE writer[v].rec # r
  <2>1. writer[v].rec.by = <<v>>
    BY <1>2 DEF AgentsOk, CallsOk, Due
  <2> QED BY <2>1, Tuples
<1> QED BY <1>1, <1>2 DEF New

LEMMA RecordHookCalls ==
    ASSUME AgentsOk, RecordHook
    PROVE  CallsOk' /\ NewMove
<1>1. PICK p \in due : /\ \A q \in due : p.at <= q.at
                       /\ Record(Call, Hook(Id(<<>>, line[p.at]), By(p.at), now))
                       /\ due' = due \ {p}
  BY DEF RecordHook
<1>2. /\ pc = "hook" /\ pc' = "hook" /\ Running /\ Running' /\ calls' = calls /\ cwd' = cwd /\ rw' = rw /\ at' = at
  BY DEF RecordHook, Running
<1>3. p.at \in 1 .. Len(line) /\ line[p.at] \in Command /\ (\A q \in due : q.at = p.at => q = p) /\ p.at \in Nat
  BY <1>2, DueParts
<1>4. PICK r : r = Hook(Id(<<>>, line[p.at]), By(p.at), now)
  OBVIOUS
<1>5. <<>> \in Seq(Dir)
  OBVIOUS
<1>6. r \in LogLine /\ Readable(r) /\ r.ts = now /\ r.by = <<calls, p.at>> /\ r.kind = "hook"
  <2>1. PICK d, c, i : d = <<>> /\ c = line[p.at] /\ i = p.at
    OBVIOUS
  <2>2. d \in Seq(Dir) /\ c \in Command /\ i \in Nat /\ r = Hook(Id(d, c), By(i), now) /\ LogOk /\ CallsOk
    BY <2>1, <1>3, <1>4, <1>5 DEF AgentsOk
  <2>3. r \in LogLine /\ Readable(r) /\ r.ts = now /\ r.by = <<calls, i>> /\ r.kind = "hook"
    BY <2>2, HookLine
  <2> QED BY <2>1, <2>3
<1>7. ~Used(r.kind, p.at)
  BY <1>2, <1>6 DEF Used
<1>8. New(Call, r)
  BY <1>3, <1>6, <1>7, NewOfCall
<1>9. \A i \in Nat : (Used("hook", i) => Used("hook", i)') /\ (Used("run", i) => Used("run", i)')
  BY <1>1, <1>2 DEF Used
<1>10. Used(r.kind, p.at)'
  BY <1>1, <1>3, <1>6 DEF Used
<1>11. Call \in Writers /\ due' \subseteq due /\ Record(Call, r)
  BY <1>1, <1>4, ShellFacts
<1>12. \E i \in Nat : r.by = <<calls, i>> /\ Used(r.kind, i)'
  BY <1>3, <1>6, <1>10
<1> QED BY <1>2, <1>6, <1>8, <1>9, <1>11, <1>12, BeginCalls

LEMMA GreegCalls ==
    ASSUME AgentsOk, Greeg
    PROVE  CallsOk' /\ NewMove
<1>1. /\ pc = "shell" /\ pc' = "greeg" /\ at <= Len(line) /\ Running /\ Running'
      /\ calls' = calls /\ cwd' = cwd /\ rw' = rw /\ at' = at /\ due' = due
      /\ Record(Call, Run(Id(cwd, line[at]), By(at), now))
  BY DEF Greeg, InShell, Running
<1>2. line \in Seq(Command) /\ at \in 1 .. Len(line) + 1
  BY <1>1 DEF AgentsOk, ShellSound
<1>3. at \in 1 .. Len(line) /\ at \in Nat
  BY <1>1, <1>2
<1>4. line[at] \in Command /\ cwd \in Seq(Dir)
  BY <1>2, <1>3, ShellFacts
<1>5. PICK r : r = Run(Id(cwd, line[at]), By(at), now)
  OBVIOUS
<1>6. r \in LogLine /\ Readable(r) /\ r.ts = now /\ r.by = <<calls, at>> /\ r.kind = "run"
  BY <1>3, <1>4, <1>5, HookLine DEF AgentsOk
<1>7. ~Used(r.kind, at)
  BY <1>1, <1>3, <1>6 DEF Used
<1>8. New(Call, r)
  BY <1>3, <1>6, <1>7, NewOfCall
<1>9. \A i \in Nat : (Used("hook", i) => Used("hook", i)') /\ (Used("run", i) => Used("run", i)')
  BY <1>1 DEF Used
<1>10. PICK n \in Nat : n = at
  BY <1>3
<1>13. Used(r.kind, n)'
  BY <1>1, <1>6, <1>10 DEF Used
<1>11. Call \in Writers /\ due' \subseteq due /\ Record(Call, r)
  BY <1>1, <1>5, ShellFacts
<1>12. \E i \in Nat : r.by = <<calls, i>> /\ Used(r.kind, i)'
  BY <1>6, <1>10, <1>13
<1> QED BY <1>1, <1>6, <1>8, <1>9, <1>11, <1>12, BeginCalls

LEMMA ElsewhereCalls ==
    ASSUME AgentsOk, NEW w \in Writers, NEW k \in {"hook", "run"}, Elsewhere(w, k)
    PROVE  CallsOk' /\ NewMove
<1>1. PICK r : r = [kind |-> k, id |-> <<<<>>, "x">>, by |-> <<w>>, ts |-> now]
  OBVIOUS
<1>2. /\ w # Call /\ Running /\ (\A a \in acked : a.rec.by # <<w>>) /\ Record(w, r)
      /\ UNCHANGED <<calls, cwd, rw, pc, due, at>>
  BY <1>1 DEF Elsewhere, Running, shell
<1>3. r.by = <<w>> /\ r.ts = now /\ Readable(r)
  BY <1>1 DEF Readable
<1>4. r \in LogLine
  <2>1. "x" \in Dir /\ <<>> \in Seq(Dir)
    BY DEF Dir
  <2>2. <<<<>>, "x">> \in Ids
    BY <2>1 DEF Ids
  <2>3. <<w>> \in Bys /\ now \in Nat
    BY DEF Bys, AgentsOk, LogOk, FilesOk
  <2> QED BY <1>1, <2>2, <2>3 DEF LogLine
<1>5. New(w, r)
  <2>1. \A a \in acked : a.rec # r
    BY <1>2, <1>3
  <2>2. ASSUME NEW v \in Writers, v # w, writer[v].pc # "idle" PROVE writer[v].rec # r
    <3>1. Due(v)
      BY <2>2 DEF AgentsOk, CallsOk
    <3> QED BY <3>1, <2>2, <1>3, Tuples DEF Due
  <2> QED BY <2>1, <2>2 DEF New
<1>6. \A i \in Nat : (Used("hook", i) => Used("hook", i)') /\ (Used("run", i) => Used("run", i)')
  BY <1>2 DEF Used, Running
<1>7. Running' /\ due' \subseteq due /\ (pc' \notin {"hook", "greeg"} => writer[Call].pc = "idle")
  BY <1>2, ShellFacts DEF Running
<1> QED BY <1>2, <1>3, <1>4, <1>5, <1>6, <1>7, BeginCalls

\* The log goes on.
LEMMA LogCalls ==
    ASSUME AgentsOk, LogNext, UNCHANGED shell
    PROVE  CallsOk' /\ NewMove
<1>0. NewMove
  BY DEF NewMove
<1>1. UNCHANGED <<calls, cwd, rw, pc, due, at>>
  BY DEF shell
<1>2. \A k, i : Used(k, i)' <=> Used(k, i)
  BY <1>1 DEF Used, Running
<1>3. \A v \in Writers : /\ writer'[v].pc # "idle" => writer[v].pc # "idle" /\ writer'[v].rec = writer[v].rec
  <2>1. ASSUME NEW w \in Writers,
               Create(w) \/ Open(w) \/ Size(w) \/ Lock(w) \/ Again(w) \/ Rename(w)
        PROVE  \A v \in Writers : writer'[v].pc # "idle" => writer[v].pc # "idle" /\ writer'[v].rec = writer[v].rec
    BY <2>1, SameRecord DEF AgentsOk
  <2>2. ASSUME NEW w \in Writers, Write(w)
        PROVE  \A v \in Writers : writer'[v].pc # "idle" => writer[v].pc # "idle" /\ writer'[v].rec = writer[v].rec
    BY <2>2, ShellFacts DEF Write, Stop, Quiet
  <2>3. CASE ClearCurrent \/ ClearOlder \/ ReadOlder \/ ReadCurrent \/ Tick
    BY <2>3 DEF ClearCurrent, ClearOlder, ReadOlder, ReadCurrent, Tick
  <2> QED BY <2>1, <2>2, <2>3 DEF LogNext
<1>4. \A a \in acked' : \/ a \in acked
                        \/ \E w \in Writers : /\ writer[w].pc = "write" /\ a.rec = writer[w].rec
                                              /\ writer'[w].pc = "idle"
  <2>1. ASSUME NEW w \in Writers,
               Create(w) \/ Open(w) \/ Size(w) \/ Lock(w) \/ Again(w) \/ Rename(w)
        PROVE  acked' = acked
    BY <2>1, SameRecord DEF AgentsOk
  <2>2. ASSUME NEW w \in Writers, Write(w), NEW a \in acked', a \notin acked
        PROVE  writer[w].pc = "write" /\ a.rec = writer[w].rec /\ writer'[w].pc = "idle"
    <3>1. PICK b : b = Joined(data[writer[w].fd])
      OBVIOUS
    <3>2. a = [rec |-> writer[w].rec, fd |-> writer[w].fd, rot |-> writer[w].rot, joined |-> b]
      BY <2>2, <3>1 DEF Write
    <3>3. a.rec = writer[w].rec
      BY <3>2
    <3> QED BY <2>2, <3>3, ShellFacts DEF Write, Stop, Quiet
  <2>3. CASE ClearCurrent \/ ClearOlder \/ ReadOlder \/ ReadCurrent \/ Tick
    BY <2>3 DEF ClearCurrent, ClearOlder, ReadOlder, ReadCurrent, Tick
  <2> QED BY <2>1, <2>2, <2>3 DEF LogNext
<1>5. ASSUME NEW a \in acked' PROVE Spent(a.rec)'
  <2>1. Spent(a.rec)
    <3>1. CASE a \in acked
      BY <3>1 DEF AgentsOk, CallsOk
    <3>2. ASSUME NEW w \in Writers, writer[w].pc = "write", a.rec = writer[w].rec PROVE Spent(a.rec)
      <4>1. Due(w)
        BY <3>2 DEF AgentsOk, CallsOk
      <4>2. calls \in 0 .. calls
        BY DEF AgentsOk, CallsOk
      <4> QED BY <4>1, <4>2, <3>2 DEF Due, Spent
    <3> QED BY <3>1, <3>2, <1>4
  <2> QED BY <2>1, <1>1, <1>2 DEF Spent
<1>6. ASSUME NEW v \in Writers, writer'[v].pc # "idle" PROVE Due(v)'
  <2>1. Due(v) /\ writer'[v].rec = writer[v].rec
    BY <1>3, <1>6 DEF AgentsOk, CallsOk
  <2>2. CASE v = Call
    BY <2>1, <2>2, <1>1, <1>2 DEF Due
  <2>3. CASE v # Call
    <3>1. writer[v].rec.by = <<v>> /\ \A a \in acked : a.rec.by # <<v>>
      BY <2>1, <2>3 DEF Due
    <3>2. ASSUME NEW a \in acked', a.rec.by = <<v>> PROVE FALSE
      <4>1. PICK w \in Writers : writer[w].pc = "write" /\ a.rec = writer[w].rec /\ writer'[w].pc = "idle"
        BY <1>4, <3>1, <3>2
      <4>2. Due(w) /\ w # v
        BY <4>1, <1>6 DEF AgentsOk, CallsOk
      <4> QED BY <4>1, <4>2, <3>2, Tuples DEF Due
    <3> QED BY <3>1, <3>2, <2>1, <2>3 DEF Due
  <2> QED BY <2>2, <2>3
<1>7. /\ calls' \in Nat /\ cwd' \in Seq(Dir) /\ (Running' => due' \subseteq Range(rw'.parts))
  BY <1>1 DEF AgentsOk, CallsOk, Running
<1>8. pc' \notin {"hook", "greeg"} => writer'[Call].pc = "idle"
  BY <1>1, <1>3, ShellFacts
<1> QED BY <1>0, <1>5, <1>6, <1>7, <1>8 DEF CallsOk

-----------------------------------------------------------------------------

LEMMA CallStep == AgentsOk /\ [Next]_vars => CallsOk' /\ NewMove
<1> SUFFICES ASSUME AgentsOk, [Next]_vars PROVE CallsOk' /\ NewMove
  OBVIOUS
<1>1. ASSUME NEW l \in Lines0, NEW a \in Agents, NEW w \in Worlds, pc = "idle", Ask(l, a, w)
      PROVE  CallsOk' /\ NewMove
  BY <1>1, AskCalls DEF Ask, NewMove, log
<1>2. CASE Skip \/ Cd \/ Other \/ LineEnds \/ HookEnds
  <2>1. UNCHANGED log
    BY <1>2 DEF Skip, Cd, Other, LineEnds, HookEnds
  <2> QED BY <1>2, <2>1, PassCalls DEF NewMove
<1>3. CASE HookDies \/ GreegEnds
  <2>1. Kills \/ UNCHANGED log
    BY <1>3, ShellFacts DEF HookDies, GreegEnds, Kills
  <2> QED BY <1>3, <2>1, EndCalls DEF NewMove
<1>4. ASSUME NEW w \in WordLists, Untouched, Explain(w) PROVE CallsOk' /\ NewMove
  <2>1. UNCHANGED log
    BY <1>4 DEF Explain
  <2> QED BY <1>4, <2>1, ExplainCalls DEF NewMove
<1>5. CASE UNCHANGED vars
  <2>1. UNCHANGED <<calls, cwd, rw, pc, due, at, acked, writer>> /\ UNCHANGED log
    BY <1>5 DEF vars, shell, log
  <2>2. \A k, i : Used(k, i)' <=> Used(k, i)
    BY <2>1 DEF Used, Running
  <2> QED BY <2>1, <2>2 DEF NewMove, AgentsOk, CallsOk, Running, Spent, Due
<1> QED BY <1>1, <1>2, <1>3, <1>4, <1>5, RecordHookCalls, GreegCalls, ElsewhereCalls, LogCalls DEF Next

LEMMA AgentsStep == AgentsOk /\ [Next]_vars => AgentsOk'
<1> SUFFICES ASSUME AgentsOk, [Next]_vars PROVE AgentsOk'
  OBVIOUS
<1>1. CallsOk' /\ NewMove /\ LogMove
  BY CallStep, NewMoves
<1>2. ShellSound'
  BY ShellStep DEF AgentsOk
<1> QED BY <1>1, <1>2, LogStep, LockStep, LinesStep, ReaderStep DEF AgentsOk

LEMMA AgentsStart == Init => AgentsOk
<1> SUFFICES ASSUME Init PROVE AgentsOk
  OBVIOUS
<1>1. LogInit
  BY DEF Init
<1>2. CallsOk
  <2>1. /\ acked = {} /\ calls = 0 /\ cwd = <<>> /\ pc = "idle"
        /\ \A w \in Writers : writer[w].pc = "idle"
    BY <1>1 DEF Init, LogInit, Quiet
  <2>2. Call \in Writers
    BY CallsAssumption DEF CallAssumption
  <2> QED BY <2>1, <2>2 DEF CallsOk, Running
<1> QED BY <1>1, <1>2, ShellInit, LogStart, LockStart, LinesStart, ReaderStart DEF AgentsOk

\* However many write to the log, rotate it, clear it and read it, and whatever
\* fails, a record is kept for two rotations, only a full file is rotated, a
\* reader finds nothing twice, and a run with no other event of its command
\* since its hook is paired with that hook (stats.rs `append_in`, `pair_runs`).
THEOREM LogKeepsRecords == PartsSpec => []LogSound
<1>1. AgentsOk => LogSound
  BY KeptHolds, RotatedHolds, ReadHolds, OwnHolds DEF AgentsOk, LogOk, LogSound
<1> QED BY <1>1, AgentsStart, AgentsStep, CallsAreRuns, PTL DEF Spec

=============================================================================
