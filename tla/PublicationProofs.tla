--------------------------- MODULE PublicationProofs ---------------------------
(***************************************************************************)
(* What the two guards of a publication promise: that the publication      *)
(* guard lets no private name through and hands out no placeholder twice,  *)
(* for any number of worktrees, files, repositories and lines; and that    *)
(* the stack push guard moves branches as approved, for any number of      *)
(* invocations, branches, commits and URLs.  The two share no state.       *)
(***************************************************************************)
EXTENDS PublicationGuard, StackPush, FiniteSetTheorems, TLAPS

(***************************************************************************)
(* The publication guard.                                                  *)
(*                                                                         *)
(* The argument, of the names: from its scan on, whatever private name is  *)
(* left in what a run is to publish is one it found private, in a file it  *)
(* has still to rewrite (CheckedIn); what nobody changed since keeps that. *)
(* Of the placeholders: the map of the run that holds the lock extends the *)
(* saved one (ShapeOf), and whatever placeholder stands in a line means    *)
(* what the map in force says (PlaceholdersAgree).                         *)
(***************************************************************************)
Line == [repo : Repo, form : Form, placeholder : Int]
Run == [pc : {"idle", "scan", "lock", "next", "worktree", "save"},
        op : {"none", "staged", "pr"}, todo : SUBSET File, file : File \cup {NoFile},
        private : SUBSET Repo, map : Seq(Repo), exit : Int, wrote : BOOLEAN, fresh : BOOLEAN]

GuardType ==
    /\ head \in [Worktree -> [File -> SUBSET Line]]
    /\ index \in [Worktree -> [File -> SUBSET Line]]
    /\ work \in [Worktree -> [File -> SUBSET Line]]
    /\ text \in [Worktree -> SUBSET Line]
    /\ saved \in Seq(Repo)
    /\ lock \in Worktree \cup {NoWorktree}
    /\ run \in [Worktree -> Run]
    /\ published \subseteq Line
    /\ torn \in BOOLEAN

\* A run holds the lock from the map on, and has written nothing before.
Rewriting(w) == run[w].pc \in {"next", "worktree", "save"}
ShapeOf(w) ==
    /\ Rewriting(w) <=> lock = w
    /\ run[w].pc \in {"scan", "lock"} => ~run[w].wrote
    /\ run[w].pc = "worktree" => run[w].file \in File
    /\ run[w].pc = "save" => run[w].todo = {}
    /\ lock = w => IsPrefix(saved, run[w].map)
RunShape == \A w \in Worktree : ShapeOf(w)

\* A name that must not be published.
IsNamed(l) == l.placeholder = 0 /\ IsPrivate(l.repo, {l.form})
Clean(lines) == \A l \in lines : ~IsNamed(l)
Known(lines, repos) == \A l \in lines : IsNamed(l) => l.repo \in repos

CheckedIn(w) ==
    run[w].fresh =>
        /\ run[w].pc = "idle" /\ run[w].exit = 0 =>
             /\ Clean(text[w])
             /\ run[w].op # "pr" => \A f \in File : Clean(index[w][f])
        /\ run[w].pc = "save" => Clean(text[w])
        /\ run[w].pc \in {"lock", "next", "worktree"} => Known(text[w], run[w].private)
        /\ run[w].pc \in {"lock", "next", "worktree", "save"} /\ run[w].op # "pr" =>
             \A f \in File : /\ Known(index[w][f], run[w].private)
                             /\ f \notin run[w].todo => Clean(index[w][f])
Checked == \A w \in Worktree : CheckedIn(w)
HeadsAreClean == \A w \in Worktree, f \in File : Clean(head[w][f])

\* A line says what the map says of its placeholder.
Agrees(map, lines) ==
    \A l \in lines : l.placeholder > 0 => /\ l.placeholder \in DOMAIN map
                                          /\ map[l.placeholder] = l.repo
\* The map in force: that of a run once it has rewritten something.
InForce == IF lock \in Worktree /\ run[lock].wrote THEN run[lock].map ELSE saved
AllAgree(map) ==
    /\ Agrees(map, published)
    /\ \A w \in Worktree :
         /\ Agrees(map, text[w])
         /\ \A f \in File : /\ Agrees(map, head[w][f])
                            /\ Agrees(map, index[w][f])
                            /\ Agrees(map, work[w][f])
PlaceholdersAgree == torn \/ AllAgree(InForce)

GuardInv ==
    /\ GuardType
    /\ RunShape
    /\ Checked
    /\ HeadsAreClean
    /\ NothingPrivateIsPublished
    /\ PlaceholdersAgree

GuardSpec == GuardInit /\ [][GuardNext]_guardVars

-----------------------------------------------------------------------------
\* What the operators on maps and lines do.
LEMMA SetToSeqLists ==
  ASSUME NEW S, IsFiniteSet(S)
  PROVE  SetToSeq(S) \in Seq(S) /\ ToSet(SetToSeq(S)) = S
<1> DEFINE n == Cardinality(S)
           list == SetToSeq(S)
<1>1. n \in Nat /\ \E f \in [1..n -> S] : IsInjective(f)
  <2>1. n \in Nat /\ ExistsBijection(1..n, S)
    BY FS_CardinalityType
  <2>2. QED
    BY <2>1 DEF ExistsBijection, Bijection, Injection
<1>2. list \in [1..n -> S] /\ IsInjective(list)
  BY <1>1 DEF SetToSeq
<1>3. list \in Injection(1..n, S)
  BY <1>2 DEF Injection
<1>4. Cardinality(1..n) = n
  BY <1>1, FS_Interval
<1> HIDE DEF list
<1>5. list \in Surjection(1..n, S)
  BY <1>3, <1>4, FS_Injection
<1>6. list \in Seq(S) /\ DOMAIN list = 1..n
  BY <1>1, <1>2
<1>7. ToSet(list) = S
  BY <1>2, <1>5, <1>6 DEF ToSet, Surjection
<1>8. QED
  BY <1>6, <1>7 DEF list

\* A prefix, element by element.
LEMMA PrefixMeans ==
  ASSUME NEW s \in Seq(Repo), NEW t \in Seq(Repo)
  PROVE  IsPrefix(s, t) <=> Len(s) <= Len(t) /\ \A i \in 1..Len(s) : s[i] = t[i]
<1>1. ASSUME Len(s) <= Len(t)
      PROVE  SubSeq(s, 1, Len(s)) = SubSeq(t, 1, Len(s)) <=> \A i \in 1..Len(s) : s[i] = t[i]
  <2>1. /\ SubSeq(s, 1, Len(s)) \in Seq(Repo) /\ SubSeq(t, 1, Len(s)) \in Seq(Repo)
        /\ Len(SubSeq(s, 1, Len(s))) = Len(s) /\ Len(SubSeq(t, 1, Len(s))) = Len(s)
        /\ \A i \in 1..Len(s) : SubSeq(s, 1, Len(s))[i] = s[i] /\ SubSeq(t, 1, Len(s))[i] = t[i]
    BY <1>1
  <2>2. QED
    BY <2>1
<1>2. QED
  BY <1>1 DEF IsPrefix

LEMMA PrefixOrder ==
  ASSUME NEW r \in Seq(Repo), NEW s \in Seq(Repo), NEW t \in Seq(Repo)
  PROVE  /\ IsPrefix(s, s)
         /\ IsPrefix(r, s) /\ IsPrefix(s, t) => IsPrefix(r, t)
<1>1. IsPrefix(s, s)
  BY PrefixMeans
<1>2. ASSUME IsPrefix(r, s), IsPrefix(s, t) PROVE IsPrefix(r, t)
  BY <1>2, PrefixMeans
<1>3. QED
  BY <1>1, <1>2

\* A map that grows keeps what it said, and knows every repository it was to.
LEMMA MappedExtends ==
  ASSUME NEW map \in Seq(Repo), NEW repos \in SUBSET Repo
  PROVE  /\ Mapped(map, repos) \in Seq(Repo)
         /\ IsPrefix(map, Mapped(map, repos))
         /\ repos \subseteq ToSet(Mapped(map, repos))
<1> DEFINE new == SetToSeq(repos \ ToSet(map))
           all == Mapped(map, repos)
<1>1. IsFiniteSet(repos \ ToSet(map))
  BY RepoAssumption, FS_Subset
<1>2. new \in Seq(repos \ ToSet(map)) /\ ToSet(new) = repos \ ToSet(map)
  BY <1>1, SetToSeqLists
<1>3. new \in Seq(Repo) /\ all = map \o new
  BY <1>2 DEF Mapped
<1> HIDE DEF new, all
<1>4. /\ all \in Seq(Repo) /\ Len(all) = Len(map) + Len(new)
      /\ \A i \in 1..Len(map) : all[i] = map[i]
      /\ \A i \in 1..Len(new) : all[Len(map) + i] = new[i]
  BY <1>3
<1>5. IsPrefix(map, all)
  BY <1>4, PrefixMeans
<1>6. repos \subseteq ToSet(all)
  <2> SUFFICES ASSUME NEW r \in repos PROVE \E i \in DOMAIN all : all[i] = r
    BY DEF ToSet
  <2>1. CASE r \in ToSet(map)
    <3>1. PICK i \in 1..Len(map) : map[i] = r
      BY <2>1 DEF ToSet
    <3>2. QED
      BY <1>4, <3>1
  <2>2. CASE r \notin ToSet(map)
    <3>1. PICK i \in 1..Len(new) : new[i] = r
      BY <1>2, <1>3, <2>2 DEF ToSet
    <3>2. Len(map) + i \in DOMAIN all /\ all[Len(map) + i] = r
      BY <1>3, <1>4, <3>1
    <3>3. QED
      BY <3>2
  <2>3. QED
    BY <2>1, <2>2
<1>7. QED
  BY <1>4, <1>5, <1>6 DEF all

LEMMA PlaceholderIs ==
  ASSUME NEW map \in Seq(Repo), NEW repo \in ToSet(map)
  PROVE  /\ Placeholder(map, repo) \in DOMAIN map
         /\ map[Placeholder(map, repo)] = repo
         /\ Placeholder(map, repo) \in Nat \ {0}
<1>1. \E i \in DOMAIN map : map[i] = repo
  BY DEF ToSet
<1>2. QED
  BY <1>1 DEF Placeholder

LEMMA AgreesMore ==
  ASSUME NEW m \in Seq(Repo), NEW n \in Seq(Repo), IsPrefix(m, n),
         NEW lines \in SUBSET Line, Agrees(m, lines)
  PROVE  Agrees(n, lines)
<1>1. Len(m) <= Len(n) /\ \A i \in 1..Len(m) : m[i] = n[i]
  BY PrefixMeans
<1>2. QED
  BY <1>1 DEF Agrees, Line

LEMMA AllAgreeMore ==
  ASSUME GuardType, NEW m \in Seq(Repo), NEW n \in Seq(Repo), IsPrefix(m, n), AllAgree(m)
  PROVE  AllAgree(n)
<1>1. \A w \in Worktree : Agrees(n, text[w])
  BY AgreesMore DEF GuardType, AllAgree
<1>2. Agrees(n, published)
  BY AgreesMore DEF GuardType, AllAgree
<1>3. ASSUME NEW w \in Worktree, NEW f \in File
      PROVE  Agrees(n, head[w][f]) /\ Agrees(n, index[w][f]) /\ Agrees(n, work[w][f])
  <2>1. /\ head[w][f] \in SUBSET Line /\ index[w][f] \in SUBSET Line
        /\ work[w][f] \in SUBSET Line
    BY <1>3 DEF GuardType
  <2>2. Agrees(m, head[w][f]) /\ Agrees(m, index[w][f]) /\ Agrees(m, work[w][f])
    BY <1>3 DEF AllAgree
  <2>3. QED
    BY <2>1, <2>2, AgreesMore
<1>4. QED
  BY <1>1, <1>2, <1>3 DEF AllAgree

\* The scan finds every name that must not be published.
LEMMA NamesAreFound ==
  ASSUME NEW lines \in SUBSET Line, NEW l \in lines, IsNamed(l)
  PROVE  l.repo \in PrivateIn(lines)
<1>1. l.repo \in Candidates(lines)
  BY DEF IsNamed, Candidates
<1>2. l.form \in Forms(lines, l.repo)
  BY DEF IsNamed, Forms
<1>3. IsPrivate(l.repo, Forms(lines, l.repo))
  <2>1. Forms(lines, l.repo) = {"bare"} => {l.form} = {"bare"}
    BY <1>2
  <2>2. IsPrivate(l.repo, {l.form})
    BY DEF IsNamed
  <2>3. QED
    BY <2>1, <2>2 DEF IsPrivate
<1>4. QED
  BY <1>1, <1>3 DEF PrivateIn

\* A rewritten document: its map knows its placeholders, and no private name is
\* left that the run knows and the base does not publish already.
LEMMA DocumentIs ==
  ASSUME NEW w \in Worktree, NEW f \in File,
         NEW content \in SUBSET Line, NEW base \in SUBSET Line,
         NEW map, map = MapFor(w, f, content, base),
         NEW new, new = Document(w, f, map, content, base),
         run[w].private \in SUBSET Repo, run[w].map \in Seq(Repo)
  PROVE  /\ map \in Seq(Repo) /\ IsPrefix(run[w].map, map)
         /\ new \in SUBSET Line
         /\ Agrees(map, content) => Agrees(map, new)
         /\ Known(content, run[w].private) /\ Clean(base) => Clean(new)
<1> DEFINE old == ToRewrite(w, content, base)
           repos == {l.repo : l \in old}
<1>1. old \subseteq content /\ repos \subseteq Repo
  BY DEF ToRewrite, Added, Line
<1>2. map = IF f \in Data THEN Mapped(run[w].map, repos) ELSE run[w].map
  BY DEF MapFor
<1>3. \A l \in old : l.placeholder = 0
  BY DEF ToRewrite
<1>4. \A l \in content \ old : IsNamed(l) => l \in base \/ l.repo \notin run[w].private
  BY DEF ToRewrite, Added, IsNamed
<1>5. new = (content \ old) \cup
            {IF f \in Data THEN [l EXCEPT !.placeholder = Placeholder(map, l.repo)]
             ELSE Neutral(l) : l \in old}
  BY DEF Document
<1>6. ASSUME NEW l \in old PROVE l.repo \in repos
  OBVIOUS
<1> HIDE DEF old, repos
<1>7. map \in Seq(Repo) /\ IsPrefix(run[w].map, map) /\ (f \in Data => repos \subseteq ToSet(map))
  BY <1>1, <1>2, MappedExtends, PrefixOrder
<1>8. ASSUME NEW l \in new
      PROVE  \/ l \in content \ old
             \/ /\ l \in Line /\ l.placeholder = -1
             \/ /\ l \in Line /\ l.placeholder \in DOMAIN map /\ l.placeholder > 0
                /\ map[l.placeholder] = l.repo
  <2> SUFFICES ASSUME l \notin content \ old
               PROVE  \/ /\ l \in Line /\ l.placeholder = -1
                      \/ /\ l \in Line /\ l.placeholder \in DOMAIN map /\ l.placeholder > 0
                         /\ map[l.placeholder] = l.repo
    OBVIOUS
  <2>1. PICK k \in old : l = IF f \in Data THEN [k EXCEPT !.placeholder = Placeholder(map, k.repo)]
                             ELSE Neutral(k)
    BY <1>5, <1>8
  <2>2. k \in Line
    BY <1>1, <2>1
  <2>3. CASE f \notin Data
    BY <2>1, <2>2, <2>3 DEF Neutral, Line
  <2>4. CASE f \in Data
    <3> DEFINE p == Placeholder(map, k.repo)
    <3>1. p \in DOMAIN map /\ map[p] = k.repo /\ p \in Nat \ {0}
      BY <1>6, <1>7, <2>1, <2>4, PlaceholderIs
    <3>2. l = [k EXCEPT !.placeholder = p]
      BY <2>1, <2>4
    <3> HIDE DEF p
    <3>3. l \in Line /\ l.placeholder = p /\ l.repo = k.repo
      BY <2>2, <3>1, <3>2 DEF Line
    <3>4. QED
      BY <3>1, <3>3
  <2>5. QED
    BY <2>3, <2>4
<1>9. new \in SUBSET Line
  BY <1>1, <1>8
<1>10. ASSUME Agrees(map, content) PROVE Agrees(map, new)
  BY <1>8, <1>10 DEF Agrees
<1>11. ASSUME Known(content, run[w].private), Clean(base) PROVE Clean(new)
  <2> SUFFICES ASSUME NEW l \in new, IsNamed(l) PROVE FALSE
    BY DEF Clean
  <2>1. l \in content \ old
    BY <1>8 DEF IsNamed
  <2>2. l \in base \/ l.repo \notin run[w].private
    BY <1>4, <2>1
  <2>3. QED
    BY <1>11, <2>1, <2>2 DEF Known, Clean
<1>12. QED
  BY <1>7, <1>9, <1>10, <1>11

LEMMA RewritingIs ==
  ASSUME NEW w \in Worktree, NEW f \in File,
         NEW content \in SUBSET Line, NEW base \in SUBSET Line,
         run[w].private \in SUBSET Repo, run[w].map \in Seq(Repo)
  PROVE  LET map == MapFor(w, f, content, base)
             new == Document(w, f, map, content, base)
         IN  /\ map \in Seq(Repo) /\ IsPrefix(run[w].map, map)
             /\ new \in SUBSET Line
             /\ Agrees(map, content) => Agrees(map, new)
             /\ Known(content, run[w].private) /\ Clean(base) => Clean(new)
<1>1. PICK map : map = MapFor(w, f, content, base)
  OBVIOUS
<1>2. PICK new : new = Document(w, f, map, content, base)
  OBVIOUS
<1>3. /\ map \in Seq(Repo) /\ IsPrefix(run[w].map, map)
      /\ new \in SUBSET Line
      /\ Agrees(map, content) => Agrees(map, new)
      /\ Known(content, run[w].private) /\ Clean(base) => Clean(new)
  BY <1>1, <1>2, DocumentIs
<1>4. QED
  BY <1>1, <1>2, <1>3

-----------------------------------------------------------------------------
\* What a step in one worktree leaves to the others.
LEMMA OtherWorktrees ==
  ASSUME GuardInv, NEW w \in Worktree, NEW v \in Worktree,
         run'[v] = run[v], text'[v] = text[v], index'[v] = index[v],
         lock' = v <=> lock = v, lock = v => saved' = saved
  PROVE  ShapeOf(v)' /\ CheckedIn(v)'
<1>1. ShapeOf(v) /\ CheckedIn(v)
  BY DEF GuardInv, RunShape, Checked
<1>2. ShapeOf(v)'
  BY <1>1 DEF ShapeOf, Rewriting
<1>3. CheckedIn(v)'
  BY <1>1 DEF CheckedIn
<1>4. QED
  BY <1>2, <1>3

\* A map in force that is saved or that of another's run stays in force.
LEMMA SameInForce ==
  ASSUME NEW w \in Worktree, lock # w, lock' = lock, saved' = saved,
         \A v \in Worktree \ {w} : run'[v] = run[v]
  PROVE  InForce' = InForce
  BY DEF InForce

LEMMA InForceIs ==
  ASSUME GuardInv
  PROVE  /\ InForce \in Seq(Repo)
         /\ lock \notin Worktree => InForce = saved
         /\ \A w \in Worktree : lock = w => /\ IsPrefix(InForce, run[w].map)
                                            /\ ~run[w].wrote => InForce = saved
                                            /\ run[w].wrote => InForce = run[w].map
<1>1. GuardType /\ RunShape
  BY DEF GuardInv
<1>2. \A w \in Worktree : run[w].map \in Seq(Repo)
  BY <1>1 DEF GuardType, Run
<1>3. InForce \in Seq(Repo)
  BY <1>1, <1>2 DEF GuardType, InForce
<1>4. ASSUME NEW w \in Worktree, lock = w
      PROVE  IsPrefix(InForce, run[w].map)
  <2>1. IsPrefix(saved, run[w].map) /\ IsPrefix(run[w].map, run[w].map)
    BY <1>1, <1>2, <1>4, PrefixOrder DEF RunShape, ShapeOf
  <2>2. QED
    BY <1>4, <2>1 DEF InForce
<1>5. QED
  BY <1>3, <1>4 DEF InForce

\* Where the lines stay as they are.
LEMMA SameLines ==
  ASSUME GuardInv, UNCHANGED <<head, index, work, text, published>>, GuardType', torn' = torn,
         torn \/ InForce' = InForce
  PROVE  HeadsAreClean' /\ NothingPrivateIsPublished' /\ PlaceholdersAgree'
<1>1. HeadsAreClean' /\ NothingPrivateIsPublished'
  BY DEF GuardInv, HeadsAreClean, NothingPrivateIsPublished
<1>2. ASSUME ~torn PROVE AllAgree(InForce)'
  <2>1. AllAgree(InForce) /\ InForce' = InForce
    BY <1>2 DEF GuardInv, PlaceholdersAgree
  <2>2. QED
    BY <2>1 DEF AllAgree
<1>3. QED
  BY <1>1, <1>2 DEF PlaceholdersAgree

\* A step in one worktree does nothing to what the others rely on.
Apart(w) ==
    \A v \in Worktree \ {w} :
        /\ run'[v] = run[v] /\ text'[v] = text[v] /\ index'[v] = index[v]
        /\ lock' = v <=> lock = v
        /\ lock = v => saved' = saved

LEMMA StepKeeps ==
  ASSUME GuardInv, NEW w \in Worktree, Apart(w), GuardType', ShapeOf(w)', CheckedIn(w)',
         HeadsAreClean', NothingPrivateIsPublished', PlaceholdersAgree'
  PROVE  GuardInv'
<1>1. \A v \in Worktree \ {w} : ShapeOf(v)' /\ CheckedIn(v)'
  BY OtherWorktrees DEF Apart
<1>2. RunShape' /\ Checked'
  BY <1>1 DEF RunShape, Checked
<1>3. QED
  BY <1>2 DEF GuardInv

LEMMA NoRunIs == NoRun \in Run /\ NoRun.pc = "idle" /\ ~NoRun.fresh /\ ~NoRun.wrote
<1>1. <<>> \in Seq(Repo)
  OBVIOUS
<1>2. QED
  BY <1>1 DEF NoRun, Run

LEMMA BeginKeeps ==
  ASSUME GuardInv, NEW w \in Worktree, Begin(w)
  PROVE  GuardInv'
<1>1. PICK op \in {"staged", "pr"} :
         run' = [run EXCEPT ![w] = [NoRun EXCEPT !.pc = "scan", !.op = op, !.fresh = TRUE]]
  BY DEF Begin
<1>2. UNCHANGED <<head, index, work, text, saved, lock, published, torn>> /\ run[w].pc = "idle"
  BY DEF Begin, Is
<1>3. /\ [NoRun EXCEPT !.pc = "scan", !.op = op, !.fresh = TRUE] \in Run
      /\ [NoRun EXCEPT !.pc = "scan", !.op = op, !.fresh = TRUE].pc = "scan"
      /\ ~[NoRun EXCEPT !.pc = "scan", !.op = op, !.fresh = TRUE].wrote
  <2>1. NoRun \in Run /\ ~NoRun.wrote
    BY NoRunIs
  <2>2. QED
    BY <2>1 DEF Run
<1>4. /\ run' \in [Worktree -> Run] /\ run'[w].pc = "scan" /\ ~run'[w].wrote
      /\ \A v \in Worktree \ {w} : run'[v] = run[v]
  BY <1>1, <1>3 DEF GuardInv, GuardType
<1>5. GuardType'
  BY <1>2, <1>4 DEF GuardInv, GuardType
<1>6. lock # w
  BY <1>2 DEF GuardInv, RunShape, ShapeOf, Rewriting
<1>7. ShapeOf(w)' /\ CheckedIn(w)'
  BY <1>2, <1>4, <1>6 DEF ShapeOf, CheckedIn, Rewriting
<1>8. InForce' = InForce
  BY <1>2, <1>4, <1>6, SameInForce
<1>9. HeadsAreClean' /\ NothingPrivateIsPublished' /\ PlaceholdersAgree'
  BY <1>2, <1>5, <1>8, SameLines
<1>10. Apart(w)
  BY <1>2, <1>4 DEF Apart
<1>11. QED
  BY <1>5, <1>7, <1>9, <1>10, StepKeeps

\* The end of a run: its worktree is idle, and the lock is not its own.
LEMMA ExitsIs ==
  ASSUME GuardInv, NEW w \in Worktree, NEW code \in Int, Exits(w, code)
  PROVE  /\ run' \in [Worktree -> Run]
         /\ run'[w].pc = "idle" /\ run'[w].exit = code
         /\ run'[w].op = run[w].op /\ run'[w].fresh = run[w].fresh
         /\ \A v \in Worktree \ {w} : run'[v] = run[v] /\ (lock' = v <=> lock = v)
         /\ lock' \in Worktree \cup {NoWorktree} /\ lock' # w
         /\ lock # w => lock' = lock
         /\ lock = w => lock' = NoWorktree
<1> DEFINE end == [NoRun EXCEPT !.op = run[w].op, !.exit = code,
                                !.wrote = run[w].wrote, !.fresh = run[w].fresh]
<1>1. run[w] \in Run /\ run \in [Worktree -> Run] /\ lock \in Worktree \cup {NoWorktree}
  BY DEF GuardInv, GuardType
<1>2. /\ end \in Run /\ end.pc = "idle" /\ end.exit = code
      /\ end.op = run[w].op /\ end.fresh = run[w].fresh
  <2>1. <<>> \in Seq(Repo) /\ run[w].op \in {"none", "staged", "pr"}
        /\ run[w].wrote \in BOOLEAN /\ run[w].fresh \in BOOLEAN
    BY <1>1 DEF Run
  <2>2. NoRun \in Run /\ NoRun.pc = "idle"
    BY NoRunIs
  <2>3. QED
    BY <2>1, <2>2 DEF Run
<1>3. run' = [run EXCEPT ![w] = end] /\ lock' = IF lock = w THEN NoWorktree ELSE lock
  BY DEF Exits
<1> HIDE DEF end
<1>4. /\ run' \in [Worktree -> Run] /\ run'[w] = end
      /\ \A v \in Worktree \ {w} : run'[v] = run[v]
  BY <1>1, <1>2, <1>3
<1>5. /\ lock' \in Worktree \cup {NoWorktree} /\ lock' # w
      /\ lock # w => lock' = lock
      /\ lock = w => lock' = NoWorktree
      /\ \A v \in Worktree \ {w} : lock' = v <=> lock = v
  BY <1>1, <1>3, WorktreeAssumption
<1>6. QED
  BY <1>2, <1>4, <1>5

LEMMA FailsKeeps ==
  ASSUME GuardInv, NEW w \in Worktree, NEW code \in {1, 2}, Fails(w, code)
  PROVE  GuardInv'
<1>1. /\ UNCHANGED <<head, index, work, text, saved, published>>
      /\ torn' = (torn \/ run[w].wrote) /\ Exits(w, code) /\ code \in Int
  BY DEF Fails
<1>2. /\ run' \in [Worktree -> Run]
      /\ run'[w].pc = "idle" /\ run'[w].exit = code
      /\ \A v \in Worktree \ {w} : run'[v] = run[v] /\ (lock' = v <=> lock = v)
      /\ lock' \in Worktree \cup {NoWorktree} /\ lock' # w
      /\ lock # w => lock' = lock
      /\ lock = w => lock' = NoWorktree
  BY <1>1, ExitsIs
<1>3. torn' \in BOOLEAN
  BY <1>1
<1>4. GuardType'
  BY <1>1, <1>2, <1>3 DEF GuardInv, GuardType
<1>5. ShapeOf(w)' /\ CheckedIn(w)'
  BY <1>2 DEF ShapeOf, CheckedIn, Rewriting
<1>6. Apart(w)
  BY <1>1, <1>2 DEF Apart
<1>7. HeadsAreClean' /\ NothingPrivateIsPublished'
  BY <1>1 DEF GuardInv, HeadsAreClean, NothingPrivateIsPublished
<1>8. ASSUME ~torn' PROVE AllAgree(InForce)'
  <2>1. ~torn /\ ~run[w].wrote
    BY <1>1, <1>8
  <2>2. AllAgree(InForce)
    BY <2>1 DEF GuardInv, PlaceholdersAgree
  <2>3. InForce' = InForce
    <3>1. CASE lock = w
      BY <1>1, <1>2, <2>1, <3>1, WorktreeAssumption DEF InForce
    <3>2. CASE lock # w
      BY <1>1, <1>2, <3>2, SameInForce
    <3>3. QED
      BY <3>1, <3>2
  <2>4. QED
    BY <1>1, <2>2, <2>3 DEF AllAgree
<1>9. PlaceholdersAgree'
  BY <1>8 DEF PlaceholdersAgree
<1>10. QED
  BY <1>4, <1>5, <1>6, <1>7, <1>9, StepKeeps

\* What a run publishes without a private reference among it is clean.
LEMMA ScanKeeps ==
  ASSUME GuardInv, NEW w \in Worktree, Scan(w)
  PROVE  GuardInv'
<1> DEFINE changed == IF run[w].op = "pr" THEN {}
                      ELSE {f \in File : Added(index[w][f], head[w][f]) # {}}
           lines == text[w] \cup UNION {Added(index[w][f], head[w][f]) : f \in changed}
           private == PrivateIn(lines)
<1>1. /\ run[w].pc = "scan"
      /\ \/ /\ private # {}
            /\ run' = [run EXCEPT ![w].pc = "lock", ![w].todo = changed, ![w].private = private]
            /\ UNCHANGED lock
         \/ private = {} /\ Exits(w, 0)
      /\ UNCHANGED <<head, index, work, text, saved, published, torn>>
  BY DEF Scan, Is
<1>2. /\ GuardType /\ ShapeOf(w) /\ HeadsAreClean
      /\ head[w] \in [File -> SUBSET Line] /\ index[w] \in [File -> SUBSET Line]
      /\ text[w] \in SUBSET Line /\ run[w] \in Run /\ run \in [Worktree -> Run]
  BY DEF GuardInv, GuardType, RunShape
<1>3. lock # w /\ ~run[w].wrote
  BY <1>1, <1>2 DEF ShapeOf, Rewriting
<1>4. changed \in SUBSET File
  OBVIOUS
<1>5. lines \in SUBSET Line
  <2>1. \A f \in changed : Added(index[w][f], head[w][f]) \in SUBSET Line
    BY <1>2 DEF Added
  <2>2. QED
    BY <1>2, <2>1
<1>6. Known(text[w], private)
  <2> SUFFICES ASSUME NEW l \in text[w], IsNamed(l) PROVE l.repo \in private
    BY DEF Known
  <2>1. l \in lines
    OBVIOUS
  <2> HIDE DEF lines
  <2>2. QED
    BY <1>5, <2>1, NamesAreFound
<1>7. ASSUME run[w].op # "pr", NEW f \in File
      PROVE  Known(index[w][f], private) /\ (f \notin changed => Clean(index[w][f]))
  <2>1. \A l \in index[w][f] : IsNamed(l) => l \in Added(index[w][f], head[w][f])
    BY <1>2 DEF HeadsAreClean, Clean, Added
  <2>2. f \notin changed => Clean(index[w][f])
    BY <1>7, <2>1 DEF Clean
  <2>3. ASSUME NEW l \in index[w][f], IsNamed(l) PROVE l.repo \in private
    <3>1. l \in lines
      BY <1>7, <2>1, <2>3
    <3> HIDE DEF lines
    <3>2. QED
      BY <1>5, <2>3, <3>1, NamesAreFound
  <2>4. QED
    BY <2>2, <2>3 DEF Known
<1>8. private \in SUBSET Repo
  BY <1>5 DEF PrivateIn, Candidates, Line
<1> HIDE DEF changed, lines, private
<1>9. CASE private = {} /\ Exits(w, 0)
  <2>1. /\ run' \in [Worktree -> Run]
        /\ run'[w].pc = "idle" /\ run'[w].exit = 0
        /\ run'[w].op = run[w].op /\ run'[w].fresh = run[w].fresh
        /\ \A v \in Worktree \ {w} : run'[v] = run[v] /\ (lock' = v <=> lock = v)
        /\ lock' = lock
    BY <1>3, <1>9, ExitsIs
  <2>2. GuardType'
    BY <1>1, <1>2, <2>1 DEF GuardType
  <2>3. ShapeOf(w)'
    BY <1>3, <2>1 DEF ShapeOf, Rewriting
  <2>4. CheckedIn(w)'
    <3>1. Clean(text[w])
      BY <1>6, <1>9 DEF Known, Clean
    <3>2. ASSUME run[w].op # "pr", NEW f \in File PROVE Clean(index[w][f])
      BY <1>7, <1>9, <3>2 DEF Known, Clean
    <3>3. QED
      BY <1>1, <2>1, <3>1, <3>2 DEF CheckedIn
  <2>5. Apart(w)
    BY <1>1, <2>1 DEF Apart
  <2>6. InForce' = InForce
    BY <1>1, <1>3, <2>1, SameInForce
  <2>7. HeadsAreClean' /\ NothingPrivateIsPublished' /\ PlaceholdersAgree'
    BY <1>1, <2>2, <2>6, SameLines
  <2>8. QED
    BY <2>2, <2>3, <2>4, <2>5, <2>7, StepKeeps
<1>10. CASE /\ run' = [run EXCEPT ![w].pc = "lock", ![w].todo = changed, ![w].private = private]
            /\ UNCHANGED lock
  <2>1. /\ run'[w] = [run[w] EXCEPT !.pc = "lock", !.todo = changed, !.private = private]
        /\ \A v \in Worktree \ {w} : run'[v] = run[v]
        /\ run' \in [Worktree -> {run'[v] : v \in Worktree}]
    BY <1>2, <1>10
  <2>2. /\ run'[w] \in Run /\ run'[w].pc = "lock" /\ run'[w].todo = changed
        /\ run'[w].private = private /\ run'[w].op = run[w].op
        /\ run'[w].wrote = run[w].wrote /\ run'[w].fresh = run[w].fresh
    BY <1>2, <1>4, <1>8, <2>1 DEF Run
  <2>3. run' \in [Worktree -> Run]
    BY <1>2, <2>1, <2>2
  <2>4. GuardType'
    BY <1>1, <1>2, <1>10, <2>3 DEF GuardType
  <2>5. ShapeOf(w)'
    BY <1>3, <1>10, <2>2 DEF ShapeOf, Rewriting
  <2>6. CheckedIn(w)'
    BY <1>1, <1>6, <1>7, <2>2 DEF CheckedIn
  <2>7. Apart(w)
    BY <1>1, <1>10, <2>1 DEF Apart
  <2>8. InForce' = InForce
    BY <1>1, <1>3, <1>10, <2>1, SameInForce
  <2>9. HeadsAreClean' /\ NothingPrivateIsPublished' /\ PlaceholdersAgree'
    BY <1>1, <2>4, <2>8, SameLines
  <2>10. QED
    BY <2>4, <2>5, <2>6, <2>7, <2>9, StepKeeps
<1>11. QED
  BY <1>1, <1>9, <1>10

LEMMA TakeLockKeeps ==
  ASSUME GuardInv, NEW w \in Worktree, TakeLock(w)
  PROVE  GuardInv'
<1>1. /\ run[w].pc = "lock" /\ lock = NoWorktree /\ lock' = w
      /\ run' = [run EXCEPT ![w].pc = "next", ![w].map = saved]
      /\ UNCHANGED <<head, index, work, text, saved, published, torn>>
  BY DEF TakeLock, Is
<1>2. /\ GuardType /\ ShapeOf(w) /\ CheckedIn(w)
      /\ run[w] \in Run /\ run \in [Worktree -> Run] /\ saved \in Seq(Repo)
  BY DEF GuardInv, GuardType, RunShape, Checked
<1>3. ~run[w].wrote
  BY <1>1, <1>2 DEF ShapeOf
<1>4. /\ run'[w] = [run[w] EXCEPT !.pc = "next", !.map = saved]
      /\ \A v \in Worktree \ {w} : run'[v] = run[v]
      /\ run' \in [Worktree -> {run'[v] : v \in Worktree}]
  BY <1>1, <1>2
<1>5. /\ run'[w] \in Run /\ run'[w].pc = "next" /\ run'[w].map = saved
      /\ run'[w].todo = run[w].todo /\ run'[w].private = run[w].private
      /\ run'[w].op = run[w].op /\ run'[w].wrote = run[w].wrote /\ run'[w].fresh = run[w].fresh
  BY <1>2, <1>4 DEF Run
<1>6. run' \in [Worktree -> Run]
  BY <1>2, <1>4, <1>5
<1>7. GuardType'
  BY <1>1, <1>2, <1>6 DEF GuardType
<1>8. ShapeOf(w)'
  BY <1>1, <1>2, <1>5, PrefixOrder DEF ShapeOf, Rewriting
<1>9. CheckedIn(w)'
  BY <1>1, <1>2, <1>5 DEF CheckedIn
<1>10. Apart(w)
  BY <1>1, <1>4, WorktreeAssumption DEF Apart
<1>11. InForce' = InForce
  BY <1>1, <1>3, <1>5, WorktreeAssumption DEF InForce
<1>12. HeadsAreClean' /\ NothingPrivateIsPublished' /\ PlaceholdersAgree'
  BY <1>1, <1>7, <1>11, SameLines
<1>13. QED
  BY <1>7, <1>8, <1>9, <1>10, <1>12, StepKeeps

\* The map of the run that holds the lock, once it has grown: it is in force
\* from the run's first change on, and what stood in a line before it still means.
LEMMA MapGrows ==
  ASSUME GuardInv, NEW w \in Worktree, lock = w, lock' = w, saved' = saved,
         run'[w].map \in Seq(Repo), IsPrefix(run[w].map, run'[w].map),
         run[w].wrote => run'[w].wrote, ~torn
  PROVE  /\ IsPrefix(saved, run'[w].map)
         /\ AllAgree(run'[w].map)
         /\ run'[w].wrote => InForce' = run'[w].map
         /\ ~run'[w].wrote => InForce' = InForce
<1>1. GuardType /\ run[w].map \in Seq(Repo) /\ saved \in Seq(Repo)
  BY DEF GuardInv, GuardType, Run
<1>2. IsPrefix(saved, run[w].map)
  BY DEF GuardInv, RunShape, ShapeOf
<1>3. IsPrefix(saved, run'[w].map)
  BY <1>1, <1>2, PrefixOrder
<1>4. InForce \in Seq(Repo) /\ IsPrefix(InForce, run[w].map)
  BY InForceIs
<1>5. IsPrefix(InForce, run'[w].map)
  BY <1>1, <1>4, PrefixOrder
<1>6. AllAgree(InForce)
  BY DEF GuardInv, PlaceholdersAgree
<1>7. PICK m : m = run'[w].map
  OBVIOUS
<1>8. AllAgree(m)
  BY <1>1, <1>4, <1>5, <1>6, <1>7, AllAgreeMore
<1>9. /\ run'[w].wrote => InForce' = run'[w].map
      /\ ~run'[w].wrote => InForce' = InForce
  BY DEF InForce
<1>10. QED
  BY <1>3, <1>7, <1>8, <1>9

LEMMA RewriteIndexKeeps ==
  ASSUME GuardInv, NEW w \in Worktree, RewriteIndex(w)
  PROVE  GuardInv'
<1>1. PICK f \in run[w].todo :
        LET map == MapFor(w, f, index[w][f], head[w][f])
            new == Document(w, f, map, index[w][f], head[w][f])
        IN  /\ Is(w, "next")
            /\ index' = [index EXCEPT ![w][f] = new]
            /\ run' = [run EXCEPT ![w].pc = "worktree", ![w].file = f, ![w].map = map,
                                  ![w].todo = run[w].todo \ {f},
                                  ![w].wrote = (run[w].wrote \/ new # index[w][f])]
            /\ UNCHANGED <<head, work, text, saved, lock, published, torn, edits>>
  BY DEF RewriteIndex
<1>2. PICK map : map = MapFor(w, f, index[w][f], head[w][f])
  OBVIOUS
<1>3. PICK new : new = Document(w, f, map, index[w][f], head[w][f])
  OBVIOUS
<1>4. PICK wrote \in BOOLEAN : wrote = (run[w].wrote \/ new # index[w][f])
  OBVIOUS
<1>5. /\ run[w].pc = "next" /\ index' = [index EXCEPT ![w][f] = new]
      /\ run' = [run EXCEPT ![w].pc = "worktree", ![w].file = f, ![w].map = map,
                            ![w].todo = run[w].todo \ {f}, ![w].wrote = wrote]
      /\ UNCHANGED <<head, work, text, saved, lock, published, torn>>
  BY <1>1, <1>2, <1>3, <1>4 DEF Is
<1>6. /\ GuardType /\ ShapeOf(w) /\ CheckedIn(w)
      /\ run[w] \in Run /\ run \in [Worktree -> Run]
      /\ index \in [Worktree -> [File -> SUBSET Line]]
  BY DEF GuardInv, GuardType, RunShape, Checked
<1>7. /\ f \in File /\ run[w].private \in SUBSET Repo /\ run[w].map \in Seq(Repo)
      /\ index[w][f] \in SUBSET Line /\ head[w][f] \in SUBSET Line
  <2>1. f \in File /\ run[w].private \in SUBSET Repo /\ run[w].map \in Seq(Repo)
    BY <1>6 DEF Run
  <2>2. QED
    BY <1>6, <2>1 DEF GuardType
<1>8. lock = w
  BY <1>5, <1>6 DEF ShapeOf, Rewriting
<1>9. /\ map \in Seq(Repo) /\ IsPrefix(run[w].map, map)
      /\ new \in SUBSET Line
      /\ Agrees(map, index[w][f]) => Agrees(map, new)
      /\ Known(index[w][f], run[w].private) /\ Clean(head[w][f]) => Clean(new)
  BY <1>2, <1>3, <1>7, RewritingIs
<1>10. /\ run'[w] = [run[w] EXCEPT !.pc = "worktree", !.file = f, !.map = map,
                                   !.todo = run[w].todo \ {f}, !.wrote = wrote]
       /\ \A v \in Worktree \ {w} : run'[v] = run[v]
       /\ run' \in [Worktree -> {run'[v] : v \in Worktree}]
  BY <1>5, <1>6
<1>11. /\ run'[w] \in Run /\ run'[w].pc = "worktree" /\ run'[w].map = map
       /\ run'[w].file = f /\ run'[w].todo = run[w].todo \ {f}
       /\ run'[w].private = run[w].private /\ run'[w].op = run[w].op
       /\ run'[w].wrote = wrote /\ run'[w].fresh = run[w].fresh
  <2>1. run[w].todo \ {f} \in SUBSET File
    BY <1>6 DEF Run
  <2>2. run'[w] \in Run
    BY <1>4, <1>6, <1>7, <1>9, <1>10, <2>1 DEF Run
  <2>3. run'[w].wrote = wrote
    BY <1>6, <1>10, Zenon DEF Run
  <2>4. /\ run'[w].pc = "worktree" /\ run'[w].map = map
        /\ run'[w].file = f /\ run'[w].todo = run[w].todo \ {f}
        /\ run'[w].private = run[w].private /\ run'[w].op = run[w].op
        /\ run'[w].fresh = run[w].fresh
    BY <1>6, <1>10 DEF Run
  <2>5. QED
    BY <2>2, <2>3, <2>4
<1>12. run' \in [Worktree -> Run]
  BY <1>6, <1>10, <1>11
<1>13. /\ index' \in [Worktree -> [File -> SUBSET Line]] /\ index'[w][f] = new
       /\ \A v \in Worktree \ {w} : index'[v] = index[v]
       /\ \A g \in File \ {f} : index'[w][g] = index[w][g]
  BY <1>5, <1>6, <1>7, <1>9
<1>14. GuardType'
  BY <1>5, <1>6, <1>12, <1>13 DEF GuardType
<1>15. IsPrefix(saved, map)
  BY <1>6, <1>7, <1>8, <1>9, PrefixOrder DEF ShapeOf, GuardType
<1>16. ShapeOf(w)'
  BY <1>5, <1>7, <1>8, <1>11, <1>15 DEF ShapeOf, Rewriting
<1>17. CheckedIn(w)'
  <2> SUFFICES ASSUME run[w].fresh PROVE CheckedIn(w)'
    BY <1>11 DEF CheckedIn
  <2>1. Known(text[w], run[w].private)
    BY <1>5, <1>6 DEF CheckedIn
  <2>2. ASSUME run[w].op # "pr", NEW g \in File
        PROVE  /\ Known(index'[w][g], run[w].private)
               /\ g \notin run'[w].todo => Clean(index'[w][g])
    <3>1. /\ Known(index[w][g], run[w].private)
          /\ g \notin run[w].todo => Clean(index[w][g])
      BY <1>5, <1>6, <2>2 DEF CheckedIn
    <3>2. CASE g = f
      <4>1. Clean(new)
        BY <1>7, <1>9, <3>1, <3>2 DEF GuardInv, HeadsAreClean
      <4>2. QED
        BY <1>13, <3>2, <4>1 DEF Clean, Known
    <3>3. CASE g # f
      BY <1>11, <1>13, <3>1, <3>3
    <3>4. QED
      BY <3>2, <3>3
  <2>3. QED
    BY <1>5, <1>11, <2>1, <2>2 DEF CheckedIn
<1>18. Apart(w)
  BY <1>5, <1>8, <1>10, <1>13 DEF Apart
<1>19. HeadsAreClean' /\ NothingPrivateIsPublished'
  BY <1>5 DEF GuardInv, HeadsAreClean, NothingPrivateIsPublished
<1>20. ASSUME ~torn PROVE AllAgree(InForce)'
  <2>1. /\ AllAgree(map)
        /\ wrote => InForce' = map
        /\ ~wrote => InForce' = InForce
    BY <1>4, <1>5, <1>8, <1>9, <1>11, <1>20, MapGrows
  <2>2. CASE wrote
    <3>1. Agrees(map, new)
      BY <1>7, <1>9, <2>1 DEF AllAgree
    <3>2. \A g \in File : Agrees(map, index'[w][g])
      BY <1>13, <2>1, <3>1 DEF AllAgree
    <3>3. \A v \in Worktree, g \in File : Agrees(map, index'[v][g])
      BY <1>13, <2>1, <3>2 DEF AllAgree
    <3>4. QED
      BY <1>5, <2>1, <2>2, <3>3 DEF AllAgree
  <2>3. CASE ~wrote
    <3>1. index' = index
      BY <1>4, <1>5, <1>6, <2>3
    <3>2. AllAgree(InForce)
      BY <1>20 DEF GuardInv, PlaceholdersAgree
    <3>3. QED
      BY <1>5, <2>1, <2>3, <3>1, <3>2 DEF AllAgree
  <2>4. QED
    BY <2>2, <2>3
<1>21. PlaceholdersAgree'
  BY <1>5, <1>20 DEF PlaceholdersAgree
<1>22. QED
  BY <1>14, <1>16, <1>17, <1>18, <1>19, <1>21, StepKeeps

LEMMA RewriteWorktreeKeeps ==
  ASSUME GuardInv, NEW w \in Worktree, RewriteWorktree(w)
  PROVE  GuardInv'
<1>1. PICK f : f = run[w].file
  OBVIOUS
<1>2. PICK map : map = MapFor(w, f, work[w][f], head[w][f])
  OBVIOUS
<1>3. PICK new : new = Document(w, f, map, work[w][f], head[w][f])
  OBVIOUS
<1>4. PICK wrote \in BOOLEAN : wrote = (run[w].wrote \/ new # work[w][f])
  OBVIOUS
<1>5. /\ run[w].pc = "worktree" /\ work' = [work EXCEPT ![w][f] = new]
      /\ run' = [run EXCEPT ![w].pc = "next", ![w].file = NoFile, ![w].map = map,
                            ![w].wrote = wrote]
      /\ UNCHANGED <<head, index, text, saved, lock, published, torn>>
  BY <1>1, <1>2, <1>3, <1>4 DEF Is, RewriteWorktree
<1>6. /\ GuardType /\ ShapeOf(w) /\ CheckedIn(w)
      /\ run[w] \in Run /\ run \in [Worktree -> Run]
      /\ work \in [Worktree -> [File -> SUBSET Line]]
  BY DEF GuardInv, GuardType, RunShape, Checked
<1>7. /\ f \in File /\ run[w].private \in SUBSET Repo /\ run[w].map \in Seq(Repo)
      /\ work[w][f] \in SUBSET Line /\ head[w][f] \in SUBSET Line
  <2>1. f \in File
    BY <1>1, <1>5, <1>6 DEF ShapeOf
  <2>2. run[w].private \in SUBSET Repo /\ run[w].map \in Seq(Repo)
    BY <1>6 DEF Run
  <2>3. QED
    BY <1>6, <2>1, <2>2 DEF GuardType
<1>8. lock = w
  BY <1>5, <1>6 DEF ShapeOf, Rewriting
<1>9. /\ map \in Seq(Repo) /\ IsPrefix(run[w].map, map)
      /\ new \in SUBSET Line
      /\ Agrees(map, work[w][f]) => Agrees(map, new)
  BY <1>2, <1>3, <1>7, RewritingIs
<1>10. /\ run'[w] = [run[w] EXCEPT !.pc = "next", !.file = NoFile, !.map = map, !.wrote = wrote]
       /\ \A v \in Worktree \ {w} : run'[v] = run[v]
       /\ run' \in [Worktree -> {run'[v] : v \in Worktree}]
  BY <1>5, <1>6
<1>11. /\ run'[w] \in Run /\ run'[w].pc = "next" /\ run'[w].map = map
       /\ run'[w].todo = run[w].todo /\ run'[w].private = run[w].private
       /\ run'[w].op = run[w].op /\ run'[w].wrote = wrote /\ run'[w].fresh = run[w].fresh
  <2>1. run'[w] \in Run
    BY <1>4, <1>6, <1>9, <1>10 DEF Run
  <2>2. run'[w].wrote = wrote
    BY <1>6, <1>10, Zenon DEF Run
  <2>3. /\ run'[w].pc = "next" /\ run'[w].map = map
        /\ run'[w].todo = run[w].todo /\ run'[w].private = run[w].private
        /\ run'[w].op = run[w].op /\ run'[w].fresh = run[w].fresh
    BY <1>6, <1>10 DEF Run
  <2>4. QED
    BY <2>1, <2>2, <2>3
<1>12. run' \in [Worktree -> Run]
  BY <1>6, <1>10, <1>11
<1>13. /\ work' \in [Worktree -> [File -> SUBSET Line]] /\ work'[w][f] = new
       /\ \A v \in Worktree \ {w} : work'[v] = work[v]
       /\ \A g \in File \ {f} : work'[w][g] = work[w][g]
  BY <1>5, <1>6, <1>7, <1>9
<1>14. GuardType'
  BY <1>5, <1>6, <1>12, <1>13 DEF GuardType
<1>15. IsPrefix(saved, map)
  BY <1>6, <1>7, <1>8, <1>9, PrefixOrder DEF ShapeOf, GuardType
<1>16. ShapeOf(w)' /\ CheckedIn(w)' /\ Apart(w)
  BY <1>5, <1>6, <1>8, <1>10, <1>11, <1>15 DEF ShapeOf, CheckedIn, Apart, Rewriting
<1>17. HeadsAreClean' /\ NothingPrivateIsPublished'
  BY <1>5 DEF GuardInv, HeadsAreClean, NothingPrivateIsPublished
<1>18. ASSUME ~torn PROVE AllAgree(InForce)'
  <2>1. /\ AllAgree(map)
        /\ wrote => InForce' = map
        /\ ~wrote => InForce' = InForce
    BY <1>4, <1>5, <1>8, <1>9, <1>11, <1>18, MapGrows
  <2>2. CASE wrote
    <3>1. Agrees(map, new)
      BY <1>7, <1>9, <2>1 DEF AllAgree
    <3>2. \A g \in File : Agrees(map, work'[w][g])
      BY <1>13, <2>1, <3>1 DEF AllAgree
    <3>3. \A v \in Worktree, g \in File : Agrees(map, work'[v][g])
      BY <1>13, <2>1, <3>2 DEF AllAgree
    <3>4. QED
      BY <1>5, <2>1, <2>2, <3>3 DEF AllAgree
  <2>3. CASE ~wrote
    <3>1. work' = work
      BY <1>4, <1>5, <1>6, <2>3
    <3>2. AllAgree(InForce)
      BY <1>18 DEF GuardInv, PlaceholdersAgree
    <3>3. QED
      BY <1>5, <2>1, <2>3, <3>1, <3>2 DEF AllAgree
  <2>4. QED
    BY <2>2, <2>3
<1>19. PlaceholdersAgree'
  BY <1>5, <1>18 DEF PlaceholdersAgree
<1>20. QED
  BY <1>14, <1>16, <1>17, <1>19, StepKeeps

LEMMA RewriteTextKeeps ==
  ASSUME GuardInv, NEW w \in Worktree, RewriteText(w)
  PROVE  GuardInv'
<1>1. PICK new : new = {IF l.placeholder = 0 /\ l.repo \in run[w].private THEN Neutral(l) ELSE l :
                          l \in text[w]}
  OBVIOUS
<1>2. PICK wrote \in BOOLEAN : wrote = (run[w].wrote \/ new # text[w])
  OBVIOUS
<1>3. /\ run[w].pc = "next" /\ run[w].todo = {} /\ text' = [text EXCEPT ![w] = new]
      /\ run' = [run EXCEPT ![w].pc = "save", ![w].wrote = wrote]
      /\ UNCHANGED <<head, index, work, saved, lock, published, torn>>
  BY <1>1, <1>2 DEF Is, RewriteText
<1>4. /\ GuardType /\ ShapeOf(w) /\ CheckedIn(w)
      /\ run[w] \in Run /\ run \in [Worktree -> Run] /\ text \in [Worktree -> SUBSET Line]
  BY DEF GuardInv, GuardType, RunShape, Checked
<1>5. lock = w
  BY <1>3, <1>4 DEF ShapeOf, Rewriting
<1>6. ASSUME NEW l \in new
      PROVE  /\ l \in Line
             /\ \/ l \in text[w] /\ (l.placeholder = 0 => l.repo \notin run[w].private)
                \/ l.placeholder = -1
  <2>1. PICK k \in text[w] :
          l = IF k.placeholder = 0 /\ k.repo \in run[w].private THEN Neutral(k) ELSE k
    BY <1>1, <1>6
  <2>2. k \in Line
    BY <1>4, <2>1
  <2>3. CASE k.placeholder = 0 /\ k.repo \in run[w].private
    BY <2>1, <2>2, <2>3 DEF Neutral, Line
  <2>4. CASE ~(k.placeholder = 0 /\ k.repo \in run[w].private)
    BY <2>1, <2>2, <2>4
  <2>5. QED
    BY <2>3, <2>4
<1>7. new \in SUBSET Line
  BY <1>6
<1>8. /\ run'[w] = [run[w] EXCEPT !.pc = "save", !.wrote = wrote]
      /\ \A v \in Worktree \ {w} : run'[v] = run[v]
      /\ run' \in [Worktree -> {run'[v] : v \in Worktree}]
  BY <1>3, <1>4
<1>9. /\ run'[w] \in Run /\ run'[w].pc = "save" /\ run'[w].map = run[w].map
      /\ run'[w].todo = run[w].todo /\ run'[w].private = run[w].private
      /\ run'[w].op = run[w].op /\ run'[w].wrote = wrote /\ run'[w].fresh = run[w].fresh
  <2>1. run'[w] \in Run
    BY <1>2, <1>4, <1>8 DEF Run
  <2>2. run'[w].wrote = wrote
    BY <1>4, <1>8, Zenon DEF Run
  <2>3. /\ run'[w].pc = "save" /\ run'[w].map = run[w].map
        /\ run'[w].todo = run[w].todo /\ run'[w].private = run[w].private
        /\ run'[w].op = run[w].op /\ run'[w].fresh = run[w].fresh
    BY <1>4, <1>8 DEF Run
  <2>4. QED
    BY <2>1, <2>2, <2>3
<1>10. /\ run' \in [Worktree -> Run]
       /\ text' \in [Worktree -> SUBSET Line] /\ text'[w] = new
       /\ \A v \in Worktree \ {w} : text'[v] = text[v]
  BY <1>3, <1>4, <1>7, <1>8, <1>9
<1>11. GuardType'
  BY <1>3, <1>4, <1>10 DEF GuardType
<1>12. ShapeOf(w)' /\ Apart(w)
  BY <1>3, <1>4, <1>5, <1>8, <1>9, <1>10 DEF ShapeOf, Apart, Rewriting
<1>13. CheckedIn(w)'
  <2> SUFFICES ASSUME run[w].fresh PROVE CheckedIn(w)'
    BY <1>9 DEF CheckedIn
  <2>1. Known(text[w], run[w].private)
    BY <1>3, <1>4 DEF CheckedIn
  <2>2. Clean(text'[w])
    BY <1>6, <1>10, <2>1 DEF Clean, Known, IsNamed
  <2>3. run[w].op # "pr" => \A f \in File : /\ Known(index[w][f], run[w].private)
                                            /\ f \notin run[w].todo => Clean(index[w][f])
    BY <1>3, <1>4 DEF CheckedIn
  <2>4. QED
    BY <1>3, <1>9, <2>2, <2>3 DEF CheckedIn
<1>14. HeadsAreClean' /\ NothingPrivateIsPublished'
  BY <1>3 DEF GuardInv, HeadsAreClean, NothingPrivateIsPublished
<1>15. ASSUME ~torn PROVE AllAgree(InForce)'
  <2> DEFINE map == run[w].map
  <2>1. map \in Seq(Repo) /\ IsPrefix(map, map)
    BY <1>4, PrefixOrder DEF Run
  <2>2. /\ AllAgree(run'[w].map)
        /\ wrote => InForce' = run'[w].map
        /\ ~wrote => InForce' = InForce
    BY <1>2, <1>3, <1>5, <1>9, <1>15, <2>1, MapGrows
  <2>3. CASE wrote
    <3>1. AllAgree(map) /\ InForce' = map
      BY <1>9, <2>2, <2>3
    <3> HIDE DEF map
    <3>2. Agrees(map, new)
      BY <1>6, <3>1 DEF AllAgree, Agrees
    <3>3. \A v \in Worktree : Agrees(map, text'[v])
      BY <1>10, <3>1, <3>2 DEF AllAgree
    <3>4. QED
      BY <1>3, <3>1, <3>3 DEF AllAgree
  <2>4. CASE ~wrote
    <3>1. text' = text
      BY <1>2, <1>3, <1>4, <2>4
    <3>2. AllAgree(InForce)
      BY <1>15 DEF GuardInv, PlaceholdersAgree
    <3>3. QED
      BY <1>3, <2>2, <2>4, <3>1, <3>2 DEF AllAgree
  <2>5. QED
    BY <2>3, <2>4
<1>16. PlaceholdersAgree'
  BY <1>3, <1>15 DEF PlaceholdersAgree
<1>17. QED
  BY <1>11, <1>12, <1>13, <1>14, <1>16, StepKeeps

\* The map is saved while the lock is held, so that it extends what was saved.
LEMMA SaveKeeps ==
  ASSUME GuardInv, NEW w \in Worktree, Save(w)
  PROVE  GuardInv' /\ IsPrefix(saved, saved')
<1>1. /\ run[w].pc = "save" /\ saved' = run[w].map /\ Exits(w, 0)
      /\ UNCHANGED <<head, index, work, text, published, torn>>
  BY DEF Save, Is
<1>2. /\ GuardType /\ ShapeOf(w) /\ CheckedIn(w) /\ run[w].map \in Seq(Repo)
  BY DEF GuardInv, GuardType, RunShape, Checked, Run
<1>3. lock = w /\ IsPrefix(saved, run[w].map) /\ run[w].todo = {}
  BY <1>1, <1>2 DEF ShapeOf, Rewriting
<1>4. /\ run' \in [Worktree -> Run]
      /\ run'[w].pc = "idle" /\ run'[w].exit = 0
      /\ run'[w].op = run[w].op /\ run'[w].fresh = run[w].fresh
      /\ \A v \in Worktree \ {w} : run'[v] = run[v] /\ (lock' = v <=> lock = v)
      /\ lock' = NoWorktree
  BY <1>1, <1>3, ExitsIs
<1>5. GuardType'
  BY <1>1, <1>2, <1>4 DEF GuardType
<1>6. ShapeOf(w)' /\ CheckedIn(w)' /\ Apart(w)
  BY <1>1, <1>2, <1>3, <1>4, WorktreeAssumption DEF ShapeOf, CheckedIn, Apart, Rewriting
<1>7. HeadsAreClean' /\ NothingPrivateIsPublished'
  BY <1>1 DEF GuardInv, HeadsAreClean, NothingPrivateIsPublished
<1>8. ASSUME ~torn PROVE AllAgree(InForce)'
  <2>1. InForce \in Seq(Repo) /\ IsPrefix(InForce, run[w].map) /\ AllAgree(InForce)
    BY <1>3, <1>8, InForceIs DEF GuardInv, PlaceholdersAgree
  <2>2. PICK m \in Seq(Repo) : m = run[w].map
    BY <1>2
  <2>3. AllAgree(m)
    BY <1>2, <2>1, <2>2, AllAgreeMore
  <2>4. InForce' = m
    BY <1>1, <1>4, <2>2, WorktreeAssumption DEF InForce
  <2>5. QED
    BY <1>1, <2>3, <2>4 DEF AllAgree
<1>9. PlaceholdersAgree'
  BY <1>1, <1>8 DEF PlaceholdersAgree
<1>10. GuardInv'
  BY <1>5, <1>6, <1>7, <1>9, StepKeeps
<1>11. QED
  BY <1>1, <1>3, <1>10

\* Who writes a line stages it, or not, and makes what was checked stale.
LEMMA WriteLineKeeps ==
  ASSUME GuardInv, NEW w \in Worktree, WriteLine(w)
  PROVE  GuardInv'
<1>1. PICK reference \in Written :
        LET line == [repo |-> reference[1], form |-> reference[2], placeholder |-> 0]
        IN  \/ \E f \in File, stage \in BOOLEAN :
                  /\ line \notin work[w][f]
                  /\ work' = [work EXCEPT ![w][f] = @ \cup {line}]
                  /\ index' = IF stage THEN [index EXCEPT ![w][f] = work'[w][f]] ELSE index
                  /\ run' = [run EXCEPT ![w].fresh = (@ /\ ~stage)]
                  /\ UNCHANGED text
            \/ /\ line \notin text[w]
               /\ text' = [text EXCEPT ![w] = @ \cup {line}]
               /\ run' = [run EXCEPT ![w].fresh = FALSE]
               /\ UNCHANGED <<work, index>>
  BY DEF WriteLine
<1>2. PICK line : line = [repo |-> reference[1], form |-> reference[2], placeholder |-> 0]
  OBVIOUS
<1>3. line \in Line /\ line.placeholder = 0
  BY <1>2, WrittenAssumption DEF Line
<1>4. UNCHANGED <<head, saved, lock, published, torn>>
  BY DEF WriteLine
<1>5. /\ GuardType /\ ShapeOf(w) /\ CheckedIn(w)
      /\ run[w] \in Run /\ run \in [Worktree -> Run] /\ text \in [Worktree -> SUBSET Line]
      /\ work \in [Worktree -> [File -> SUBSET Line]]
      /\ index \in [Worktree -> [File -> SUBSET Line]]
  BY DEF GuardInv, GuardType, RunShape, Checked
<1>6. HeadsAreClean' /\ NothingPrivateIsPublished'
  BY <1>4 DEF GuardInv, HeadsAreClean, NothingPrivateIsPublished
<1>7. ASSUME NEW fresh \in BOOLEAN, run' = [run EXCEPT ![w].fresh = fresh]
      PROVE  /\ run' \in [Worktree -> Run] /\ run'[w].fresh = fresh
             /\ run'[w].pc = run[w].pc /\ run'[w].op = run[w].op /\ run'[w].exit = run[w].exit
             /\ run'[w].todo = run[w].todo /\ run'[w].private = run[w].private
             /\ run'[w].file = run[w].file
             /\ run'[w].map = run[w].map /\ run'[w].wrote = run[w].wrote
             /\ \A v \in Worktree \ {w} : run'[v] = run[v]
             /\ ShapeOf(w)' /\ InForce' = InForce
  <2>1. /\ run'[w] = [run[w] EXCEPT !.fresh = fresh]
        /\ \A v \in Worktree \ {w} : run'[v] = run[v]
        /\ run' \in [Worktree -> {run'[v] : v \in Worktree}]
    BY <1>5, <1>7
  <2>2. run'[w] \in Run
    BY <1>5, <1>7, <2>1 DEF Run
  <2>3. run'[w].fresh = fresh
    BY <1>5, <2>1, Zenon DEF Run
  <2>4. /\ run'[w].pc = run[w].pc /\ run'[w].op = run[w].op /\ run'[w].exit = run[w].exit
        /\ run'[w].todo = run[w].todo /\ run'[w].private = run[w].private
        /\ run'[w].file = run[w].file
        /\ run'[w].map = run[w].map /\ run'[w].wrote = run[w].wrote
    BY <1>5, <2>1 DEF Run
  <2>5. run' \in [Worktree -> Run]
    BY <1>5, <2>1, <2>2
  <2>6. ShapeOf(w)'
    BY <1>4, <1>5, <2>4 DEF ShapeOf, Rewriting
  <2>7. InForce' = InForce
    <3>1. CASE lock = w
      BY <1>4, <2>4, <3>1 DEF InForce
    <3>2. CASE lock # w
      BY <1>4, <2>1, <3>2, SameInForce
    <3>3. QED
      BY <3>1, <3>2
  <2>8. QED
    BY <2>1, <2>3, <2>4, <2>5, <2>6, <2>7
<1>8. ASSUME ~torn PROVE AllAgree(InForce)
  BY <1>8 DEF GuardInv, PlaceholdersAgree
<1>9. CASE /\ text' = [text EXCEPT ![w] = @ \cup {line}]
           /\ run' = [run EXCEPT ![w].fresh = FALSE]
           /\ UNCHANGED <<work, index>>
  <2>1. /\ run' \in [Worktree -> Run] /\ ~run'[w].fresh
        /\ \A v \in Worktree \ {w} : run'[v] = run[v]
        /\ ShapeOf(w)' /\ InForce' = InForce
    BY <1>7, <1>9
  <2>2. /\ text' \in [Worktree -> SUBSET Line] /\ text'[w] = text[w] \cup {line}
        /\ \A v \in Worktree \ {w} : text'[v] = text[v]
    BY <1>3, <1>5, <1>9
  <2>3. GuardType'
    BY <1>4, <1>5, <1>9, <2>1, <2>2 DEF GuardType
  <2>4. CheckedIn(w)' /\ Apart(w)
    BY <1>4, <1>9, <2>1, <2>2 DEF CheckedIn, Apart
  <2>5. ASSUME ~torn PROVE AllAgree(InForce)'
    <3>1. PICK m : m = InForce
      OBVIOUS
    <3>2. AllAgree(m)
      BY <1>8, <2>5, <3>1
    <3>3. Agrees(m, text'[w])
      BY <1>3, <2>2, <3>2 DEF AllAgree, Agrees
    <3>4. \A v \in Worktree : Agrees(m, text'[v])
      BY <2>2, <3>2, <3>3 DEF AllAgree
    <3>5. QED
      BY <1>4, <1>9, <2>1, <3>1, <3>2, <3>4 DEF AllAgree
  <2>6. PlaceholdersAgree'
    BY <1>4, <2>5 DEF PlaceholdersAgree
  <2>7. QED
    BY <1>6, <2>1, <2>3, <2>4, <2>6, StepKeeps
<1>10. ASSUME NEW f \in File, NEW stage \in BOOLEAN,
              work' = [work EXCEPT ![w][f] = @ \cup {line}],
              index' = IF stage THEN [index EXCEPT ![w][f] = work'[w][f]] ELSE index,
              run' = [run EXCEPT ![w].fresh = (@ /\ ~stage)],
              UNCHANGED text
       PROVE  GuardInv'
  <2>1. PICK fresh \in BOOLEAN : fresh = (run[w].fresh /\ ~stage)
    OBVIOUS
  <2>2. run' = [run EXCEPT ![w].fresh = fresh]
    BY <1>10, <2>1
  <2>3. /\ run' \in [Worktree -> Run] /\ run'[w].fresh = fresh
        /\ run'[w].pc = run[w].pc /\ run'[w].op = run[w].op /\ run'[w].exit = run[w].exit
        /\ run'[w].todo = run[w].todo /\ run'[w].private = run[w].private
        /\ \A v \in Worktree \ {w} : run'[v] = run[v]
        /\ ShapeOf(w)' /\ InForce' = InForce
    BY <1>7, <2>2
  <2>4. /\ work' \in [Worktree -> [File -> SUBSET Line]]
        /\ work'[w][f] = work[w][f] \cup {line}
        /\ \A v \in Worktree, g \in File : work'[v][g] = work[v][g] \/ (v = w /\ g = f)
    BY <1>3, <1>5, <1>10
  <2>5. /\ index' \in [Worktree -> [File -> SUBSET Line]]
        /\ ~stage => index' = index
        /\ \A v \in Worktree \ {w} : index'[v] = index[v]
        /\ \A v \in Worktree, g \in File : \/ index'[v][g] = index[v][g]
                                           \/ index'[v][g] = work'[v][g]
    <3>1. work'[w][f] \in SUBSET Line
      BY <2>4
    <3>2. QED
      BY <1>5, <1>10, <3>1
  <2>6. GuardType'
    BY <1>4, <1>5, <1>10, <2>3, <2>4, <2>5 DEF GuardType
  <2>7. CheckedIn(w)'
    <3>1. CASE stage
      BY <2>1, <2>3, <3>1 DEF CheckedIn
    <3>2. CASE ~stage
      <4>1. fresh = run[w].fresh /\ index' = index /\ text' = text
        <5>1. run[w].fresh \in BOOLEAN
          BY <1>5 DEF Run
        <5>2. fresh = run[w].fresh
          BY <2>1, <3>2, <5>1
        <5>3. QED
          BY <1>10, <2>5, <3>2, <5>2
      <4>2. QED
        BY <1>5, <2>3, <4>1 DEF CheckedIn
    <3>3. QED
      BY <3>1, <3>2
  <2>8. Apart(w)
    BY <1>4, <1>10, <2>3, <2>5 DEF Apart
  <2>9. ASSUME ~torn PROVE AllAgree(InForce)'
    <3>1. PICK m : m = InForce
      OBVIOUS
    <3>2. AllAgree(m)
      BY <1>8, <2>9, <3>1
    <3>3. Agrees(m, work'[w][f])
      BY <1>3, <2>4, <3>2 DEF AllAgree, Agrees
    <3>4. \A v \in Worktree, g \in File : Agrees(m, work'[v][g])
      BY <2>4, <3>2, <3>3 DEF AllAgree
    <3>5. \A v \in Worktree, g \in File : Agrees(m, index'[v][g])
      BY <2>5, <3>2, <3>4 DEF AllAgree
    <3>6. QED
      BY <1>4, <1>10, <2>3, <3>1, <3>2, <3>4, <3>5 DEF AllAgree
  <2>10. PlaceholdersAgree'
    BY <1>4, <2>9 DEF PlaceholdersAgree
  <2>11. QED
    BY <1>6, <2>3, <2>6, <2>7, <2>8, <2>10, StepKeeps
<1>11. QED
  BY <1>1, <1>2, <1>9, <1>10

LEMMA PublishKeeps ==
  ASSUME GuardInv, NEW w \in Worktree, Publish(w)
  PROVE  GuardInv'
<1>1. /\ run[w].pc = "idle" /\ run[w].exit = 0 /\ run[w].fresh
      /\ published' = published \cup text[w]
            \cup (IF run[w].op = "pr" THEN {} ELSE UNION {index[w][f] : f \in File})
      /\ head' = IF run[w].op = "pr" THEN head ELSE [head EXCEPT ![w] = index[w]]
      /\ text' = [text EXCEPT ![w] = {}]
      /\ run' = [run EXCEPT ![w] = NoRun]
      /\ UNCHANGED <<index, work, saved, lock, torn>>
  BY DEF Publish, Is
<1>2. /\ GuardType /\ ShapeOf(w) /\ CheckedIn(w) /\ HeadsAreClean
      /\ run \in [Worktree -> Run] /\ text \in [Worktree -> SUBSET Line]
      /\ head \in [Worktree -> [File -> SUBSET Line]]
      /\ index \in [Worktree -> [File -> SUBSET Line]]
  BY DEF GuardInv, GuardType, RunShape, Checked
<1>3. /\ Clean(text[w])
      /\ run[w].op # "pr" => \A f \in File : Clean(index[w][f])
  BY <1>1, <1>2 DEF CheckedIn
<1>4. \A l \in published' : \/ l \in published \/ l \in text[w]
                            \/ run[w].op # "pr" /\ \E f \in File : l \in index[w][f]
  BY <1>1
<1>5. \A v \in Worktree, f \in File : \/ head'[v][f] = head[v][f]
                                      \/ run[w].op # "pr" /\ head'[v][f] = index[v][f] /\ v = w
  BY <1>1, <1>2
<1>6. /\ run' \in [Worktree -> Run] /\ run'[w] = NoRun
      /\ \A v \in Worktree \ {w} : run'[v] = run[v] /\ text'[v] = text[v]
      /\ text' \in [Worktree -> SUBSET Line] /\ text'[w] = {}
  BY <1>1, <1>2, NoRunIs
<1>7. head' \in [Worktree -> [File -> SUBSET Line]]
  BY <1>1, <1>2
<1>8. published' \subseteq Line
  <2>1. \A f \in File : index[w][f] \subseteq Line
    BY <1>2
  <2>2. QED
    BY <1>2, <1>4, <2>1 DEF GuardType
<1>9. GuardType'
  BY <1>1, <1>2, <1>6, <1>7, <1>8 DEF GuardType
<1>10. lock # w
  BY <1>1, <1>2 DEF ShapeOf, Rewriting
<1>11. ShapeOf(w)' /\ CheckedIn(w)' /\ Apart(w)
  BY <1>1, <1>6, <1>10, NoRunIs DEF ShapeOf, CheckedIn, Apart, Rewriting
<1>12. HeadsAreClean'
  BY <1>2, <1>3, <1>5 DEF HeadsAreClean
<1>13. NothingPrivateIsPublished'
  <2> SUFFICES ASSUME NEW l \in published', l.placeholder = 0, IsPrivate(l.repo, {l.form})
               PROVE  FALSE
    BY DEF NothingPrivateIsPublished
  <2>1. IsNamed(l)
    BY DEF IsNamed
  <2>2. l \notin published
    BY DEF GuardInv, NothingPrivateIsPublished
  <2>3. QED
    BY <1>3, <1>4, <2>1, <2>2 DEF Clean
<1>14. ASSUME ~torn PROVE AllAgree(InForce)'
  <2>1. PICK m : m = InForce
    OBVIOUS
  <2>2. AllAgree(m)
    BY <1>14, <2>1 DEF GuardInv, PlaceholdersAgree
  <2>3. InForce' = m
    BY <1>1, <1>6, <1>10, <2>1, SameInForce
  <2>4. Agrees(m, published')
    <3> SUFFICES ASSUME NEW l \in published', l.placeholder > 0
                 PROVE  l.placeholder \in DOMAIN m /\ m[l.placeholder] = l.repo
      BY DEF Agrees
    <3>1. CASE l \in published
      BY <2>2, <3>1 DEF AllAgree, Agrees
    <3>2. CASE l \in text[w]
      BY <2>2, <3>2 DEF AllAgree, Agrees
    <3>3. CASE \E f \in File : l \in index[w][f]
      BY <2>2, <3>3 DEF AllAgree, Agrees
    <3>4. QED
      BY <1>4, <3>1, <3>2, <3>3
  <2>5. \A v \in Worktree : Agrees(m, text'[v])
    BY <1>6, <2>2 DEF AllAgree, Agrees
  <2>6. \A v \in Worktree, f \in File : Agrees(m, head'[v][f])
    BY <1>5, <2>2 DEF AllAgree
  <2>7. QED
    BY <1>1, <2>2, <2>3, <2>4, <2>5, <2>6 DEF AllAgree
<1>15. PlaceholdersAgree'
  BY <1>1, <1>14 DEF PlaceholdersAgree
<1>16. QED
  BY <1>9, <1>11, <1>12, <1>13, <1>15, StepKeeps

-----------------------------------------------------------------------------
LEMMA GuardStart == GuardInit => GuardInv
<1> SUFFICES ASSUME GuardInit
             PROVE  GuardInv
  OBVIOUS
<1>1. /\ \A w \in Worktree, f \in File : head[w][f] = {} /\ index[w][f] = {} /\ work[w][f] = {}
      /\ \A w \in Worktree : text[w] = {} /\ run[w] = NoRun
      /\ saved = <<>> /\ lock = NoWorktree /\ published = {} /\ torn = FALSE
  BY DEF GuardInit
<1>2. GuardType
  <2>1. saved \in Seq(Repo)
    BY <1>1
  <2>2. QED
    BY <1>1, <2>1, NoRunIs DEF GuardInit, GuardType
<1>3. RunShape
  BY <1>1, NoRunIs, WorktreeAssumption DEF RunShape, ShapeOf, Rewriting
<1>4. Checked
  BY <1>1, NoRunIs DEF Checked, CheckedIn
<1>5. HeadsAreClean /\ NothingPrivateIsPublished
  BY <1>1 DEF HeadsAreClean, Clean, NothingPrivateIsPublished
<1>6. PlaceholdersAgree
  BY <1>1 DEF PlaceholdersAgree, AllAgree, Agrees
<1>7. QED
  BY <1>2, <1>3, <1>4, <1>5, <1>6 DEF GuardInv

\* Only Save writes the saved map.
LEMMA GuardStep ==
  ASSUME GuardInv, [GuardNext]_guardVars
  PROVE  GuardInv' /\ (saved' = saved \/ IsPrefix(saved, saved'))
<1>1. CASE UNCHANGED guardVars
  <2>1. GuardType' /\ RunShape' /\ Checked'
    BY <1>1 DEF guardVars, GuardInv, GuardType, RunShape, ShapeOf, Rewriting, Checked, CheckedIn
  <2>2. InForce' = InForce /\ torn' = torn
    BY <1>1 DEF guardVars, InForce
  <2>3. QED
    BY <1>1, <2>1, <2>2, SameLines DEF guardVars, GuardInv
<1>2. ASSUME NEW w \in Worktree,
             \/ Begin(w) \/ Scan(w) \/ TakeLock(w) \/ RewriteIndex(w) \/ RewriteWorktree(w)
             \/ RewriteText(w) \/ Save(w) \/ NoAnswer(w) \/ Dies(w) \/ WriteLine(w) \/ Publish(w)
      PROVE  GuardInv' /\ (saved' = saved \/ IsPrefix(saved, saved'))
  <2>1. CASE Begin(w)
    BY <2>1, BeginKeeps DEF Begin
  <2>2. CASE Scan(w)
    BY <2>2, ScanKeeps DEF Scan
  <2>3. CASE TakeLock(w)
    BY <2>3, TakeLockKeeps DEF TakeLock
  <2>4. CASE RewriteIndex(w)
    BY <2>4, RewriteIndexKeeps DEF RewriteIndex
  <2>5. CASE RewriteWorktree(w)
    BY <2>5, RewriteWorktreeKeeps DEF RewriteWorktree
  <2>6. CASE RewriteText(w)
    BY <2>6, RewriteTextKeeps DEF RewriteText
  <2>7. CASE Save(w)
    BY <2>7, SaveKeeps
  <2>8. CASE NoAnswer(w) \/ Dies(w)
    BY <2>8, FailsKeeps DEF NoAnswer, Dies, Fails
  <2>9. CASE WriteLine(w)
    BY <2>9, WriteLineKeeps DEF WriteLine
  <2>10. CASE Publish(w)
    BY <2>10, PublishKeeps DEF Publish
  <2>11. QED
    BY <1>2, <2>1, <2>2, <2>3, <2>4, <2>5, <2>6, <2>7, <2>8, <2>9, <2>10
<1>3. QED
  BY <1>1, <1>2 DEF GuardNext

\* Whatever a run passed and nobody touched since names no private repository
\* (guard, is_private, Sanitiser.document).
THEOREM PrivateNamesStayPrivate == GuardSpec => []NothingPrivateIsPublished
<1>1. GuardInv => NothingPrivateIsPublished
  BY DEF GuardInv
<1>2. QED
  BY <1>1, GuardStart, GuardStep, PTL DEF GuardSpec

\* A published placeholder stands for one repository, in all worktrees, unless
\* a run ended between its first rewrite and its save (Mapper).
THEOREM PlaceholdersAreUnambiguous == GuardSpec => []PlaceholderIsOneRepository
<1>1. GuardInv => PlaceholderIsOneRepository
  BY DEF GuardInv, PlaceholdersAgree, AllAgree, Agrees, PlaceholderIsOneRepository
<1>2. QED
  BY <1>1, GuardStart, GuardStep, PTL DEF GuardSpec

\* The saved map is only ever extended (Mapper.__enter__ and __exit__).
THEOREM SavedMapOnlyGrows == GuardSpec => MapOnlyGrows
<1>1. GuardInv /\ [GuardNext]_guardVars => [IsPrefix(saved, saved')]_saved
  BY GuardStep
<1>2. GuardInv /\ [GuardNext]_guardVars => GuardInv'
  BY GuardStep
<1>3. QED
  BY <1>1, <1>2, GuardStart, PTL DEF GuardSpec, MapOnlyGrows

-----------------------------------------------------------------------------
(***************************************************************************)
(* The stack push guard.                                                   *)
(*                                                                         *)
(* The argument: what an invocation was admitted for is among what was     *)
(* approved from its admission on (Admitted), whatever moves meanwhile;    *)
(* and between the hook and the end of the push, all that the server is    *)
(* still to handle is of the admission, at the admitted URL, and named in  *)
(* a receipt (Bound).                                                      *)
(***************************************************************************)
Invocation == [pc : {"none", "prepare", "push", "hook", "update", "done"},
               refs : SUBSET Update, admittedUrl : Url \cup {""}, url : Url \cup {""},
               left : SUBSET Update]

PushType ==
    /\ local \in [Branch -> Commit]
    /\ remote \in [Url -> [Branch -> Commit]]
    /\ url \in Url
    /\ push \in [Push -> Invocation]

Admitted ==
    \A p \in Push : \A u \in push[p].refs :
        [by |-> p, url |-> push[p].admittedUrl, update |-> u] \in approved

Bound ==
    \A p \in Push : push[p].pc = "update" =>
        /\ push[p].url = push[p].admittedUrl
        /\ push[p].left \subseteq push[p].refs
        /\ \E r \in receipts : r.by = p /\ push[p].left \subseteq r.updates

Inv == PushType /\ Admitted /\ Bound /\ MovesWereApproved

PushSpec == PushInit /\ [][PushNext]_pushVars

-----------------------------------------------------------------------------
LEMMA NoPushIs ==
  NoPush \in Invocation /\ [NoPush EXCEPT !.pc = "done"] \in Invocation
  BY DEF NoPush, Invocation

\* What others do, and the end of an invocation, keep everything.
LEMMA OthersKeep ==
  ASSUME Inv, Meanwhile
  PROVE  Inv'
<1>1. UNCHANGED <<push, receipts, approved, moves>>
  BY DEF Meanwhile
<1>2. local' \in [Branch -> Commit] /\ remote' \in [Url -> [Branch -> Commit]] /\ url' \in Url
  BY DEF Inv, PushType, Meanwhile
<1>3. QED
  BY <1>1, <1>2 DEF Inv, PushType, Admitted, Bound, MovesWereApproved

LEMMA EndKeeps ==
  ASSUME Inv, NEW p \in Push, PushEnds(p),
         UNCHANGED <<local, remote, url, receipts, approved, moves>>
  PROVE  Inv'
<1>1. push' \in [Push -> Invocation]
  BY NoPushIs DEF Inv, PushType, PushEnds
<1>2. push'[p].refs = {} /\ push'[p].pc = "done"
  BY DEF Inv, PushType, PushEnds, NoPush
<1>3. \A q \in Push \ {p} : push'[q] = push[q]
  BY DEF Inv, PushType, PushEnds
<1>4. Admitted' /\ Bound'
  BY <1>2, <1>3 DEF Inv, Admitted, Bound
<1>5. QED
  BY <1>1, <1>4 DEF Inv, PushType, MovesWereApproved

LEMMA ApproveKeeps ==
  ASSUME Inv, NEW p \in Push, Approve(p)
  PROVE  Inv'
<1>1. PICK branches \in SUBSET Branch \ {{}} :
         LET refs == {[branch |-> b, source |-> local[b], expected |-> remote[url][b]] :
                        b \in branches}
         IN  /\ push' = [push EXCEPT ![p].pc = "prepare", ![p].admittedUrl = url, ![p].refs = refs]
             /\ approved' = approved \cup [by : {p}, url : {url}, update : refs]
  BY DEF Approve
<1> DEFINE refs == {[branch |-> b, source |-> local[b], expected |-> remote[url][b]] : b \in branches}
<1>2. refs \subseteq Update
  BY DEF Inv, PushType, Update
<1>3. approved' = approved \cup [by : {p}, url : {url}, update : refs]
  BY <1>1
<1> HIDE DEF refs
<1>4. /\ push'[p] \in Invocation /\ push'[p].pc = "prepare"
      /\ push'[p].admittedUrl = url /\ push'[p].refs = refs
      /\ push' \in [Push -> Invocation]
      /\ \A q \in Push \ {p} : push'[q] = push[q]
  <2>1. push' = [push EXCEPT ![p].pc = "prepare", ![p].admittedUrl = url, ![p].refs = refs]
    BY <1>1 DEF refs
  <2>2. /\ push'[p] = [push[p] EXCEPT !.pc = "prepare", !.admittedUrl = url, !.refs = refs]
        /\ push' \in [Push -> {push'[q] : q \in Push}]
        /\ \A q \in Push \ {p} : push'[q] = push[q]
    BY <2>1 DEF Inv, PushType
  <2>3. push[p] \in Invocation /\ url \in Url /\ refs \in SUBSET Update
    BY <1>2 DEF Inv, PushType
  <2>4. /\ push'[p] \in Invocation /\ push'[p].pc = "prepare"
        /\ push'[p].admittedUrl = url /\ push'[p].refs = refs
    BY <2>2, <2>3 DEF Invocation
  <2>5. push' \in [Push -> Invocation]
    BY <2>2, <2>4 DEF Inv, PushType
  <2>6. QED
    BY <2>2, <2>4, <2>5
<1>5. \A u \in refs : [by |-> p, url |-> url, update |-> u] \in approved'
  BY <1>3
<1>6. Admitted'
  BY <1>3, <1>4, <1>5 DEF Inv, Admitted
<1>7. Bound'
  BY <1>4 DEF Inv, Bound, Approve
<1>8. QED
  BY <1>3, <1>4, <1>6, <1>7 DEF Inv, PushType, MovesWereApproved, Approve

LEMMA AdvertiseKeeps ==
  ASSUME Inv, NEW p \in Push, Advertise(p)
  PROVE  Inv'
<1>1. PICK branches \in SUBSET Branch :
         push' = [push EXCEPT ![p].pc = "hook", ![p].url = url,
                    ![p].left = {[branch |-> b, source |-> local[b], expected |-> remote[url][b]] :
                                    b \in branches}]
  BY DEF Advertise
<1> DEFINE left == {[branch |-> b, source |-> local[b], expected |-> remote[url][b]] : b \in branches}
<1>2. left \subseteq Update
  BY DEF Inv, PushType, Update
<1>3. push' = [push EXCEPT ![p].pc = "hook", ![p].url = url, ![p].left = left]
  BY <1>1
<1> HIDE DEF left
<1>4. /\ push' \in [Push -> Invocation]
      /\ push'[p].pc = "hook"
      /\ push'[p].admittedUrl = push[p].admittedUrl /\ push'[p].refs = push[p].refs
      /\ \A q \in Push \ {p} : push'[q] = push[q]
  <2>1. /\ push'[p] = [push[p] EXCEPT !.pc = "hook", !.url = url, !.left = left]
        /\ push' \in [Push -> {push'[q] : q \in Push}]
        /\ \A q \in Push \ {p} : push'[q] = push[q]
    BY <1>3 DEF Inv, PushType
  <2>2. push[p] \in Invocation /\ url \in Url /\ left \in SUBSET Update
    BY <1>2 DEF Inv, PushType
  <2>3. /\ push'[p] \in Invocation /\ push'[p].pc = "hook"
        /\ push'[p].admittedUrl = push[p].admittedUrl /\ push'[p].refs = push[p].refs
    BY <2>1, <2>2 DEF Invocation
  <2>4. push' \in [Push -> Invocation]
    BY <2>1, <2>3 DEF Inv, PushType
  <2>5. QED
    BY <2>1, <2>3, <2>4
<1>5. Admitted' /\ Bound'
  BY <1>4 DEF Inv, Admitted, Bound, Advertise
<1>6. QED
  BY <1>4, <1>5 DEF Inv, PushType, MovesWereApproved, Advertise

\* The hook binds what is about to be pushed to the admission.
LEMMA AcceptKeeps ==
  ASSUME Inv, NEW p \in Push, Accept(p)
  PROVE  Inv'
<1>1. /\ push' \in [Push -> Invocation]
      /\ push'[p] = [push[p] EXCEPT !.pc = "update"]
      /\ \A q \in Push \ {p} : push'[q] = push[q]
  BY DEF Inv, PushType, Invocation, Accept, Step
<1>2. /\ push'[p].admittedUrl = push[p].admittedUrl /\ push'[p].refs = push[p].refs
      /\ push'[p].url = push[p].url /\ push'[p].left = push[p].left
  BY <1>1 DEF Inv, PushType, Invocation
<1>3. /\ push[p].url = push[p].admittedUrl /\ push[p].left \subseteq push[p].refs
      /\ receipts' = receipts \cup {[by |-> p, updates |-> push[p].left]}
  BY DEF Accept, ValidUpdates
<1>4. Admitted'
  BY <1>1, <1>2 DEF Inv, Admitted, Accept
<1>5. \E r \in receipts' : r.by = p /\ push'[p].left \subseteq r.updates
  <2> DEFINE r == [by |-> p, updates |-> push[p].left]
  <2>1. r \in receipts' /\ r.by = p /\ r.updates = push[p].left
    BY <1>3
  <2> HIDE DEF r
  <2>2. QED
    BY <1>2, <2>1
<1>6. Bound'
  <2>1. \A q \in Push \ {p} : push[q].pc = "update" =>
           /\ push[q].url = push[q].admittedUrl /\ push[q].left \subseteq push[q].refs
           /\ \E r \in receipts' : r.by = q /\ push[q].left \subseteq r.updates
    BY <1>3 DEF Inv, Bound
  <2>2. QED
    <3> SUFFICES ASSUME NEW q \in Push, push'[q].pc = "update"
                 PROVE  /\ push'[q].url = push'[q].admittedUrl
                        /\ push'[q].left \subseteq push'[q].refs
                        /\ \E r \in receipts' : r.by = q /\ push'[q].left \subseteq r.updates
      BY DEF Bound
    <3>1. CASE q = p
      BY <1>2, <1>3, <1>5, <3>1
    <3>2. CASE q # p
      <4>1. push'[q] = push[q]
        BY <1>1, <3>2
      <4>2. QED
        BY <2>1, <3>2, <4>1
    <3>3. QED
      BY <3>1, <3>2
<1>7. MovesWereApproved'
  BY <1>3 DEF Inv, MovesWereApproved, Accept
<1>8. QED
  BY <1>1, <1>4, <1>6, <1>7 DEF Inv, PushType, Accept

\* The server moves a branch for an update that the hook let through.
LEMMA ServerKeeps ==
  ASSUME Inv, NEW p \in Push, ServerUpdate(p)
  PROVE  Inv'
<1>1. PICK u \in push[p].left :
         LET current == remote[push[p].url][u.branch] = u.expected
         IN  /\ push[p].pc = "update"
             /\ remote' = IF current THEN [remote EXCEPT ![push[p].url][u.branch] = u.source]
                          ELSE remote
             /\ moves' = IF current
                         THEN moves \cup {[by |-> p, url |-> push[p].url, update |-> u]}
                         ELSE moves
             /\ push' = [push EXCEPT ![p].left = push[p].left \ {u}]
             /\ UNCHANGED <<local, url, dirty, hooked, receipts, approved, changes>>
  BY DEF ServerUpdate
<1>2. u \in push[p].refs /\ push[p].url = push[p].admittedUrl /\ u \in Update
  BY <1>1 DEF Inv, PushType, Invocation, Bound
<1>3. /\ push' \in [Push -> Invocation]
      /\ push'[p] = [push[p] EXCEPT !.left = push[p].left \ {u}]
      /\ \A q \in Push \ {p} : push'[q] = push[q]
  BY <1>1 DEF Inv, PushType, Invocation
<1>4. /\ push'[p].admittedUrl = push[p].admittedUrl /\ push'[p].refs = push[p].refs
      /\ push'[p].url = push[p].url /\ push'[p].left = push[p].left \ {u}
  BY <1>3 DEF Inv, PushType, Invocation
<1>5. PushType'
  BY <1>1, <1>2, <1>3 DEF Inv, PushType, Update
<1>6. Admitted' /\ Bound'
  BY <1>1, <1>3, <1>4 DEF Inv, Admitted, Bound
<1>7. MovesWereApproved'
  <2>1. [by |-> p, url |-> push[p].url, update |-> u] \in approved
    BY <1>2 DEF Inv, Admitted
  <2>2. PICK r \in receipts : r.by = p /\ u \in r.updates
    BY <1>1 DEF Inv, Bound
  <2>3. QED
    BY <1>1, <2>1, <2>2 DEF Inv, MovesWereApproved
<1>8. QED
  BY <1>5, <1>6, <1>7 DEF Inv

LEMMA InvStep == Inv /\ [PushNext]_pushVars => Inv'
<1> SUFFICES ASSUME Inv, [PushNext]_pushVars
             PROVE  Inv'
  OBVIOUS
<1>1. CASE UNCHANGED pushVars
  BY <1>1 DEF pushVars, Inv, PushType, Admitted, Bound, MovesWereApproved
<1>2. ASSUME NEW p \in Push, Prepare(p) PROVE Inv'
  <2>1. CASE Step(p, "push")
    <3>1. /\ push' \in [Push -> Invocation]
          /\ push'[p] = [push[p] EXCEPT !.pc = "push"]
          /\ \A q \in Push \ {p} : push'[q] = push[q]
      BY <2>1 DEF Inv, PushType, Invocation, Step
    <3>2. /\ push'[p].admittedUrl = push[p].admittedUrl /\ push'[p].refs = push[p].refs
          /\ push'[p].pc = "push"
      <4>1. push[p] \in Invocation
        BY DEF Inv, PushType
      <4>2. QED
        BY <3>1, <4>1 DEF Invocation
    <3>3. Admitted' /\ Bound'
      <4>1. UNCHANGED <<receipts, approved>>
        BY <1>2 DEF Prepare
      <4>2. Admitted'
        BY <3>1, <3>2, <4>1 DEF Inv, Admitted
      <4>3. ASSUME NEW q \in Push, push'[q].pc = "update"
            PROVE  q # p /\ push'[q] = push[q]
        BY <3>1, <3>2, <4>3
      <4>4. Bound'
        BY <4>1, <4>3 DEF Inv, Bound
      <4>5. QED
        BY <4>2, <4>4
    <3>4. QED
      BY <1>2, <3>1, <3>3 DEF Inv, PushType, MovesWereApproved, Prepare
  <2>2. CASE PushEnds(p)
    BY <1>2, <2>2, EndKeeps DEF Prepare
  <2>3. QED
    BY <1>2, <2>1, <2>2 DEF Prepare
<1>3. ASSUME NEW p \in Push, Refuse(p) \/ PushDone(p) PROVE Inv'
  BY <1>3, EndKeeps DEF Refuse, PushDone
<1>4. QED
  BY <1>1, <1>2, <1>3, OthersKeep, ApproveKeeps, AdvertiseKeeps, AcceptKeeps, ServerKeeps
  DEF PushNext

\* A stack push moves a branch only as it was approved for that URL, with a
\* receipt that names the move (ServerUpdate, validate_updates, hook).
THEOREM PushesAreBound == PushSpec => []MovesWereApproved
<1>1. PushInit => Inv
  <2> SUFFICES ASSUME PushInit
               PROVE  Inv
    OBVIOUS
  <2>1. PushType
    BY NoPushIs, SomewhereAssumption DEF PushInit, PushType
  <2>2. \A p \in Push : push[p].refs = {} /\ push[p].pc = "none"
    BY DEF PushInit, NoPush
  <2>3. QED
    BY <2>1, <2>2 DEF PushInit, Inv, Admitted, Bound, MovesWereApproved
<1>2. Inv => MovesWereApproved
  BY DEF Inv
<1>3. QED
  BY <1>1, <1>2, InvStep, PTL DEF PushSpec
=============================================================================
