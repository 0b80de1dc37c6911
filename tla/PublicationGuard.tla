--------------------------- MODULE PublicationGuard ---------------------------
(***************************************************************************)
(* .agents/skills/git-workflow/scripts/publication_guard.py: before a      *)
(* commit or a pull request text is published to a public repository, the  *)
(* guard rewrites the private references out of the staged files, their    *)
(* worktree copies and the text files it was given.  Runs in several       *)
(* worktrees of one repository share one map of placeholders, under one    *)
(* lock.                                                                   *)
(*                                                                         *)
(* A content is a set of lines, a line one reference: the repository it    *)
(* names, its form (a link, or a bare word pair), and the placeholder that *)
(* is written instead of its name, 0 where the name itself is.  "repo"     *)
(* stays in a line that was rewritten, so that what a placeholder stands   *)
(* for can be told; the guard never reads it there.                        *)
(*                                                                         *)
(* The destination is public: for any other the guard only reports.        *)
(***************************************************************************)
EXTENDS Integers, Sequences, FiniteSets, SequencesExt

CONSTANTS
    Worktree, File,
    Data,           \* the files that hold JSON: names become placeholders
    Repo,           \* what references name
    Visibility,     \* of each: "public", "private" or "missing" for this user
    Own,            \* those whose owner is the user or an organization of theirs
    Written,        \* the references people write: a repository and a form
    NoWorktree, NoFile,
    MaxEdits        \* bound on the lines that are written

Form == {"link", "bare"}

ASSUME DataAssumption == Data \subseteq File
ASSUME RepoAssumption == IsFiniteSet(Repo)
ASSUME WrittenAssumption == Written \subseteq Repo \X Form
ASSUME WorktreeAssumption == NoWorktree \notin Worktree

VARIABLES
    head,       \* the lines each file of a worktree publishes already
    index,      \* its staged content
    work,       \* its content in the worktree
    text,       \* the message, title or body file
    saved,      \* the saved map: the repositories in the order of their placeholders
    lock,       \* the worktree whose run holds the map's lock
    run,        \* the run in each worktree
    published,  \* history: all lines published
    torn,       \* history: a run ended after it rewrote something, its map unsaved
    edits       \* how many lines were written

guardVars == <<head, index, work, text, saved, lock, run, published, torn, edits>>

Neutral(line) == [line EXCEPT !.placeholder = -1]

\* A run: its operation; the files it is to rewrite; the repositories it found
\* private; its map; its exit code; whether it changed anything; and whether
\* the worktree is as the run left it.
NoRun == [pc |-> "idle", op |-> "none", todo |-> {}, file |-> NoFile, private |-> {},
          map |-> <<>>, exit |-> -1, wrote |-> FALSE, fresh |-> FALSE]

GuardInit ==
    /\ head = [w \in Worktree |-> [f \in File |-> {}]]
    /\ index = head /\ work = head
    /\ text = [w \in Worktree |-> {}]
    /\ saved = <<>>
    /\ lock = NoWorktree
    /\ run = [w \in Worktree |-> NoRun]
    /\ published = {}
    /\ torn = FALSE
    /\ edits = 0

Is(w, pc) == run[w].pc = pc
Goto(w, pc) == run' = [run EXCEPT ![w].pc = pc]

\* Exit codes: 0, 2 for a GuardError, 1 for any other end.
Exits(w, code) ==
    /\ run' = [run EXCEPT ![w] = [NoRun EXCEPT !.op = run[w].op, !.exit = code,
                                               !.wrote = run[w].wrote, !.fresh = run[w].fresh]]
    /\ lock' = IF lock = w THEN NoWorktree ELSE lock

Fails(w, code) ==
    /\ Exits(w, code)
    /\ torn' = (torn \/ run[w].wrote)
    /\ UNCHANGED <<head, index, work, text, saved, published, edits>>

-----------------------------------------------------------------------------
\* changes(): the lines a version adds to what the base already publishes.
Added(content, base) == content \ base

\* Seeded fault: a bare word pair stays ordinary text where a link names the same.
IsPrivateUnlessBare(repo, forms) ==
    \/ Visibility[repo] = "private"
    \/ Visibility[repo] = "missing" /\ ("bare" \in forms => repo \in Own)

\* is_private: a bare word pair that GitHub does not know is a repository only
\* if its owner is the user's; any other reference that is not public is private.
IsPrivate(repo, forms) ==
    \/ Visibility[repo] = "private"
    \/ Visibility[repo] = "missing" /\ (forms = {"bare"} => repo \in Own)

\* candidates(): the references of all texts, with every form they appear in.
Candidates(lines) == {line.repo : line \in {l \in lines : l.placeholder = 0}}
Forms(lines, repo) == {l.form : l \in {k \in lines : k.repo = repo /\ k.placeholder = 0}}
PrivateIn(lines) == {repo \in Candidates(lines) : IsPrivate(repo, Forms(lines, repo))}

Begin(w) ==
    /\ Is(w, "idle")
    /\ \E op \in {"staged", "pr"} :
          run' = [run EXCEPT ![w] = [NoRun EXCEPT !.pc = "scan", !.op = op, !.fresh = TRUE]]
    /\ UNCHANGED <<head, index, work, text, saved, lock, published, torn, edits>>

\* guard() before the map: what the operation publishes, and which of its
\* references are private, asked of GitHub.  Nothing private ends the run.
Scan(w) ==
    LET changed == IF run[w].op = "pr" THEN {}
                   ELSE {f \in File : Added(index[w][f], head[w][f]) # {}}
        lines == text[w] \cup UNION {Added(index[w][f], head[w][f]) : f \in changed}
        private == PrivateIn(lines)
    IN  /\ Is(w, "scan")
        /\ \/ /\ private # {}
              /\ run' = [run EXCEPT ![w].pc = "lock", ![w].todo = changed, ![w].private = private]
              /\ UNCHANGED lock
           \/ private = {} /\ Exits(w, 0)
        /\ UNCHANGED <<head, index, work, text, saved, published, torn, edits>>

\* Seeded fault: a held lock is not waited for.
TakeHeldLock(w) ==
    /\ Is(w, "lock")
    /\ lock' = w
    /\ run' = [run EXCEPT ![w].pc = "next", ![w].map = saved]
    /\ UNCHANGED <<head, index, work, text, saved, published, torn, edits>>

\* Seeded fault: the saved map is not loaded under the lock.
TakeLockUnread(w) ==
    /\ Is(w, "lock") /\ lock = NoWorktree
    /\ lock' = w
    /\ run' = [run EXCEPT ![w].pc = "next"]
    /\ UNCHANGED <<head, index, work, text, saved, published, torn, edits>>

\* Mapper.__enter__: the lock, and the map as it is saved.
TakeLock(w) ==
    /\ Is(w, "lock") /\ lock = NoWorktree
    /\ lock' = w
    /\ run' = [run EXCEPT ![w].pc = "next", ![w].map = saved]
    /\ UNCHANGED <<head, index, work, text, saved, published, torn, edits>>

\* Mapper.repo: the placeholder a repository has, or the next one.
Placeholder(map, repo) == CHOOSE i \in DOMAIN map : map[i] = repo
Mapped(map, repos) == map \o SetToSeq(repos \ ToSet(map))

\* Sanitiser.document: the lines the base does not have are rewritten, names in
\* data to placeholders and elsewhere to a neutral phrase.
ToRewrite(w, content, base) ==
    {l \in Added(content, base) : l.placeholder = 0 /\ l.repo \in run[w].private}
MapFor(w, f, content, base) ==
    IF f \in Data THEN Mapped(run[w].map, {l.repo : l \in ToRewrite(w, content, base)})
    ELSE run[w].map
Document(w, f, map, content, base) ==
    LET old == ToRewrite(w, content, base)
        new == {IF f \in Data THEN [l EXCEPT !.placeholder = Placeholder(map, l.repo)]
                ELSE Neutral(l) : l \in old}
    IN  (content \ old) \cup new

\* rewrite_index: the staged content, and then its copy in the worktree with
\* the edits that are not staged.
RewriteIndex(w) == \E f \in run[w].todo :
    LET map == MapFor(w, f, index[w][f], head[w][f])
        new == Document(w, f, map, index[w][f], head[w][f])
    IN  /\ Is(w, "next")
        /\ index' = [index EXCEPT ![w][f] = new]
        /\ run' = [run EXCEPT ![w].pc = "worktree", ![w].file = f, ![w].map = map,
                              ![w].todo = run[w].todo \ {f},
                              ![w].wrote = (run[w].wrote \/ new # index[w][f])]
        /\ UNCHANGED <<head, work, text, saved, lock, published, torn, edits>>

RewriteWorktree(w) ==
    LET f == run[w].file
        map == MapFor(w, f, work[w][f], head[w][f])
        new == Document(w, f, map, work[w][f], head[w][f])
    IN  /\ Is(w, "worktree")
        /\ work' = [work EXCEPT ![w][f] = new]
        /\ run' = [run EXCEPT ![w].pc = "next", ![w].file = NoFile, ![w].map = map,
                              ![w].wrote = (run[w].wrote \/ new # work[w][f])]
        /\ UNCHANGED <<head, index, text, saved, lock, published, torn, edits>>

RewriteText(w) ==
    LET new == {IF l.placeholder = 0 /\ l.repo \in run[w].private THEN Neutral(l) ELSE l :
                  l \in text[w]}
    IN  /\ Is(w, "next") /\ run[w].todo = {}
        /\ text' = [text EXCEPT ![w] = new]
        /\ run' = [run EXCEPT ![w].pc = "save", ![w].wrote = (run[w].wrote \/ new # text[w])]
        /\ UNCHANGED <<head, index, work, saved, lock, published, torn, edits>>

\* Mapper.__exit__ saves the map, in one replacement, where nothing was raised.
Save(w) ==
    /\ Is(w, "save")
    /\ saved' = run[w].map
    /\ Exits(w, 0)
    /\ UNCHANGED <<head, index, work, text, published, torn, edits>>

\* GitHub, Git or the lock gives no answer, before anything was written or, with
\* a later "git update-index", after.
NoAnswer(w) ==
    /\ run[w].pc \in {"scan", "lock", "next"}
    /\ Is(w, "lock") => lock # NoWorktree
    /\ Is(w, "next") => run[w].todo # {}
    /\ Fails(w, 2)

\* Writing a file fails, or the run is killed.
Dies(w) ==
    /\ ~Is(w, "idle")
    /\ Fails(w, 1)

-----------------------------------------------------------------------------
\* Whoever uses the worktree writes a line into a file, and may stage the file,
\* or into the text; and publishes after a run that exited with 0, if what it
\* checked is as the run left it.
WriteLine(w) ==
    /\ edits < MaxEdits
    /\ edits' = edits + 1
    /\ \E reference \in Written :
        LET line == [repo |-> reference[1], form |-> reference[2], placeholder |-> 0]
        IN  \/ \E f \in File, stage \in BOOLEAN :
                  /\ line \notin work[w][f]
                  /\ work' = [work EXCEPT ![w][f] = @ \cup {line}]
                  /\ index' = IF stage THEN [index EXCEPT ![w][f] = work'[w][f]] ELSE index
                  /\ run' = [run EXCEPT ![w].fresh = (@ /\ ~stage)]
                  /\ UNCHANGED text
            \/ /\ line \notin text[w]
               /\ text' = [text EXCEPT ![w] = @ \cup {line}]
               /\ run' = [run EXCEPT ![w].fresh = FALSE]
               /\ UNCHANGED <<work, index>>
    /\ UNCHANGED <<head, saved, lock, published, torn>>

Publish(w) ==
    /\ Is(w, "idle") /\ run[w].exit = 0 /\ run[w].fresh
    /\ published' = published \cup text[w]
          \cup (IF run[w].op = "pr" THEN {} ELSE UNION {index[w][f] : f \in File})
    /\ head' = IF run[w].op = "pr" THEN head ELSE [head EXCEPT ![w] = index[w]]
    /\ text' = [text EXCEPT ![w] = {}]
    /\ run' = [run EXCEPT ![w] = NoRun]
    /\ UNCHANGED <<index, work, saved, lock, torn, edits>>

GuardNext == \E w \in Worktree :
    \/ Begin(w) \/ Scan(w) \/ TakeLock(w) \/ RewriteIndex(w) \/ RewriteWorktree(w)
    \/ RewriteText(w) \/ Save(w) \/ NoAnswer(w) \/ Dies(w) \/ WriteLine(w) \/ Publish(w)

-----------------------------------------------------------------------------
\* No private name is published: no file or text that a run passed, and nobody
\* touched since it began, names a private repository.
NothingPrivateIsPublished ==
    \A l \in published : l.placeholder = 0 => ~IsPrivate(l.repo, {l.form})

\* A placeholder that is published stands for one repository, whatever worktree
\* handed it out; unless a run ended between its first rewrite and its save.
PlaceholderIsOneRepository ==
    \/ torn
    \/ \A k, l \in published : k.placeholder > 0 /\ k.placeholder = l.placeholder => k.repo = l.repo

\* What the saved map says never changes: later runs agree with earlier ones.
MapOnlyGrows == [][IsPrefix(saved, saved')]_saved

\* The script's header and its skill: exit 2 means that nothing was changed.
ExitTwoChangesNothing == \A w \in Worktree : run[w].exit = 2 => ~run[w].wrote
=============================================================================
