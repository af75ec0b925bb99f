----------------------------- MODULE GitRemote -----------------------------
(***************************************************************************)
(* A project linked to a remote Git repository (services/git_service.py,   *)
(* the git-remote routes of routers/admin.py).  Three histories meet in    *)
(* the project's directory: the branch on the server, the nested clone     *)
(* that pull and push work on, and the outer templates repository, to      *)
(* which every edit made in the UI is committed (catalog_service.py).      *)
(* The two local repositories share one working tree.                      *)
(*                                                                         *)
(* The routes call git synchronously, so the process runs one operation at *)
(* a time; developers push to the server, and an operator works in the     *)
(* clone with the git CLI, at any moment, also between the fetch of a push *)
(* and the push itself.  The text of a file is a number, 0 when the file   *)
(* is absent; a commit is its position in log.                             *)
(***************************************************************************)
EXTENDS Naturals, Sequences

CONSTANTS
    Files,      \* the files of the project directory
    Keep,       \* .gitkeep, which create_project commits
    Never,      \* no commit of the outer repository touches the file
    MaxTexts,   \* bound on texts written
    MaxCommits  \* bound on commits of the remote's project

ASSUME FilesAssumption == Keep \in Files /\ Never \notin Nat
ASSUME BoundAssumption == MaxTexts \in Nat /\ MaxCommits \in Nat

VARIABLES
    log,      \* every commit of server and clone
    remote,   \* the branch on the server
    head,     \* HEAD of the clone, 0 before it exists
    origin,   \* origin/<branch> as last fetched, 0 before it exists
    work,     \* the working tree
    outer,    \* what the last outer commit of a file left, or Never
    texts,    \* how many texts were written so far
    pushing,  \* a push has fetched and compared, and not sent yet
    answer    \* the answer to the last admin request

vars == <<log, remote, head, origin, work, outer, texts, pushing, answer>>

Commit == [past : SUBSET Nat, tree : [Files -> Nat]]

NoFiles == [f \in Files |-> 0]
FirstTree == [f \in Files |-> IF f = Keep THEN 0 ELSE 1]

\* The project was created in the UI, or its git_path was then changed to a
\* directory that does not exist yet.
Init ==
    /\ log = << [past |-> {1}, tree |-> FirstTree] >>
    /\ remote = 1
    /\ head = 0
    /\ origin = 0
    /\ \/ /\ work = [NoFiles EXCEPT ![Keep] = 1]
          /\ outer = [[f \in Files |-> Never] EXCEPT ![Keep] = 1]
       \/ /\ work = NoFiles
          /\ outer = [f \in Files |-> Never]
    /\ texts = 1
    /\ pushing = FALSE
    /\ answer = "none"

Past(c) == log[c].past
Tree(c) == log[c].tree
NextCommit == Len(log) + 1
-----------------------------------------------------------------------------
(* The catalog: edits in the UI go to the working tree and the outer       *)
(* repository only.                                                        *)

CommitOuter(f, text) ==
    /\ work' = [work EXCEPT ![f] = text]
    /\ outer' = [outer EXCEPT ![f] = text]

WriteTemplate(f) ==
    /\ ~ pushing
    /\ f # Keep
    /\ texts < MaxTexts
    /\ texts' = texts + 1
    /\ CommitOuter(f, texts + 1)
    /\ UNCHANGED <<log, remote, head, origin, pushing, answer>>

\* git rm refuses a file that is not in the outer index, or that differs
\* from it: nothing changes then.
DeleteTemplate(f) ==
    /\ ~ pushing
    /\ f # Keep
    /\ work[f] # 0
    /\ work[f] = outer[f]
    /\ CommitOuter(f, 0)
    /\ UNCHANGED <<log, remote, head, origin, texts, pushing, answer>>
-----------------------------------------------------------------------------
(* The admin requests.                                                     *)

\* git clone refuses a directory that has files in it.
Clone ==
    /\ ~ pushing
    /\ head = 0
    /\ IF work = NoFiles
       THEN /\ head' = remote
            /\ origin' = remote
            /\ work' = Tree(remote)
            /\ answer' = "cloned"
       ELSE /\ answer' = "clone refused"
            /\ UNCHANGED <<head, origin, work>>
    /\ UNCHANGED <<log, remote, outer, texts, pushing>>

\* The status request changes nothing but what was fetched.
GetRemoteStatus ==
    /\ ~ pushing
    /\ head # 0
    /\ origin' = remote
    /\ answer' = CASE remote = head -> "in_sync"
                   [] remote # head /\ remote \in Past(head) -> "ahead"
                   [] remote # head /\ head \in Past(remote) -> "behind"
                   [] OTHER -> "diverged"
    /\ UNCHANGED <<log, remote, head, work, outer, texts, pushing>>

Touched(c) == {f \in Files : Tree(head)[f] # Tree(c)[f]}

\* merge leaves a file alone that differs from HEAD; a missing one it restores.
Mergeable(c) ==
    /\ head \in Past(c)
    /\ \A f \in Touched(c) : work[f] \in {0, Tree(head)[f]}

\* Faulty variant: reset --hard in place of the merge.
PullRemoteByReset ==
    /\ ~ pushing
    /\ head # 0
    /\ origin' = remote
    /\ head' = remote
    /\ work' = Tree(remote)
    /\ answer' = "pulled"
    /\ UNCHANGED <<log, remote, outer, texts, pushing>>

\* Faulty variant: HEAD is moved, the files are not checked out.
PullRemoteSoftly ==
    /\ ~ pushing
    /\ head # 0
    /\ origin' = remote
    /\ head' = IF Mergeable(remote) THEN remote ELSE head
    /\ UNCHANGED <<log, remote, work, outer, texts, pushing, answer>>

\* fetch, then merge --ff-only.
PullRemote ==
    /\ ~ pushing
    /\ head # 0
    /\ origin' = remote
    /\ \/ /\ remote \in Past(head)
          /\ answer' = "pulled"
          /\ UNCHANGED <<head, work>>
       \/ /\ remote \notin Past(head) /\ Mergeable(remote)
          /\ head' = remote
          /\ work' = [f \in Files |->
                        IF f \in Touched(remote) THEN Tree(remote)[f] ELSE work[f]]
          /\ answer' = "pulled"
       \/ /\ remote \notin Past(head) /\ ~ Mergeable(remote)
          /\ answer' = "pull refused"
          /\ UNCHANGED <<head, work>>
    /\ UNCHANGED <<log, remote, outer, texts, pushing>>

\* fetch, and refuse when commits of origin/<branch> are missing from HEAD.
PushFetch ==
    /\ ~ pushing
    /\ head # 0
    /\ origin' = remote
    /\ IF remote \in Past(head)
       THEN pushing' = TRUE /\ UNCHANGED answer
       ELSE answer' = "push refused" /\ UNCHANGED pushing
    /\ UNCHANGED <<log, remote, head, work, outer, texts>>

\* Faulty variant: the comparison made after the fetch is trusted, +refspec.
PushSendForced ==
    /\ pushing
    /\ pushing' = FALSE
    /\ remote' = head
    /\ origin' = head
    /\ answer' = "pushed"
    /\ UNCHANGED <<log, head, work, outer, texts>>

\* The server takes the push only if it still is a fast-forward; the
\* connection may break before or after it has.
PushSend ==
    /\ pushing
    /\ pushing' = FALSE
    /\ \/ /\ remote \in Past(head)
          /\ remote' = head
          /\ origin' = head
          /\ answer' = "pushed"
       \/ /\ remote \in Past(head)
          /\ remote' = head
          /\ answer' = "push refused"
          /\ UNCHANGED origin
       \/ /\ answer' = "push refused"
          /\ UNCHANGED <<remote, origin>>
    /\ UNCHANGED <<log, head, work, outer, texts>>
-----------------------------------------------------------------------------
(* Others: developers on the server, an operator in the clone.             *)

DeveloperPush(f, text) ==
    /\ NextCommit <= MaxCommits
    /\ text # Tree(remote)[f]
    /\ log' = Append(log, [past |-> Past(remote) \cup {NextCommit},
                           tree |-> [Tree(remote) EXCEPT ![f] = text]])
    /\ remote' = NextCommit
    /\ texts' = IF text = 0 THEN texts ELSE text
    /\ UNCHANGED <<head, origin, work, outer, pushing, answer>>

\* git add -A && git commit, in the clone.
OperatorCommit ==
    /\ head # 0
    /\ NextCommit <= MaxCommits
    /\ work # Tree(head)
    /\ log' = Append(log, [past |-> Past(head) \cup {NextCommit}, tree |-> work])
    /\ head' = NextCommit
    /\ UNCHANGED <<remote, origin, work, outer, texts, pushing, answer>>

\* The divergence is resolved by hand: a merge commit that takes each file
\* from either side.
OperatorMerge(ours) ==
    /\ head # 0
    /\ NextCommit <= MaxCommits
    /\ head \notin Past(origin) /\ origin \notin Past(head)
    /\ work = Tree(head)
    /\ work' = [f \in Files |-> IF f \in ours THEN Tree(head)[f] ELSE Tree(origin)[f]]
    /\ log' = Append(log, [past |-> Past(head) \cup Past(origin) \cup {NextCommit},
                           tree |-> work'])
    /\ head' = NextCommit
    /\ UNCHANGED <<remote, origin, outer, texts, pushing, answer>>
-----------------------------------------------------------------------------
Next ==
    \/ \E f \in Files : WriteTemplate(f)
    \/ \E f \in Files : DeleteTemplate(f)
    \/ Clone
    \/ GetRemoteStatus
    \/ PullRemote
    \/ PushFetch
    \/ PushSend
    \/ \E f \in Files, text \in {0, texts + 1} \cap 0..MaxTexts : DeveloperPush(f, text)
    \/ OperatorCommit
    \/ \E ours \in SUBSET Files : OperatorMerge(ours)

Spec == Init /\ [][Next]_vars
-----------------------------------------------------------------------------
(* Properties.                                                             *)

Answers == {"none", "cloned", "clone refused", "pulled", "pull refused", "pushed",
            "push refused", "in_sync", "ahead", "behind", "diverged"}

Commits == 1..Len(log)

\* Every variable keeps its shape, and every reference names a commit.
TypeOK ==
    /\ log \in Seq(Commit)
    /\ remote \in Commits
    /\ head \in Commits \cup {0}
    /\ origin \in Commits \cup {0}
    /\ head # 0 => origin # 0
    /\ work \in [Files -> Nat]
    /\ outer \in [Files -> Nat \cup {Never}]
    /\ texts \in Nat
    /\ pushing \in BOOLEAN /\ (pushing => head # 0)
    /\ answer \in Answers

\* "Force-push is never performed" (push_remote): whatever is pushed by whom
\* between the comparison and the push, no commit that was on the server's
\* branch is ever missing from it later.
RemoteKeepsHistory == [][Past(remote) \subseteq log'[remote'].past]_vars

\* Pull is fast-forward only: no commit an operator made in the clone is lost.
LocalKeepsHistory ==
    [][head # 0 => head' # 0 /\ Past(head) \subseteq log'[head'].past]_vars

\* Clone, pull and push lose no commit of anybody, on either side.
HistoriesAreKept == RemoteKeepsHistory /\ LocalKeepsHistory

\* A file that differs from HEAD holds an edit made in the UI; clone, pull and
\* push never replace it, only the next edit in the UI does.
Uncommitted(f) == work[f] # 0 /\ (head = 0 \/ work[f] # Tree(head)[f])
PullKeepsEdits ==
    [][\A f \in Files :
          Uncommitted(f) /\ work'[f] # work[f] => outer'[f] = work'[f]]_vars

\* What is rendered is what was pulled: a file of a cloned project that was
\* never edited in the UI has the text of the clone's HEAD.
UntouchedFilesFollowHead ==
    \A f \in Files : head # 0 /\ outer[f] = Never => work[f] = Tree(head)[f]

-----------------------------------------------------------------------------
\* Every commit is in its own past, and a past contains the pasts of its
\* members: with this, fast-forward means that no commit is lost.
PastsClosed ==
    \A c \in Commits :
        /\ c \in Past(c)
        /\ Past(c) \subseteq Commits
        /\ \A d \in Past(c) : Past(d) \subseteq Past(c)
=============================================================================
