--------------------------- MODULE GitRemoteProofs ---------------------------
(***************************************************************************)
(* No history is lost, for any number of files, texts and commits:         *)
(* whatever the process, the developers and the operator do, the commits   *)
(* of the server's branch and of the clone only grow, and no pull replaces *)
(* an edit made in the UI.  The second part is about project.yaml.         *)
(***************************************************************************)
EXTENDS GitRemote, YamlState, TLAPS

\* What the proofs of history need of the variables.
HistoryInv == TypeOK /\ PastsClosed

\* Appending a commit leaves the commits before it alone.
LEMMA AppendKeeps ==
    ASSUME log \in Seq(Commit), NEW c \in Commit, log' = Append(log, c)
    PROVE  /\ log' \in Seq(Commit)
           /\ Len(log') = NextCommit
           /\ Commits' = Commits \cup {NextCommit}
           /\ NextCommit \notin Commits
           /\ \A d \in Commits : log'[d] = log[d]
           /\ log'[NextCommit] = c
  BY DEF Commits, NextCommit

\* A new commit on top of a set of closed pasts keeps every past closed.
LEMMA AppendCloses ==
    ASSUME log \in Seq(Commit), PastsClosed,
           NEW older \in SUBSET Commits, \A d \in older : Past(d) \subseteq older,
           NEW tree \in [Files -> Nat],
           log' = Append(log, [past |-> older \cup {NextCommit}, tree |-> tree])
    PROVE  /\ log' \in Seq(Commit) /\ Len(log') = NextCommit
           /\ Commits' = Commits \cup {NextCommit}
           /\ \A d \in Commits : log'[d] = log[d]
           /\ log'[NextCommit] = [past |-> older \cup {NextCommit}, tree |-> tree]
           /\ PastsClosed'
<1> DEFINE new == [past |-> older \cup {NextCommit}, tree |-> tree]
<1>1. NextCommit \in Nat /\ Commits \subseteq Nat
  BY DEF NextCommit, Commits
<1>2. new \in Commit
  BY <1>1 DEF Commit
<1>3. /\ log' \in Seq(Commit) /\ Len(log') = NextCommit
      /\ Commits' = Commits \cup {NextCommit}
      /\ NextCommit \notin Commits
      /\ \A d \in Commits : log'[d] = log[d]
      /\ log'[NextCommit] = new
  <2> HIDE DEF new
  <2> log' = Append(log, new)
    BY DEF new
  <2> QED BY <1>2, AppendKeeps
<1>4. new.past = older \cup {NextCommit}
  OBVIOUS
<1> HIDE DEF new
<1>5. ASSUME NEW c \in Commits'
      PROVE  /\ c \in log'[c].past
             /\ log'[c].past \subseteq Commits'
             /\ \A d \in log'[c].past : log'[d].past \subseteq log'[c].past
  <2>1. CASE c \in Commits
    <3>1. log'[c].past = Past(c) /\ c \in Past(c) /\ Past(c) \subseteq Commits
      BY <1>3, <2>1 DEF Past, PastsClosed
    <3>2. \A d \in Past(c) : log'[d].past = Past(d) /\ Past(d) \subseteq Past(c)
      BY <1>3, <2>1, <3>1 DEF Past, PastsClosed
    <3> QED BY <1>3, <3>1, <3>2
  <2>2. CASE c = NextCommit
    <3>1. log'[c].past = older \cup {NextCommit}
      BY <1>3, <1>4, <2>2
    <3>2. \A d \in older : log'[d].past = Past(d)
      BY <1>3 DEF Past
    <3> QED BY <1>3, <2>2, <3>1, <3>2
  <2> QED BY <1>3, <2>1, <2>2
<1>6. PastsClosed'
  BY <1>5 DEF PastsClosed, Past
<1> QED BY <1>3, <1>6 DEF new

LEMMA InitHistory == Init => HistoryInv
<1> SUFFICES ASSUME Init PROVE HistoryInv
  OBVIOUS
<1> USE FilesAssumption
<1> DEFINE first == [past |-> {1}, tree |-> FirstTree]
<1>1. FirstTree \in [Files -> Nat] /\ NoFiles \in [Files -> Nat]
  BY DEF FirstTree, NoFiles
<1>2. first \in Commit /\ first.past = {1}
  BY <1>1 DEF Commit
<1> HIDE DEF first
<1>3. log = <<first>>
  BY DEF Init, first
<1>4. log \in Seq(Commit) /\ Len(log) = 1 /\ log[1] = first
  BY <1>2, <1>3
<1>5. Commits = {1}
  BY <1>4 DEF Commits
<1>6. work \in [Files -> Nat] /\ outer \in [Files -> Nat \cup {Never}]
  BY <1>1 DEF Init
<1>7. remote = 1 /\ head = 0 /\ origin = 0 /\ texts = 1 /\ pushing = FALSE /\ answer = "none"
  BY DEF Init
<1>8. TypeOK
  BY <1>4, <1>5, <1>6, <1>7 DEF TypeOK, Answers
<1>9. PastsClosed
  BY <1>2, <1>4, <1>5 DEF PastsClosed, Past
<1> QED BY <1>8, <1>9 DEF HistoryInv

\* The facts of TypeOK the steps need, one by one.
LEMMA Typing ==
    ASSUME HistoryInv
    PROVE  /\ log \in Seq(Commit) /\ Len(log) \in Nat /\ Commits = 1..Len(log)
           /\ Commits \subseteq Nat \ {0}
           /\ \A c \in Commits : log[c] \in Commit
           /\ \A c \in Commits : Past(c) \subseteq Commits /\ c \in Past(c)
           /\ \A c \in Commits : Tree(c) \in [Files -> Nat]
           /\ \A c \in Commits, d \in Commits : d \in Past(c) => Past(d) \subseteq Past(c)
           /\ PastsClosed
<1>1. log \in Seq(Commit) /\ Len(log) \in Nat /\ Commits = 1..Len(log)
  BY DEF HistoryInv, TypeOK, Commits
<1>2. \A c \in Commits : log[c] \in Commit
  BY <1>1
<1>3. \A c \in Commits : Tree(c) \in [Files -> Nat]
  BY <1>2 DEF Tree, Commit
<1>4. Commits \subseteq Nat \ {0}
  BY <1>1
<1> QED BY <1>1, <1>2, <1>3, <1>4 DEF HistoryInv, PastsClosed

\* Steps that append no commit.
LEMMA SameLog ==
    ASSUME HistoryInv, UNCHANGED log
    PROVE  Commits' = Commits /\ PastsClosed'
  BY DEF HistoryInv, PastsClosed, Commits, Past

LEMMA HistoryStep == HistoryInv /\ [Next]_vars => HistoryInv'
<1> SUFFICES ASSUME HistoryInv, [Next]_vars PROVE HistoryInv'
  OBVIOUS
<1> USE Typing
<1>t. /\ remote \in Commits /\ head \in Commits \cup {0} /\ origin \in Commits \cup {0}
      /\ (head # 0 => origin # 0)
      /\ work \in [Files -> Nat] /\ outer \in [Files -> Nat \cup {Never}]
      /\ texts \in Nat /\ pushing \in BOOLEAN /\ (pushing => head # 0) /\ answer \in Answers
  BY DEF HistoryInv, TypeOK
<1>a. ASSUME UNCHANGED log,
             remote' \in Commits, head' \in Commits \cup {0}, origin' \in Commits \cup {0},
             head' # 0 => origin' # 0,
             work' \in [Files -> Nat], outer' \in [Files -> Nat \cup {Never}],
             texts' \in Nat, pushing' \in BOOLEAN, pushing' => head' # 0, answer' \in Answers
      PROVE  HistoryInv'
  BY <1>a, SameLog DEF HistoryInv, TypeOK
<1>b. ASSUME log' \in Seq(Commit), PastsClosed', Commits' = Commits \cup {NextCommit},
             remote' \in Commits \cup {NextCommit}, head' \in Commits \cup {NextCommit, 0},
             head' # 0 => origin # 0, head # 0 => head' # 0,
             work' \in [Files -> Nat], texts' \in Nat,
             UNCHANGED <<origin, outer, pushing, answer>>
      PROVE  HistoryInv'
  BY <1>b, <1>t DEF HistoryInv, TypeOK
<1>1. ASSUME NEW f \in Files, WriteTemplate(f) PROVE HistoryInv'
  BY <1>1, <1>t, <1>a DEF WriteTemplate, CommitOuter
<1>2. ASSUME NEW f \in Files, DeleteTemplate(f) PROVE HistoryInv'
  BY <1>2, <1>t, <1>a DEF DeleteTemplate, CommitOuter
<1>3. ASSUME Clone PROVE HistoryInv'
  BY <1>3, <1>t, <1>a DEF Clone, Answers
<1>4. ASSUME GetRemoteStatus PROVE HistoryInv'
  <2>1. answer' \in Answers
    BY <1>4 DEF GetRemoteStatus, Answers
  <2> QED BY <1>4, <1>t, <1>a, <2>1 DEF GetRemoteStatus
<1>5. ASSUME PullRemote PROVE HistoryInv'
  <2>1. answer' \in Answers
    BY <1>5 DEF PullRemote, Answers
  <2>2. work' \in [Files -> Nat] /\ head' \in Commits
    <3>1. Tree(remote) \in [Files -> Nat]
      BY <1>t
    <3> QED BY <1>5, <1>t, <3>1 DEF PullRemote
  <2> QED BY <1>5, <1>t, <1>a, <2>1, <2>2 DEF PullRemote
<1>6. ASSUME PushFetch PROVE HistoryInv'
  <2>1. answer' \in Answers /\ pushing' \in BOOLEAN
    BY <1>6, <1>t DEF PushFetch, Answers
  <2> QED BY <1>6, <1>t, <1>a, <2>1 DEF PushFetch
<1>7. ASSUME PushSend PROVE HistoryInv'
  <2>1. answer' \in Answers
    BY <1>7 DEF PushSend, Answers
  <2>2. remote' \in Commits /\ origin' \in Commits
    BY <1>7, <1>t DEF PushSend
  <2> QED BY <1>7, <1>t, <1>a, <2>1, <2>2 DEF PushSend
<1>8. ASSUME NEW f \in Files, NEW text \in Nat, DeveloperPush(f, text) PROVE HistoryInv'
  <2>1. [Tree(remote) EXCEPT ![f] = text] \in [Files -> Nat]
    BY <1>t
  <2>2. Past(remote) \in SUBSET Commits /\ \A d \in Past(remote) : Past(d) \subseteq Past(remote)
    BY <1>t DEF PastsClosed
  <2>3. log' \in Seq(Commit) /\ PastsClosed' /\ Commits' = Commits \cup {NextCommit}
    BY <1>8, <2>1, <2>2, AppendCloses DEF DeveloperPush
  <2>4. texts' \in Nat
    BY <1>8, <1>t DEF DeveloperPush
  <2> QED BY <1>8, <1>t, <1>b, <2>3, <2>4 DEF DeveloperPush
<1>9. ASSUME OperatorCommit PROVE HistoryInv'
  <2>1. head \in Commits
    BY <1>9, <1>t DEF OperatorCommit
  <2>2. Past(head) \in SUBSET Commits /\ \A d \in Past(head) : Past(d) \subseteq Past(head)
    BY <2>1 DEF PastsClosed
  <2>3. log' \in Seq(Commit) /\ PastsClosed' /\ Commits' = Commits \cup {NextCommit}
    BY <1>9, <1>t, <2>2, AppendCloses DEF OperatorCommit
  <2> QED BY <1>9, <1>t, <1>b, <2>3 DEF OperatorCommit, NextCommit
<1>10. ASSUME NEW ours \in SUBSET Files, OperatorMerge(ours) PROVE HistoryInv'
  <2> DEFINE older == Past(head) \cup Past(origin)
  <2>1. head \in Commits /\ origin \in Commits
    BY <1>10, <1>t DEF OperatorMerge
  <2>2. Tree(head) \in [Files -> Nat] /\ Tree(origin) \in [Files -> Nat]
    BY <2>1
  <2>3. work' \in [Files -> Nat]
    BY <1>10, <2>2 DEF OperatorMerge
  <2>4. older \in SUBSET Commits /\ \A d \in older : Past(d) \subseteq older
    BY <2>1 DEF PastsClosed
  <2>5. log' = Append(log, [past |-> older \cup {NextCommit}, tree |-> work'])
    BY <1>10 DEF OperatorMerge
  <2>6. log' \in Seq(Commit) /\ PastsClosed' /\ Commits' = Commits \cup {NextCommit}
    <3> HIDE DEF older
    <3> QED BY <2>3, <2>4, <2>5, AppendCloses
  <2> QED BY <1>10, <1>t, <1>b, <2>3, <2>6 DEF OperatorMerge, NextCommit
<1>11. ASSUME UNCHANGED vars PROVE HistoryInv'
  BY <1>11, <1>t, <1>a DEF vars
<1> QED
  <2>1. \A text \in {0, texts + 1} \cap 0..MaxTexts : text \in Nat
    BY <1>t
  <2> QED BY <2>1, <1>1, <1>2, <1>3, <1>4, <1>5, <1>6, <1>7, <1>8, <1>9, <1>10, <1>11 DEF Next

LEMMA HistoryInvariant == Spec => []HistoryInv
  BY InitHistory, HistoryStep, PTL DEF Spec

\* Every variable of GitRemote keeps its shape in every behaviour, and every
\* branch names a commit that exists.
THEOREM TypeCorrect == Spec => []TypeOK
<1>1. HistoryInv => TypeOK
  BY DEF HistoryInv
<1> QED BY <1>1, HistoryInvariant, PTL

\* The log is only ever appended to: what a commit contains never changes.
LEMMA LogGrows ==
    ASSUME HistoryInv, [Next]_vars
    PROVE  \A c \in Commits : c \in Commits' /\ log'[c] = log[c]
<1>1. log \in Seq(Commit)
  BY Typing
<1>2. CASE UNCHANGED log
  BY <1>2 DEF Commits
<1>3. ASSUME NEW c \in Commit, log' = Append(log, c)
      PROVE  \A d \in Commits : d \in Commits' /\ log'[d] = log[d]
  BY <1>1, <1>3, AppendKeeps
<1>4. ASSUME NEW f \in Files, NEW text \in Nat, DeveloperPush(f, text)
      PROVE  \A c \in Commits : c \in Commits' /\ log'[c] = log[c]
  <2>1. remote \in Commits
    BY DEF HistoryInv, TypeOK
  <2>2. [past |-> Past(remote) \cup {NextCommit}, tree |-> [Tree(remote) EXCEPT ![f] = text]] \in Commit
    BY <2>1, Typing DEF Commit, NextCommit
  <2> QED BY <1>3, <1>4, <2>2 DEF DeveloperPush
<1>5. ASSUME OperatorCommit
      PROVE  \A c \in Commits : c \in Commits' /\ log'[c] = log[c]
  <2>1. head \in Commits /\ work \in [Files -> Nat]
    BY <1>5 DEF HistoryInv, TypeOK, OperatorCommit
  <2>2. [past |-> Past(head) \cup {NextCommit}, tree |-> work] \in Commit
    BY <2>1, Typing DEF Commit, NextCommit
  <2> QED BY <1>3, <1>5, <2>2 DEF OperatorCommit
<1>6. ASSUME NEW ours \in SUBSET Files, OperatorMerge(ours)
      PROVE  \A c \in Commits : c \in Commits' /\ log'[c] = log[c]
  <2>1. head \in Commits /\ origin \in Commits
    BY <1>6 DEF HistoryInv, TypeOK, OperatorMerge
  <2>2. Tree(head) \in [Files -> Nat] /\ Tree(origin) \in [Files -> Nat]
    BY <2>1, Typing
  <2>3. work' \in [Files -> Nat]
    BY <1>6, <2>2 DEF OperatorMerge
  <2>4. [past |-> Past(head) \cup Past(origin) \cup {NextCommit}, tree |-> work'] \in Commit
    BY <2>1, <2>3, Typing DEF Commit, NextCommit
  <2> QED BY <1>3, <1>6, <2>4 DEF OperatorMerge
<1>7. texts \in Nat
  BY DEF HistoryInv, TypeOK
<1>8. \A text \in {0, texts + 1} \cap 0..MaxTexts : text \in Nat
  BY <1>7
<1> QED BY <1>2, <1>4, <1>5, <1>6, <1>8
       DEF Next, vars, WriteTemplate, DeleteTemplate, Clone, GetRemoteStatus, PullRemote,
           PushFetch, PushSend

\* No commit is ever lost on the server: whatever was reachable from the branch
\* still is after any push, also when another push came between the
\* comparison in push_remote and the push itself.
THEOREM RemoteHistory == Spec => RemoteKeepsHistory
<1> DEFINE Grows == Past(remote) \subseteq log'[remote'].past
<1>1. ASSUME HistoryInv, [Next]_vars PROVE Grows
  <2> USE <1>1
  <2>1. remote \in Commits /\ (pushing => head \in Commits)
    BY DEF HistoryInv, TypeOK
  <2>2. \A c \in Commits : log'[c] = log[c]
    BY LogGrows
  <2>3. CASE remote' = remote
    BY <2>1, <2>2, <2>3 DEF Past
  <2>4. ASSUME PushSend, remote' # remote PROVE Grows
    <3>1. remote' = head /\ remote \in Past(head) /\ head \in Commits
      BY <2>1, <2>4 DEF PushSend
    <3>2. Past(remote) \subseteq Past(head)
      BY <2>1, <3>1, Typing
    <3> QED BY <2>2, <3>1, <3>2 DEF Past
  <2>5. ASSUME NEW f \in Files, NEW text \in Nat, DeveloperPush(f, text) PROVE Grows
    <3> DEFINE new == [past |-> Past(remote) \cup {NextCommit},
                       tree |-> [Tree(remote) EXCEPT ![f] = text]]
    <3>1. new \in Commit /\ new.past = Past(remote) \cup {NextCommit}
      BY <2>1, Typing DEF Commit, NextCommit
    <3>2. log' = Append(log, new) /\ remote' = NextCommit
      BY <2>5 DEF DeveloperPush
    <3> HIDE DEF new
    <3>3. log'[NextCommit] = new
      BY <3>1, <3>2, Typing, AppendKeeps
    <3> QED BY <3>1, <3>2, <3>3
  <2>6. texts \in Nat
    BY DEF HistoryInv, TypeOK
  <2>7. \A text \in {0, texts + 1} \cap 0..MaxTexts : text \in Nat
    BY <2>6
  <2> QED BY <2>3, <2>4, <2>5, <2>7
         DEF Next, vars, WriteTemplate, DeleteTemplate, Clone, GetRemoteStatus, PullRemote,
             PushFetch, OperatorCommit, OperatorMerge
<1>2. HistoryInv /\ [Next]_vars => Grows
  BY <1>1
<1>3. Spec => [][Grows]_vars
  BY <1>2, HistoryInvariant, PTL DEF Spec
<1> QED BY <1>3 DEF RemoteKeepsHistory

\* No commit of the clone is ever lost: pull moves HEAD forward only, whatever
\* was fetched before it.
THEOREM LocalHistory == Spec => LocalKeepsHistory
<1> DEFINE Grows == head # 0 => head' # 0 /\ Past(head) \subseteq log'[head'].past
<1>1. ASSUME HistoryInv, [Next]_vars PROVE Grows
  <2> USE <1>1
  <2>1. remote \in Commits /\ head \in Commits \cup {0} /\ origin \in Commits \cup {0}
        /\ (head # 0 => origin # 0)
    BY DEF HistoryInv, TypeOK
  <2>2. \A c \in Commits : log'[c] = log[c]
    BY LogGrows
  <2>3. CASE head' = head
    BY <2>1, <2>2, <2>3 DEF Past
  <2>4. CASE head = 0
    BY <2>4
  <2>5. ASSUME PullRemote, head' # head PROVE Grows
    <3>1. head \in Commits /\ head' = remote /\ head \in Past(remote)
      BY <2>1, <2>5 DEF PullRemote, Mergeable
    <3>2. Past(head) \subseteq Past(remote) /\ remote # 0
      BY <2>1, <3>1, Typing
    <3> QED BY <2>1, <2>2, <3>1, <3>2 DEF Past
  <2>6. ASSUME OperatorCommit PROVE Grows
    <3> DEFINE new == [past |-> Past(head) \cup {NextCommit}, tree |-> work]
    <3>1. head \in Commits /\ work \in [Files -> Nat]
      BY <2>6 DEF HistoryInv, TypeOK, OperatorCommit
    <3>2. new \in Commit /\ new.past = Past(head) \cup {NextCommit}
      BY <3>1, Typing DEF Commit, NextCommit
    <3>3. log' = Append(log, new) /\ head' = NextCommit
      BY <2>6 DEF OperatorCommit
    <3> HIDE DEF new
    <3>4. log'[NextCommit] = new /\ NextCommit # 0
      BY <3>2, <3>3, Typing, AppendKeeps DEF NextCommit
    <3> QED BY <3>2, <3>3, <3>4
  <2>7. ASSUME NEW ours \in SUBSET Files, OperatorMerge(ours) PROVE Grows
    <3> DEFINE new == [past |-> Past(head) \cup Past(origin) \cup {NextCommit}, tree |-> work']
    <3>1. head \in Commits /\ origin \in Commits
      BY <2>1, <2>7 DEF OperatorMerge
    <3>2. work' \in [Files -> Nat]
      BY <2>7, <3>1, Typing DEF OperatorMerge
    <3>3. new \in Commit /\ new.past = Past(head) \cup Past(origin) \cup {NextCommit}
      BY <3>1, <3>2, Typing DEF Commit, NextCommit
    <3>4. log' = Append(log, new) /\ head' = NextCommit
      BY <2>7 DEF OperatorMerge
    <3> HIDE DEF new
    <3>5. log'[NextCommit] = new /\ NextCommit # 0
      BY <3>3, <3>4, Typing, AppendKeeps DEF NextCommit
    <3> QED BY <3>3, <3>4, <3>5
  <2> QED BY <2>3, <2>4, <2>5, <2>6, <2>7
         DEF Next, vars, WriteTemplate, DeleteTemplate, Clone, GetRemoteStatus,
             PushFetch, PushSend, DeveloperPush
<1>2. HistoryInv /\ [Next]_vars => Grows
  BY <1>1
<1>3. Spec => [][Grows]_vars
  BY <1>2, HistoryInvariant, PTL DEF Spec
<1> QED BY <1>3 DEF LocalKeepsHistory

\* Clone, pull and push lose no commit of anybody.
THEOREM Histories == Spec => HistoriesAreKept
  BY RemoteHistory, LocalHistory DEF HistoriesAreKept

\* A pull, a clone or a push never replaces an edit made in the UI that no
\* commit of the clone holds.
THEOREM EditsSurvive == Spec => PullKeepsEdits
<1> DEFINE Kept == \A f \in Files :
                      Uncommitted(f) /\ work'[f] # work[f] => outer'[f] = work'[f]
<1>1. ASSUME HistoryInv, [Next]_vars PROVE Kept
  <2> USE <1>1
  <2> SUFFICES ASSUME NEW g \in Files, Uncommitted(g), work'[g] # work[g]
               PROVE  outer'[g] = work'[g]
    OBVIOUS
  <2>1. work \in [Files -> Nat] /\ outer \in [Files -> Nat \cup {Never}]
    BY DEF HistoryInv, TypeOK
  <2>2. ASSUME NEW f \in Files, NEW text, CommitOuter(f, text) PROVE outer'[g] = work'[g]
    BY <2>1, <2>2 DEF CommitOuter
  <2>3. ASSUME Clone PROVE FALSE
    BY <2>3 DEF Clone, Uncommitted, NoFiles
  <2>4. ASSUME PullRemote PROVE FALSE
    BY <2>1, <2>4 DEF PullRemote, Mergeable, Touched, Uncommitted
  <2>5. ASSUME NEW ours \in SUBSET Files, OperatorMerge(ours) PROVE FALSE
    BY <2>5 DEF OperatorMerge, Uncommitted
  <2> QED BY <2>2, <2>3, <2>4, <2>5
         DEF Next, vars, WriteTemplate, DeleteTemplate, GetRemoteStatus, PushFetch, PushSend,
             DeveloperPush, OperatorCommit
<1>2. HistoryInv /\ [Next]_vars => Kept
  BY <1>1
<1>3. Spec => [][Kept]_vars
  BY <1>2, HistoryInvariant, PTL DEF Spec
<1> QED BY <1>3 DEF PullKeepsEdits

LEMMA UntouchedStep ==
    HistoryInv /\ UntouchedFilesFollowHead /\ [Next]_vars => UntouchedFilesFollowHead'
<1> SUFFICES ASSUME HistoryInv, UntouchedFilesFollowHead, [Next]_vars,
                    NEW g \in Files, head' # 0, outer'[g] = Never
             PROVE  work'[g] = log'[head'].tree[g]
  BY DEF UntouchedFilesFollowHead, Tree
<1> USE FilesAssumption
<1>1. /\ remote \in Commits /\ head \in Commits \cup {0} /\ origin \in Commits \cup {0}
      /\ (head # 0 => origin # 0) /\ texts \in Nat
      /\ work \in [Files -> Nat] /\ outer \in [Files -> Nat \cup {Never}]
  BY DEF HistoryInv, TypeOK
<1>2. \A c \in Commits : log'[c] = log[c]
  BY LogGrows
<1>3. head # 0 /\ outer[g] = Never => work[g] = Tree(head)[g] /\ head \in Commits
  BY <1>1 DEF UntouchedFilesFollowHead
<1>4. CASE head' = head /\ UNCHANGED <<work, outer>>
  BY <1>2, <1>3, <1>4 DEF Tree
<1>5. ASSUME NEW f \in Files, NEW text \in Nat, CommitOuter(f, text), head' = head
      PROVE  work'[g] = log'[head'].tree[g]
  <2>1. f # g /\ outer[g] = Never /\ work'[g] = work[g]
    BY <1>1, <1>5 DEF CommitOuter
  <2> QED BY <1>2, <1>3, <1>5, <2>1 DEF Tree
<1>6. ASSUME Clone, head' # head PROVE work'[g] = log'[head'].tree[g]
  <2>1. work' = Tree(remote) /\ head' = remote
    BY <1>6 DEF Clone
  <2> QED BY <1>1, <1>2, <2>1 DEF Tree
<1>7. ASSUME PullRemote, head' # head PROVE work'[g] = log'[head'].tree[g]
  <2>1. /\ head' = remote /\ head # 0 /\ outer[g] = Never
        /\ work'[g] = IF g \in Touched(remote) THEN Tree(remote)[g] ELSE work[g]
    BY <1>7 DEF PullRemote
  <2>2. work'[g] = Tree(remote)[g]
    BY <1>3, <2>1 DEF Touched
  <2> QED BY <1>1, <1>2, <2>1, <2>2 DEF Tree
<1>8. ASSUME OperatorCommit PROVE work'[g] = log'[head'].tree[g]
  <2> DEFINE new == [past |-> Past(head) \cup {NextCommit}, tree |-> work]
  <2>1. head \in Commits
    BY <1>1, <1>8 DEF OperatorCommit
  <2>2. new \in Commit /\ new.tree = work
    <3>1. Past(head) \subseteq Commits /\ Commits \subseteq Nat /\ NextCommit \in Nat
      BY <2>1, Typing DEF NextCommit
    <3>2. Past(head) \cup {NextCommit} \in SUBSET Nat
      BY <3>1
    <3> QED BY <1>1, <3>2 DEF Commit
  <2>3. log' = Append(log, new) /\ head' = NextCommit /\ work' = work
    BY <1>8 DEF OperatorCommit
  <2> HIDE DEF new
  <2>4. log'[NextCommit] = new
    BY <2>2, <2>3, Typing, AppendKeeps
  <2> QED BY <2>2, <2>3, <2>4 DEF Tree
<1>9. ASSUME NEW ours \in SUBSET Files, OperatorMerge(ours) PROVE work'[g] = log'[head'].tree[g]
  <2> DEFINE new == [past |-> Past(head) \cup Past(origin) \cup {NextCommit}, tree |-> work']
  <2>1. head \in Commits /\ origin \in Commits
    BY <1>1, <1>9 DEF OperatorMerge
  <2>2. work' \in [Files -> Nat]
    BY <1>9, <2>1, Typing DEF OperatorMerge
  <2>3. new \in Commit /\ new.tree = work'
    BY <2>1, <2>2, Typing DEF Commit, NextCommit
  <2>4. log' = Append(log, new) /\ head' = NextCommit
    BY <1>9 DEF OperatorMerge
  <2> HIDE DEF new
  <2>5. log'[NextCommit] = new
    BY <2>3, <2>4, Typing, AppendKeeps
  <2> QED BY <2>3, <2>4, <2>5 DEF Tree
<1>10. ASSUME NEW f \in Files, WriteTemplate(f) \/ DeleteTemplate(f)
       PROVE  work'[g] = log'[head'].tree[g]
  <2>1. texts + 1 \in Nat /\ 0 \in Nat
    BY <1>1
  <2> QED BY <1>5, <1>10, <2>1 DEF WriteTemplate, DeleteTemplate
<1>11. CASE Clone
  BY <1>4, <1>6, <1>11 DEF Clone
<1>12. CASE PullRemote
  <2>1. CASE head' = head
    <3>1. UNCHANGED work \/ (remote = head /\ head \notin Past(head) /\ head # 0)
      BY <1>12, <2>1 DEF PullRemote
    <3>2. UNCHANGED work
      BY <1>1, <3>1, Typing
    <3> QED BY <1>4, <1>12, <2>1, <3>2 DEF PullRemote
  <2> QED BY <1>7, <1>12, <2>1
<1> QED BY <1>4, <1>8, <1>9, <1>10, <1>11, <1>12
       DEF Next, vars, GetRemoteStatus, PushFetch, PushSend, DeveloperPush

\* What was pulled is what is rendered: a file nobody edited in the UI has the
\* text of the clone's HEAD after any sequence of clones, pulls and merges.
THEOREM UntouchedFiles == Spec => []UntouchedFilesFollowHead
<1>1. Init => UntouchedFilesFollowHead
  BY DEF Init, UntouchedFilesFollowHead
<1> QED BY <1>1, UntouchedStep, HistoryInvariant, PTL DEF Spec
-----------------------------------------------------------------------------
(***************************************************************************)
(* project.yaml (module ProjectYaml), the other thing the repository keeps *)
(* of the database.  The file follows the rows because an edit that no     *)
(* other request overlapped commits what it holds in memory and reads back *)
(* what it committed (HoldsOwn, ReadsRows), and because from a file that   *)
(* says the rows a sync has nothing to import but what it sets the history *)
(* variable for (FillsGaps).                                               *)
(***************************************************************************)
Yaml == INSTANCE ProjectYaml

\* A written row is not the marker of no write.
LEMMA YamlRows ==
    ASSUME Yaml!YamlConstants
    PROVE  /\ None \notin Yaml!Rows /\ None \notin Names /\ None \notin Yaml!Metas
           /\ Yaml!Absent \in Yaml!Rows /\ Yaml!Absent.state = "absent"
           /\ \A s \in {"absent", "active", "deleted"}, x \in Texts \cup {None} :
                 [state |-> s, text |-> x] \in Yaml!Rows
           /\ Yaml!NoWrites \in [Names -> Yaml!Rows \cup {None}]
           /\ Yaml!EmptyFile \in Yaml!Files
           /\ Yaml!EmptyFile.params \in [Names -> Texts \cup {None}]
<1>1. None \notin Yaml!Rows /\ None \notin Names /\ None \notin Yaml!Metas
  BY DEF Yaml!YamlConstants, Yaml!Rows, Yaml!Metas
<1>2. Yaml!Absent \in Yaml!Rows /\ Yaml!Absent.state = "absent"
  BY DEF Yaml!Rows, Yaml!Absent
<1>3. \A s \in {"absent", "active", "deleted"}, x \in Texts \cup {None} :
         [state |-> s, text |-> x] \in Yaml!Rows
  BY DEF Yaml!Rows
<1>4. Yaml!NoWrites \in [Names -> Yaml!Rows \cup {None}]
  BY DEF Yaml!NoWrites
<1>5. Yaml!EmptyFile \in Yaml!Files /\ Yaml!EmptyFile.params \in [Names -> Texts \cup {None}]
  BY DEF Yaml!EmptyFile, Yaml!Files, Yaml!Metas
<1> QED BY <1>1, <1>2, <1>3, <1>4, <1>5

LEMMA YamlIdle ==
    ASSUME Yaml!YamlConstants
    PROVE  /\ Yaml!Idle \in Yaml!RequestType
           /\ Yaml!Idle.op = "none" /\ Yaml!Idle.pc = "idle" /\ Yaml!Idle.todo = {}
           /\ Yaml!Idle.pendMeta = None /\ Yaml!Idle.pend = Yaml!NoWrites
           /\ Yaml!Idle.alone = FALSE
  BY YamlRows DEF Yaml!Idle, Yaml!Request, Yaml!RequestType

LEMMA YamlInit == Yaml!YamlConstants /\ Yaml!Init => Yaml!YamlInv
<1> SUFFICES ASSUME Yaml!YamlConstants, Yaml!Init PROVE Yaml!YamlInv
  OBVIOUS
<1>1. Yaml!TypeOK
  BY YamlRows, YamlIdle DEF Yaml!Init, Yaml!TypeOK
<1>2. \A r \in Requests : req[r] = Yaml!Idle
  BY DEF Yaml!Init
<1>3. ASSUME NEW r \in Requests
      PROVE  Yaml!Placed(r) /\ Yaml!Alone(r) /\ Yaml!FillsGaps(r) /\ Yaml!HoldsOwn(r) /\ Yaml!ReadsRows(r)
  BY <1>2, YamlIdle DEF Yaml!Placed, Yaml!Alone, Yaml!FillsGaps, Yaml!HoldsOwn, Yaml!ReadsRows,
     Yaml!Back
<1>4. Yaml!Locked
  BY <1>2, YamlIdle DEF Yaml!Locked, Yaml!NoWrites
<1>5. Yaml!FileFollowsRows
  BY DEF Yaml!FileFollowsRows, Yaml!Init
<1> QED BY <1>1, <1>3, <1>4, <1>5 DEF Yaml!YamlInv

\* A step of one request that touches no row and no file: what the invariant
\* says of the others, it says of them still.
LEMMA YamlSet ==
    ASSUME Yaml!YamlConstants, Yaml!YamlInv,
           NEW r \in Requests, NEW new \in Yaml!RequestType, Yaml!InFlight(r), Yaml!Set(r, new),
           new.alone => req[r].alone,
           req[r].pc \in Yaml!Back => new.pc \in Yaml!Back,
           \A n \in Names : \/ new.pend[n] = None \/ req[r].pend[n] # None
                            \/ Yaml!RowFree(r, n),
           Yaml!Placed(r)', Yaml!FillsGaps(r)', Yaml!HoldsOwn(r)', Yaml!ReadsRows(r)'
    PROVE  Yaml!YamlInv'
<1>1. /\ req' = [req EXCEPT ![r] = new]
      /\ meta' = meta /\ param' = param /\ file' = file /\ drifted' = drifted
  BY DEF Yaml!Set
<1>2. req \in [Requests -> Yaml!RequestType]
  BY DEF Yaml!YamlInv, Yaml!TypeOK
<1>3. req'[r] = new /\ \A o \in Requests \ {r} : req'[o] = req[o]
  BY <1>1, <1>2
<1>4. Yaml!TypeOK'
  BY <1>1, <1>2 DEF Yaml!YamlInv, Yaml!TypeOK
<1>5. ASSUME NEW o \in Requests, o # r
      PROVE  (Yaml!Placed(o) /\ Yaml!FillsGaps(o) /\ Yaml!HoldsOwn(o) /\ Yaml!ReadsRows(o))'
  <2>1. req'[o] = req[o]
    BY <1>3, <1>5
  <2>2. Yaml!Placed(o) /\ Yaml!FillsGaps(o) /\ Yaml!HoldsOwn(o) /\ Yaml!ReadsRows(o)
    BY DEF Yaml!YamlInv
  <2>3. Yaml!Placed(o)'
    BY <2>1, <2>2 DEF Yaml!Placed
  <2>4. Yaml!FillsGaps(o)'
    BY <1>1, <2>1, <2>2 DEF Yaml!FillsGaps
  <2>5. Yaml!HoldsOwn(o)'
    BY <1>1, <2>1, <2>2 DEF Yaml!HoldsOwn, Yaml!MetaSeen, Yaml!RowSeen
  <2>6. Yaml!ReadsRows(o)'
    BY <1>1, <2>1, <2>2 DEF Yaml!ReadsRows, Yaml!ActiveTexts
  <2> QED BY <2>3, <2>4, <2>5, <2>6
<1>6. ASSUME NEW o \in Requests PROVE Yaml!Alone(o)'
  <2>1. Yaml!Alone(o) /\ Yaml!Alone(r)
    BY DEF Yaml!YamlInv
  <2> QED BY <1>3, <2>1 DEF Yaml!Alone, Yaml!InFlight
<1>7. Yaml!Locked'
  <2> SUFFICES ASSUME NEW p \in Requests, NEW o \in Requests, NEW n \in Names, p # o
               PROVE  req'[p].pend[n] = None \/ req'[o].pend[n] = None
    BY DEF Yaml!Locked
  <2>1. \A q \in Requests \ {r} : req[q].pend[n] = None \/ new.pend[n] = None
    BY DEF Yaml!RowFree, Yaml!YamlInv, Yaml!Locked
  <2> QED BY <1>3, <2>1 DEF Yaml!YamlInv, Yaml!Locked
<1>8. Yaml!FileFollowsRows'
  <2>1. ASSUME \A o \in Requests : ~Yaml!WritingBack(o)' PROVE \A o \in Requests : ~Yaml!WritingBack(o)
    BY <1>3, <2>1 DEF Yaml!WritingBack, Yaml!Back
  <2>2. Yaml!FileSaysRows => Yaml!FileSaysRows'
    BY <1>1 DEF Yaml!FileSaysRows
  <2> QED BY <1>1, <2>1, <2>2 DEF Yaml!YamlInv, Yaml!FileFollowsRows
<1> QED BY <1>4, <1>5, <1>6, <1>7, <1>8 DEF Yaml!YamlInv

LEMMA YamlAbort ==
    ASSUME Yaml!YamlConstants, Yaml!YamlInv, NEW r \in Requests,
           Yaml!InFlight(r), ~Yaml!WritingBack(r), Yaml!Abort(r)
    PROVE  Yaml!YamlInv'
<1>1. Yaml!Set(r, Yaml!Idle)
  BY DEF Yaml!Abort
<1>2. req'[r] = Yaml!Idle
  BY <1>1 DEF Yaml!YamlInv, Yaml!TypeOK, Yaml!Set
<1>3. Yaml!Placed(r)' /\ Yaml!FillsGaps(r)' /\ Yaml!HoldsOwn(r)' /\ Yaml!ReadsRows(r)'
  BY <1>2, YamlIdle DEF Yaml!Placed, Yaml!FillsGaps, Yaml!HoldsOwn, Yaml!ReadsRows, Yaml!Back
<1>4. \A n \in Names : Yaml!Idle.pend[n] = None
  BY YamlIdle DEF Yaml!NoWrites
<1>5. req[r].pc \notin Yaml!Back
  BY DEF Yaml!WritingBack, Yaml!Back
<1> QED BY <1>1, <1>3, <1>4, <1>5, YamlIdle, YamlSet

\* A request begins: whoever was alone no longer is.
LEMMA YamlBegin ==
    ASSUME Yaml!YamlConstants, Yaml!YamlInv, NEW r \in Requests,
           NEW op \in Yaml!Edits \cup {"promote", "sync"},
           NEW n \in Names \cup {None}, NEW x \in Yaml!Metas \cup {None},
           NEW own \in Yaml!Metas \cup {None},
           op \in {"create", "promote", "update", "delete"} => n \in Names /\ own \in Texts \cup {None},
           op \in {"create", "promote", "update"} => x \in Texts,
           op = "project" => n = None /\ x # None /\ own # None,
           op = "sync" => own = meta,
           Yaml!Begin(r, Yaml!Request(op, "loaded", n, x, own))
    PROVE  Yaml!YamlInv'
<1> DEFINE new == Yaml!Request(op, "loaded", n, x, own)
           solo == \A o \in Requests \ {r} : ~Yaml!InFlight(o)
<1>1. /\ new \in Yaml!RequestType /\ new.op = op /\ new.pc = "loaded" /\ new.name = n
      /\ new.text = x /\ new.own = own /\ new.todo = {} /\ new.pendMeta = None
      /\ new.pend = Yaml!NoWrites /\ new.gap = FALSE
  BY YamlRows DEF Yaml!Request, Yaml!RequestType
<1>2. /\ ~Yaml!InFlight(r)
      /\ req' = [q \in Requests |-> IF q = r THEN [new EXCEPT !.alone = solo]
                                    ELSE [req[q] EXCEPT !.alone = FALSE]]
      /\ meta' = meta /\ param' = param /\ file' = file /\ drifted' = drifted
  BY DEF Yaml!Begin
<1> solo \in BOOLEAN
  OBVIOUS
<1> HIDE DEF new
<1>3. req \in [Requests -> Yaml!RequestType]
  BY DEF Yaml!YamlInv, Yaml!TypeOK
<1>4. [new EXCEPT !.alone = solo] \in Yaml!RequestType
  <2> HIDE DEF solo
  <2> QED BY <1>1 DEF Yaml!RequestType
<1>5. \A q \in Requests : [req[q] EXCEPT !.alone = FALSE] \in Yaml!RequestType
  <2> TAKE q \in Requests
  <2> req[q] \in Yaml!RequestType
    BY <1>3
  <2> QED BY DEF Yaml!RequestType
<1>6. Yaml!TypeOK'
  BY <1>2, <1>4, <1>5 DEF Yaml!YamlInv, Yaml!TypeOK
<1>7. /\ req'[r].op = op /\ req'[r].pc = "loaded" /\ req'[r].name = n /\ req'[r].text = x
      /\ req'[r].own = own /\ req'[r].todo = {} /\ req'[r].pendMeta = None
      /\ req'[r].pend = Yaml!NoWrites /\ (req'[r].alone => solo)
  <2>1. req'[r] = [new EXCEPT !.alone = solo]
    BY <1>2
  <2> HIDE DEF solo
  <2> QED BY <2>1, <1>1 DEF Yaml!RequestType
<1>8. ASSUME NEW o \in Requests, o # r
      PROVE  /\ req'[o].op = req[o].op /\ req'[o].pc = req[o].pc /\ req'[o].name = req[o].name
             /\ req'[o].text = req[o].text /\ req'[o].own = req[o].own
             /\ req'[o].todo = req[o].todo /\ req'[o].pendMeta = req[o].pendMeta
             /\ req'[o].pend = req[o].pend /\ req'[o].gap = req[o].gap
             /\ req'[o].read = req[o].read /\ ~req'[o].alone
  <2>1. req'[o] = [req[o] EXCEPT !.alone = FALSE] /\ req[o] \in Yaml!RequestType
    BY <1>2, <1>3, <1>8
  <2> QED BY <2>1 DEF Yaml!RequestType
<1>9. \A m \in Names : req'[r].pend[m] = None
  BY <1>7 DEF Yaml!NoWrites
<1>10. (Yaml!Placed(r) /\ Yaml!FillsGaps(r) /\ Yaml!HoldsOwn(r) /\ Yaml!ReadsRows(r))'
  <2>1. Yaml!Placed(r)'
    BY <1>7 DEF Yaml!Placed, Yaml!NoWrites, Yaml!Back
  <2>2. Yaml!FillsGaps(r)'
    BY <1>2, <1>7, <1>9 DEF Yaml!FillsGaps
  <2>3. Yaml!HoldsOwn(r)' /\ Yaml!ReadsRows(r)'
    BY <1>7 DEF Yaml!HoldsOwn, Yaml!ReadsRows, Yaml!Back
  <2> QED BY <2>1, <2>2, <2>3
<1>11. Yaml!Alone(r)'
  BY <1>7, <1>8 DEF Yaml!Alone, Yaml!InFlight
<1>12. ASSUME NEW o \in Requests, o # r
       PROVE  (Yaml!Placed(o) /\ Yaml!Alone(o) /\ Yaml!FillsGaps(o) /\ Yaml!HoldsOwn(o) /\ Yaml!ReadsRows(o))'
  <2> USE <1>8, <1>12
  <2>1. Yaml!Placed(o) /\ Yaml!FillsGaps(o) /\ Yaml!ReadsRows(o)
    BY DEF Yaml!YamlInv
  <2>2. Yaml!Placed(o)'
    BY <2>1 DEF Yaml!Placed, Yaml!NoWrites
  <2>3. Yaml!Alone(o)' /\ Yaml!HoldsOwn(o)'
    BY DEF Yaml!Alone, Yaml!HoldsOwn
  <2>4. Yaml!FillsGaps(o)'
    <3>1. req'[o].op = req[o].op /\ req'[o].pend = req[o].pend /\ param' = param
      BY <1>2
    <3>2. req[o].op = "sync" => \A m \in Names : req[o].pend[m] # None => param[m].state = "absent"
      BY <2>1 DEF Yaml!FillsGaps
    <3>3. req'[o].op = "sync" => \A m \in Names : req'[o].pend[m] # None => param'[m].state = "absent"
      BY ONLY <3>1, <3>2
    <3> QED BY <3>3 DEF Yaml!FillsGaps
  <2>5. Yaml!ReadsRows(o)'
    BY <1>2, <2>1 DEF Yaml!ReadsRows, Yaml!ActiveTexts
  <2> QED BY <2>2, <2>3, <2>4, <2>5
<1>13. Yaml!Locked'
  <2> SUFFICES ASSUME NEW p \in Requests, NEW o \in Requests, NEW m \in Names, p # o
               PROVE  req'[p].pend[m] = None \/ req'[o].pend[m] = None
    BY DEF Yaml!Locked
  <2>1. CASE p = r \/ o = r
    BY <1>9, <2>1
  <2>2. CASE p # r /\ o # r
    <3>1. req'[p].pend = req[p].pend /\ req'[o].pend = req[o].pend
      BY <1>8, <2>2
    <3> QED BY <3>1 DEF Yaml!YamlInv, Yaml!Locked
  <2> QED BY <2>1, <2>2
<1>14. Yaml!FileFollowsRows'
  <2>1. ASSUME \A o \in Requests : ~Yaml!WritingBack(o)' PROVE \A o \in Requests : ~Yaml!WritingBack(o)
    BY <1>2, <1>8, <2>1 DEF Yaml!WritingBack, Yaml!InFlight
  <2>2. Yaml!FileSaysRows => Yaml!FileSaysRows'
    BY <1>2 DEF Yaml!FileSaysRows
  <2> QED BY <1>2, <2>1, <2>2 DEF Yaml!YamlInv, Yaml!FileFollowsRows
<1> QED BY <1>6, <1>10, <1>11, <1>12, <1>13, <1>14 DEF Yaml!YamlInv

\* What the invariant says of one request in flight, and of the rows.
LEMMA YamlOne ==
    ASSUME Yaml!YamlConstants, Yaml!YamlInv, NEW r \in Requests
    PROVE  /\ meta \in Yaml!Metas /\ param \in [Names -> Yaml!Rows] /\ file \in Yaml!Files
           /\ req \in [Requests -> Yaml!RequestType] /\ req[r] \in Yaml!RequestType
           /\ Yaml!Placed(r) /\ Yaml!Alone(r) /\ Yaml!FillsGaps(r)
           /\ Yaml!HoldsOwn(r) /\ Yaml!ReadsRows(r)
  BY DEF Yaml!YamlInv, Yaml!TypeOK

LEMMA YamlFlushProject ==
    ASSUME Yaml!YamlConstants, Yaml!YamlInv, NEW r \in Requests, Yaml!FlushProject(r)
    PROVE  Yaml!YamlInv'
<1> DEFINE changed == [req[r] EXCEPT !.pc = "flushed", !.own = req[r].text, !.pendMeta = req[r].text]
           same == [req[r] EXCEPT !.pc = "flushed", !.own = meta]
<1>1. /\ req[r].op = "project" /\ req[r].pc = "loaded" /\ req[r].pendMeta = None
      /\ req[r].pend = Yaml!NoWrites /\ req[r].name = None /\ req[r].text # None
  BY YamlOne DEF Yaml!FlushProject, Yaml!Placed
<1>2. Yaml!InFlight(r) /\ req[r].pc \notin Yaml!Back
  BY <1>1 DEF Yaml!InFlight, Yaml!Back
<1>3. req[r] \in Yaml!RequestType /\ req \in [Requests -> Yaml!RequestType] /\ meta \in Yaml!Metas
  BY YamlOne
<1>4. Yaml!Placed(r)
  BY YamlOne
<1>5. CASE Yaml!Set(r, changed)
  <2>1. /\ changed \in Yaml!RequestType /\ changed.op = "project" /\ changed.pc = "flushed"
        /\ changed.own = req[r].text /\ changed.pendMeta = req[r].text
        /\ changed.name = None /\ changed.text = req[r].text /\ changed.todo = req[r].todo
        /\ changed.pend = req[r].pend /\ changed.read = req[r].read
        /\ changed.alone = req[r].alone
    BY <1>1, <1>3 DEF Yaml!RequestType
  <2> HIDE DEF changed
  <2>2. req'[r] = changed
    BY <1>3, <1>5 DEF Yaml!Set
  <2>3. Yaml!Placed(r)'
    BY <1>1, <1>3, <1>4, <2>1, <2>2, YamlRows DEF Yaml!Placed, Yaml!Edits, Yaml!Back
  <2>4. (Yaml!FillsGaps(r) /\ Yaml!HoldsOwn(r) /\ Yaml!ReadsRows(r))'
    BY <1>1, <2>1, <2>2 DEF Yaml!FillsGaps, Yaml!HoldsOwn, Yaml!ReadsRows, Yaml!Back, Yaml!MetaSeen
  <2>5. \A n \in Names : changed.pend[n] = None
    BY <1>1, <2>1 DEF Yaml!NoWrites
  <2> QED BY <1>2, <1>5, <2>1, <2>3, <2>4, <2>5, YamlSet
<1>6. CASE Yaml!Set(r, same)
  <2>1. /\ same \in Yaml!RequestType /\ same.op = "project" /\ same.pc = "flushed"
        /\ same.own = meta /\ same.pendMeta = None
        /\ same.name = None /\ same.text = req[r].text /\ same.todo = req[r].todo
        /\ same.pend = req[r].pend /\ same.read = req[r].read /\ same.alone = req[r].alone
    BY <1>1, <1>3 DEF Yaml!RequestType
  <2> HIDE DEF same
  <2>2. req'[r] = same /\ meta' = meta
    BY <1>3, <1>6 DEF Yaml!Set
  <2>3. Yaml!Placed(r)'
    BY <1>1, <1>3, <1>4, <2>1, <2>2, YamlRows DEF Yaml!Placed, Yaml!Edits, Yaml!Back
  <2>4. (Yaml!FillsGaps(r) /\ Yaml!HoldsOwn(r) /\ Yaml!ReadsRows(r))'
    BY <1>1, <2>1, <2>2 DEF Yaml!FillsGaps, Yaml!HoldsOwn, Yaml!ReadsRows, Yaml!Back, Yaml!MetaSeen
  <2>5. \A n \in Names : same.pend[n] = None
    BY <1>1, <2>1 DEF Yaml!NoWrites
  <2> QED BY <1>2, <1>6, <2>1, <2>3, <2>4, <2>5, YamlSet
<1> QED BY <1>5, <1>6 DEF Yaml!FlushProject

\* An edit writes its parameter row: the row is free, and what is written is in memory.
LEMMA YamlWritesRow ==
    ASSUME Yaml!YamlConstants, Yaml!YamlInv, NEW r \in Requests,
           req[r].op \in {"create", "promote", "update", "delete"}, req[r].pc = "loaded",
           NEW row \in Yaml!Rows, NEW own \in Texts \cup {None},
           row.state = "active" => own = row.text,
           Yaml!RowFree(r, req[r].name),
           Yaml!Set(r, [req[r] EXCEPT !.pc = "flushed", !.own = own, !.pend[req[r].name] = row])
    PROVE  Yaml!YamlInv'
<1> DEFINE new == [req[r] EXCEPT !.pc = "flushed", !.own = own, !.pend[req[r].name] = row]
<1>1. /\ req[r].name \in Names /\ req[r].pendMeta = None /\ req[r].pend = Yaml!NoWrites
  BY YamlOne DEF Yaml!Placed
<1>2. Yaml!InFlight(r) /\ req[r].pc \notin Yaml!Back
  BY DEF Yaml!InFlight, Yaml!Back
<1>3. req[r] \in Yaml!RequestType /\ req \in [Requests -> Yaml!RequestType]
  BY YamlOne
<1>4. Yaml!Placed(r)
  BY YamlOne
<1>5. /\ new \in Yaml!RequestType /\ new.op = req[r].op /\ new.pc = "flushed"
      /\ new.own = own /\ new.pendMeta = None /\ new.name = req[r].name
      /\ new.text = req[r].text /\ new.todo = req[r].todo
      /\ new.pend = [req[r].pend EXCEPT ![req[r].name] = row] /\ new.read = req[r].read
      /\ new.alone = req[r].alone
  BY <1>1, <1>3 DEF Yaml!RequestType, Yaml!Metas
<1> HIDE DEF new
<1>6. req'[r] = new
  BY <1>3, <1>5 DEF Yaml!Set, new
<1>7. new.pend[req[r].name] = row /\ row # None
  BY <1>1, <1>5, YamlRows DEF Yaml!NoWrites
<1>8. \A n \in Names : new.pend[n] = None \/ Yaml!RowFree(r, n)
  BY <1>1, <1>5 DEF Yaml!NoWrites
<1>9. Yaml!Placed(r)'
  BY <1>1, <1>4, <1>5, <1>6 DEF Yaml!Placed, Yaml!Edits, Yaml!Back
<1>10. Yaml!FillsGaps(r)' /\ Yaml!ReadsRows(r)'
  BY <1>5, <1>6 DEF Yaml!FillsGaps, Yaml!ReadsRows, Yaml!Back
<1>11. Yaml!HoldsOwn(r)'
  BY <1>5, <1>6, <1>7 DEF Yaml!HoldsOwn, Yaml!RowSeen
<1>12. Yaml!Set(r, new)
  BY DEF new
<1> QED BY <1>2, <1>5, <1>8, <1>9, <1>10, <1>11, <1>12, YamlSet

LEMMA YamlInsertParam ==
    ASSUME Yaml!YamlConstants, Yaml!YamlInv, NEW r \in Requests, Yaml!InsertParam(r)
    PROVE  Yaml!YamlInv'
<1> DEFINE row == [state |-> "active", text |-> req[r].text]
<1>1. req[r].op \in {"create", "promote"} /\ req[r].pc = "loaded" /\ req[r].text \in Texts
  BY YamlOne DEF Yaml!InsertParam, Yaml!Placed
<1>2. row \in Yaml!Rows /\ row.text = req[r].text /\ req[r].text \in Texts \cup {None}
  BY <1>1, YamlRows
<1>3. CASE Yaml!Abort(r)
  BY <1>1, <1>3, YamlAbort DEF Yaml!InFlight, Yaml!WritingBack
<1>4. CASE Yaml!Set(r, [req[r] EXCEPT !.pc = "flushed", !.own = req[r].text, !.pend[req[r].name] = row])
  <2>1. Yaml!RowFree(r, req[r].name)
    BY DEF Yaml!InsertParam
  <2> HIDE DEF row
  <2> QED BY <1>1, <1>2, <1>4, <2>1, YamlWritesRow
<1> QED BY <1>3, <1>4 DEF Yaml!InsertParam

LEMMA YamlFlushUpdate ==
    ASSUME Yaml!YamlConstants, Yaml!YamlInv, NEW r \in Requests, Yaml!FlushUpdate(r)
    PROVE  Yaml!YamlInv'
<1> DEFINE row == [param[req[r].name] EXCEPT !.text = req[r].text]
           same == [req[r] EXCEPT !.pc = "flushed", !.own = param[req[r].name].text]
<1>1. /\ req[r].op = "update" /\ req[r].pc = "loaded" /\ req[r].text \in Texts
      /\ req[r].name \in Names /\ req[r].pendMeta = None /\ req[r].pend = Yaml!NoWrites
  BY YamlOne DEF Yaml!FlushUpdate, Yaml!Placed
<1>2. param[req[r].name] \in Yaml!Rows
  BY <1>1, YamlOne
<1>3. CASE /\ Yaml!RowFree(r, req[r].name)
           /\ Yaml!Set(r, [req[r] EXCEPT !.pc = "flushed", !.own = req[r].text, !.pend[req[r].name] = row])
  <2>1. row \in Yaml!Rows /\ row.text = req[r].text /\ req[r].text \in Texts \cup {None}
    BY <1>1, <1>2 DEF Yaml!Rows
  <2> HIDE DEF row
  <2> QED BY <1>1, <1>3, <2>1, YamlWritesRow
<1>4. CASE Yaml!Set(r, same)
  <2>1. req[r] \in Yaml!RequestType /\ req \in [Requests -> Yaml!RequestType] /\ Yaml!Placed(r)
    BY YamlOne
  <2>2. param[req[r].name].text \in Texts \cup {None}
    BY <1>2 DEF Yaml!Rows
  <2>3. /\ same \in Yaml!RequestType /\ same.op = "update" /\ same.pc = "flushed"
        /\ same.own = param[req[r].name].text /\ same.pendMeta = None
        /\ same.name = req[r].name /\ same.text = req[r].text /\ same.todo = req[r].todo
        /\ same.pend = req[r].pend /\ same.read = req[r].read /\ same.alone = req[r].alone
    BY <1>1, <2>1, <2>2 DEF Yaml!RequestType, Yaml!Metas
  <2> HIDE DEF same
  <2>4. req'[r] = same /\ param' = param
    BY <1>4, <2>1 DEF Yaml!Set
  <2>5. \A n \in Names : same.pend[n] = None
    BY <1>1, <2>3 DEF Yaml!NoWrites
  <2>6. Yaml!Placed(r)'
    BY <1>1, <2>1, <2>2, <2>3, <2>4 DEF Yaml!Placed, Yaml!Edits, Yaml!Back
  <2>7. (Yaml!FillsGaps(r) /\ Yaml!HoldsOwn(r) /\ Yaml!ReadsRows(r))'
    BY <1>1, <2>3, <2>4, <2>5 DEF Yaml!FillsGaps, Yaml!HoldsOwn, Yaml!ReadsRows, Yaml!Back, Yaml!RowSeen
  <2>8. Yaml!InFlight(r) /\ req[r].pc \notin Yaml!Back
    BY <1>1 DEF Yaml!InFlight, Yaml!Back
  <2> QED BY <1>4, <2>3, <2>5, <2>6, <2>7, <2>8, YamlSet
<1> QED BY <1>3, <1>4 DEF Yaml!FlushUpdate

LEMMA YamlFlushDelete ==
    ASSUME Yaml!YamlConstants, Yaml!YamlInv, NEW r \in Requests, Yaml!FlushDelete(r)
    PROVE  Yaml!YamlInv'
<1> DEFINE row == [param[req[r].name] EXCEPT !.state = "deleted"]
           own == req[r].own
<1>1. req[r].op = "delete" /\ req[r].pc = "loaded" /\ req[r].name \in Names
  BY YamlOne DEF Yaml!FlushDelete, Yaml!Placed
<1>2. param[req[r].name] \in Yaml!Rows /\ req[r] \in Yaml!RequestType
  BY <1>1, YamlOne
<1>3. row \in Yaml!Rows /\ row.state = "deleted"
  BY <1>2 DEF Yaml!Rows
<1>3a. own \in Texts \cup {None}
  BY <1>1, YamlOne DEF Yaml!Placed
<1>4. Yaml!RowFree(r, req[r].name) /\ Yaml!Set(r, [req[r] EXCEPT !.pc = "flushed", !.pend[req[r].name] = row])
  BY DEF Yaml!FlushDelete
<1> HIDE DEF row
<1>5. [req[r] EXCEPT !.pc = "flushed", !.pend[req[r].name] = row]
        = [req[r] EXCEPT !.pc = "flushed", !.own = own, !.pend[req[r].name] = row]
  BY <1>2 DEF Yaml!RequestType
<1> HIDE DEF own
<1> QED BY <1>1, <1>3, <1>3a, <1>4, <1>5, YamlWritesRow

\* A sync that runs alone over a file that says the rows.
LEMMA YamlAloneSays ==
    ASSUME Yaml!YamlInv, NEW r \in Requests, req[r].alone, ~drifted,
           req[r].pc \notin Yaml!Back
    PROVE  Yaml!FileSaysRows
<1>1. Yaml!Alone(r)
  BY DEF Yaml!YamlInv
<1>2. \A o \in Requests : ~Yaml!WritingBack(o)
  BY <1>1 DEF Yaml!Alone, Yaml!InFlight, Yaml!WritingBack, Yaml!Back
<1> QED BY <1>2 DEF Yaml!YamlInv, Yaml!FileFollowsRows

LEMMA YamlReadYaml ==
    ASSUME Yaml!YamlConstants, Yaml!YamlInv, NEW r \in Requests, Yaml!ReadYaml(r)
    PROVE  Yaml!YamlInv'
<1> DEFINE fills == file.meta # Unset /\ req[r].own = Unset
           pc == IF fills THEN "filling" ELSE "importing"
           todo == {n \in Names : file.params[n] # None}
           new == [req[r] EXCEPT !.pc = pc, !.read = file, !.todo = todo]
<1>1. /\ req[r].op = "sync" /\ req[r].pc = "loaded" /\ req[r].pendMeta = None
      /\ req[r].pend = Yaml!NoWrites
  BY YamlOne DEF Yaml!ReadYaml, Yaml!Placed
<1>2. Yaml!InFlight(r) /\ req[r].pc \notin Yaml!Back
  BY <1>1 DEF Yaml!InFlight, Yaml!Back
<1>3. /\ req[r] \in Yaml!RequestType /\ req \in [Requests -> Yaml!RequestType]
      /\ file \in Yaml!Files /\ param \in [Names -> Yaml!Rows]
      /\ Yaml!Placed(r) /\ Yaml!FillsGaps(r)
  BY YamlOne
<1>4. pc \in {"filling", "importing"} /\ (pc = "filling" => fills) /\ todo \subseteq Names
  OBVIOUS
<1>5. Yaml!Set(r, new)
  BY DEF Yaml!ReadYaml
<1>6. /\ new \in Yaml!RequestType /\ new.op = "sync" /\ new.pc = pc /\ new.own = req[r].own
      /\ new.pendMeta = None /\ new.todo = todo /\ new.pend = req[r].pend /\ new.read = file
      /\ new.alone = req[r].alone
  <2> HIDE DEF pc, todo
  <2> QED BY <1>1, <1>3, <1>4 DEF Yaml!RequestType
<1> HIDE DEF new
<1>7. /\ req'[r] = new
      /\ meta' = meta /\ param' = param /\ file' = file /\ drifted' = drifted
  BY <1>3, <1>5 DEF Yaml!Set
<1>8. \A n \in Names : new.pend[n] = None
  BY <1>1, <1>6 DEF Yaml!NoWrites
<1>9. Yaml!Placed(r)'
  <2> HIDE DEF pc
  <2> QED BY <1>4, <1>6, <1>7 DEF Yaml!Placed, Yaml!Edits, Yaml!Back
<1>10. Yaml!FillsGaps(r)'
  <2>1. ASSUME req[r].alone, fills PROVE meta = Unset
    BY <1>1, <1>3, <2>1 DEF Yaml!FillsGaps
  <2>2. ASSUME req[r].alone, ~drifted
        PROVE  ~fills /\ \A n \in todo : param[n].state # "absent"
    <3>1. Yaml!FileSaysRows
      BY <1>2, <2>2, YamlAloneSays
    <3> QED BY <2>1, <2>2, <3>1 DEF Yaml!FileSaysRows
  <2> HIDE DEF pc, todo, fills
  <2> QED BY <1>4, <1>6, <1>7, <1>8, <2>1, <2>2 DEF Yaml!FillsGaps
<1>11. Yaml!HoldsOwn(r)' /\ Yaml!ReadsRows(r)'
  <2> HIDE DEF pc
  <2> QED BY <1>4, <1>6, <1>7 DEF Yaml!HoldsOwn, Yaml!ReadsRows, Yaml!Back
<1> QED BY <1>2, <1>5, <1>6, <1>8, <1>9, <1>10, <1>11, YamlSet

\* A later step of a sync: what remains to be shown is that it fills gaps.
LEMMA YamlSyncs ==
    ASSUME Yaml!YamlConstants, Yaml!YamlInv, NEW r \in Requests, Yaml!InFlight(r),
           NEW new \in Yaml!RequestType, Yaml!Set(r, new), req[r].op = "sync",
           req[r].pc \in {"filling", "importing", "inserting"},
           new.op = "sync", new.pc \in {"importing", "inserting"},
           new.pc = "inserting" => new.name \in new.todo, new.read = req[r].read,
           new.todo \subseteq req[r].todo, new.alone = req[r].alone,
           \A n \in Names : \/ new.pend[n] = None \/ req[r].pend[n] # None
                            \/ Yaml!RowFree(r, n) /\ param[n].state = "absent",
           req[r].alone /\ new.pendMeta # None => meta = Unset,
           req[r].alone /\ ~drifted =>
              /\ new.pc = "importing" /\ new.pendMeta = None
              /\ \A n \in Names : new.pend[n] # None => new.gap
    PROVE  Yaml!YamlInv'
<1>1. /\ req[r] \in Yaml!RequestType /\ req \in [Requests -> Yaml!RequestType]
      /\ Yaml!Placed(r) /\ Yaml!FillsGaps(r)
  BY YamlOne
<1>2. /\ req'[r] = new
      /\ meta' = meta /\ param' = param /\ file' = file /\ drifted' = drifted
  BY <1>1 DEF Yaml!Set
<1>3. new.todo \subseteq Names
  BY DEF Yaml!RequestType
<1>4. Yaml!Placed(r)'
  BY <1>1, <1>2, <1>3 DEF Yaml!Placed, Yaml!Edits, Yaml!Back
<1>5. Yaml!FillsGaps(r)'
  <2>1. \A n \in Names : new.pend[n] # None => param[n].state = "absent"
    BY <1>1 DEF Yaml!FillsGaps
  <2>2. req[r].alone /\ ~drifted => \A n \in new.todo : param[n].state # "absent"
    BY <1>1 DEF Yaml!FillsGaps
  <2> QED BY <1>2, <2>1, <2>2 DEF Yaml!FillsGaps
<1>6. Yaml!HoldsOwn(r)' /\ Yaml!ReadsRows(r)'
  BY <1>2 DEF Yaml!HoldsOwn, Yaml!ReadsRows, Yaml!Back
<1>7. req[r].pc \notin Yaml!Back
  BY DEF Yaml!Back
<1>8. \A n \in Names : \/ new.pend[n] = None \/ req[r].pend[n] # None \/ Yaml!RowFree(r, n)
  OBVIOUS
<1> QED BY <1>4, <1>5, <1>6, <1>7, <1>8, YamlSet

LEMMA YamlImportMeta ==
    ASSUME Yaml!YamlConstants, Yaml!YamlInv, NEW r \in Requests, Yaml!ImportMeta(r)
    PROVE  Yaml!YamlInv'
<1> DEFINE new == [req[r] EXCEPT !.pc = "importing", !.pendMeta = req[r].read.meta]
<1>1. req[r].pc = "filling" /\ req[r].op = "sync" /\ Yaml!InFlight(r)
  BY YamlOne DEF Yaml!ImportMeta, Yaml!Placed, Yaml!InFlight
<1>2. req[r] \in Yaml!RequestType /\ Yaml!FillsGaps(r)
  BY YamlOne
<1>3. req[r].read.meta \in Yaml!Metas
  BY <1>2 DEF Yaml!RequestType, Yaml!Files
<1>4. /\ new \in Yaml!RequestType /\ new.op = "sync" /\ new.pc = "importing"
      /\ new.read = req[r].read /\ new.todo = req[r].todo /\ new.alone = req[r].alone
      /\ new.pend = req[r].pend
  BY <1>1, <1>2, <1>3 DEF Yaml!RequestType
<1>5. Yaml!Set(r, new)
  BY DEF Yaml!ImportMeta
<1> HIDE DEF new
<1>6. (req[r].alone => meta = Unset) /\ ~(req[r].alone /\ ~drifted)
  BY <1>1, <1>2 DEF Yaml!FillsGaps
<1> QED BY <1>1, <1>4, <1>5, <1>6, YamlSyncs

LEMMA YamlCheckParam ==
    ASSUME Yaml!YamlConstants, Yaml!YamlInv, NEW r \in Requests, NEW n \in Names,
           Yaml!CheckParam(r, n)
    PROVE  Yaml!YamlInv'
<1> DEFINE known == [req[r] EXCEPT !.todo = @ \ {n}]
           gone == [req[r] EXCEPT !.pc = "inserting", !.name = n]
<1>1. req[r].pc = "importing" /\ req[r].op = "sync" /\ Yaml!InFlight(r) /\ n \in req[r].todo
  BY YamlOne DEF Yaml!CheckParam, Yaml!Placed, Yaml!InFlight
<1>2. req[r] \in Yaml!RequestType /\ Yaml!FillsGaps(r)
  BY YamlOne
<1>3. CASE Yaml!Set(r, known)
  <2>1. /\ known \in Yaml!RequestType /\ known.op = "sync" /\ known.pc = "importing"
        /\ known.read = req[r].read /\ known.todo = req[r].todo \ {n} /\ known.alone = req[r].alone
        /\ known.pend = req[r].pend /\ known.pendMeta = req[r].pendMeta /\ known.gap = req[r].gap
    BY <1>1, <1>2 DEF Yaml!RequestType
  <2> HIDE DEF known
  <2>2. req[r].alone /\ known.pendMeta # None => meta = Unset
    BY <1>1, <1>2, <2>1 DEF Yaml!FillsGaps
  <2>3. req[r].alone /\ ~drifted =>
          known.pendMeta = None /\ \A m \in Names : known.pend[m] # None => known.gap
    BY <1>1, <1>2, <2>1 DEF Yaml!FillsGaps
  <2> QED BY <1>1, <1>3, <2>1, <2>2, <2>3, YamlSyncs
<1>4. CASE param[n].state = "absent" /\ Yaml!Set(r, gone)
  <2>1. /\ gone \in Yaml!RequestType /\ gone.op = "sync" /\ gone.pc = "inserting" /\ gone.name = n
        /\ gone.read = req[r].read /\ gone.todo = req[r].todo /\ gone.alone = req[r].alone
        /\ gone.pend = req[r].pend /\ gone.pendMeta = req[r].pendMeta /\ gone.gap = req[r].gap
    BY <1>1, <1>2 DEF Yaml!RequestType
  <2> HIDE DEF gone
  <2>2. (req[r].alone /\ gone.pendMeta # None => meta = Unset) /\ ~(req[r].alone /\ ~drifted)
    BY <1>1, <1>2, <1>4, <2>1 DEF Yaml!FillsGaps
  <2> QED BY <1>1, <1>4, <2>1, <2>2, YamlSyncs
<1> QED BY <1>3, <1>4 DEF Yaml!CheckParam

LEMMA YamlImportParam ==
    ASSUME Yaml!YamlConstants, Yaml!YamlInv, NEW r \in Requests, Yaml!ImportParam(r)
    PROVE  Yaml!YamlInv'
<1> DEFINE n == req[r].name
           row == [state |-> "active", text |-> req[r].read.params[n]]
           new == [req[r] EXCEPT !.pc = "importing", !.todo = @ \ {n}, !.pend[n] = row]
<1>1. /\ req[r].pc = "inserting" /\ req[r].op = "sync" /\ Yaml!InFlight(r)
      /\ n \in req[r].todo /\ n \in Names /\ Yaml!RowFree(r, n)
  BY YamlOne DEF Yaml!ImportParam, Yaml!Placed, Yaml!InFlight
<1>2. req[r] \in Yaml!RequestType /\ Yaml!FillsGaps(r)
  BY YamlOne
<1>3. CASE Yaml!Abort(r)
  BY <1>1, <1>3, YamlAbort DEF Yaml!WritingBack
<1>4. CASE param[n].state = "absent" /\ Yaml!Set(r, new)
  <2>1. row \in Yaml!Rows
    <3>1. req[r].read.params[n] \in Texts \cup {None}
      BY <1>1, <1>2 DEF Yaml!RequestType, Yaml!Files
    <3> QED BY <3>1 DEF Yaml!Rows
  <2> HIDE DEF row
  <2>2. /\ new \in Yaml!RequestType /\ new.op = "sync" /\ new.pc = "importing"
        /\ new.read = req[r].read /\ new.todo = req[r].todo \ {n} /\ new.alone = req[r].alone
        /\ new.pend = [req[r].pend EXCEPT ![n] = row] /\ new.pendMeta = req[r].pendMeta
    BY <1>1, <1>2, <2>1 DEF Yaml!RequestType
  <2> HIDE DEF new
  <2>3. (req[r].alone /\ new.pendMeta # None => meta = Unset) /\ ~(req[r].alone /\ ~drifted)
    BY <1>1, <1>2, <2>2 DEF Yaml!FillsGaps
  <2>4. \A m \in Names : m # n => new.pend[m] = req[r].pend[m]
    BY <1>2, <2>2 DEF Yaml!RequestType
  <2>5. \A m \in Names : \/ new.pend[m] = None \/ req[r].pend[m] # None
                         \/ Yaml!RowFree(r, m) /\ param[m].state = "absent"
    <3> TAKE m \in Names
    <3> QED BY <1>1, <1>4, <2>4
  <2>6. new.todo \subseteq req[r].todo /\ new.pc # "inserting"
    BY <2>2
  <2> HIDE DEF n
  <2> QED BY <1>1, <1>4, <2>2, <2>3, <2>5, <2>6, YamlSyncs
<1> QED BY <1>3, <1>4 DEF Yaml!ImportParam

LEMMA YamlImportFrontmatter ==
    ASSUME Yaml!YamlConstants, Yaml!YamlInv, NEW r \in Requests, NEW n \in Names, NEW x \in Texts,
           Yaml!ImportFrontmatter(r, n, x)
    PROVE  Yaml!YamlInv'
<1> DEFINE row == [state |-> "active", text |-> x]
           new == [req[r] EXCEPT !.gap = TRUE, !.pend[n] = row]
<1>1. /\ req[r].pc = "importing" /\ req[r].op = "sync" /\ Yaml!InFlight(r)
      /\ Yaml!RowFree(r, n) /\ param[n].state = "absent"
  BY YamlOne DEF Yaml!ImportFrontmatter, Yaml!Placed, Yaml!InFlight
<1>2. req[r] \in Yaml!RequestType /\ Yaml!FillsGaps(r)
  BY YamlOne
<1>3. row \in Yaml!Rows
  BY DEF Yaml!Rows
<1>4. Yaml!Set(r, new)
  BY DEF Yaml!ImportFrontmatter
<1> HIDE DEF row
<1>5. /\ new \in Yaml!RequestType /\ new.op = "sync" /\ new.pc = "importing"
      /\ new.read = req[r].read /\ new.todo = req[r].todo /\ new.alone = req[r].alone
      /\ new.pend = [req[r].pend EXCEPT ![n] = row] /\ new.pendMeta = req[r].pendMeta
      /\ new.gap
  BY <1>1, <1>2, <1>3 DEF Yaml!RequestType
<1> HIDE DEF new
<1>6. /\ req[r].alone /\ new.pendMeta # None => meta = Unset
      /\ req[r].alone /\ ~drifted => new.pendMeta = None
  BY <1>1, <1>2, <1>5 DEF Yaml!FillsGaps
<1>7. \A m \in Names : m # n => new.pend[m] = req[r].pend[m]
  BY <1>2, <1>5 DEF Yaml!RequestType
<1> QED BY <1>1, <1>4, <1>5, <1>6, <1>7, YamlSyncs

LEMMA YamlReadMeta ==
    ASSUME Yaml!YamlConstants, Yaml!YamlInv, NEW r \in Requests, Yaml!ReadMeta(r)
    PROVE  Yaml!YamlInv'
<1> DEFINE shown == IF req[r].op = "project" THEN req[r].own ELSE meta
           new == [req[r] EXCEPT !.pc = "metaRead", !.read.meta = shown]
<1>1. req[r].pc = "committed" /\ Yaml!InFlight(r)
  BY DEF Yaml!ReadMeta, Yaml!InFlight
<1>2. /\ req[r] \in Yaml!RequestType /\ req \in [Requests -> Yaml!RequestType]
      /\ Yaml!Placed(r) /\ Yaml!ReadsRows(r) /\ meta \in Yaml!Metas
  BY YamlOne
<1>3. req[r].op \in Yaml!Edits
  BY <1>1, <1>2 DEF Yaml!Placed, Yaml!Back
<1>4. req[r].alone \/ ~drifted => shown = meta
  BY <1>1, <1>2 DEF Yaml!ReadsRows, Yaml!Back
<1>5. shown \in Yaml!Metas
  BY <1>2 DEF Yaml!Placed, Yaml!RequestType
<1>6. Yaml!Set(r, new)
  BY DEF Yaml!ReadMeta
<1> HIDE DEF shown
<1>7. req[r].read \in Yaml!Files
  BY <1>2 DEF Yaml!RequestType
<1>8. /\ [req[r].read EXCEPT !.meta = shown] \in Yaml!Files
      /\ [req[r].read EXCEPT !.meta = shown].meta = shown
      /\ [req[r].read EXCEPT !.meta = shown].params = req[r].read.params
  BY <1>5, <1>7 DEF Yaml!Files
<1>9. /\ new \in Yaml!RequestType /\ new.op = req[r].op /\ new.pc = "metaRead"
      /\ new.name = req[r].name /\ new.text = req[r].text /\ new.own = req[r].own
      /\ new.todo = req[r].todo /\ new.pendMeta = req[r].pendMeta
      /\ new.pend = req[r].pend /\ new.read.meta = shown
      /\ new.read.params = req[r].read.params /\ new.alone = req[r].alone
  BY <1>2, <1>8 DEF Yaml!RequestType, Yaml!Back
<1> HIDE DEF new
<1>10. /\ req'[r] = new
       /\ meta' = meta /\ param' = param /\ file' = file /\ drifted' = drifted
  BY <1>2, <1>6 DEF Yaml!Set
<1>11. Yaml!Placed(r)'
  BY <1>2, <1>3, <1>9, <1>10 DEF Yaml!Placed, Yaml!Back
<1>12. Yaml!FillsGaps(r)' /\ Yaml!HoldsOwn(r)'
  BY <1>3, <1>9, <1>10 DEF Yaml!FillsGaps, Yaml!HoldsOwn, Yaml!Edits
<1>13. Yaml!ReadsRows(r)'
  BY <1>1, <1>2, <1>4, <1>9, <1>10 DEF Yaml!ReadsRows, Yaml!Back
<1>14. new.pc \in Yaml!Back /\ \A n \in Names : new.pend[n] = None \/ req[r].pend[n] # None
  BY <1>9 DEF Yaml!Back
<1> QED BY <1>1, <1>6, <1>9, <1>11, <1>12, <1>13, <1>14, YamlSet

LEMMA YamlReadParams ==
    ASSUME Yaml!YamlConstants, Yaml!YamlInv, NEW r \in Requests, Yaml!ReadParams(r)
    PROVE  Yaml!YamlInv'
<1> DEFINE shown(n) == IF n = req[r].name THEN req[r].own ELSE param[n].text
           all == [n \in Names |-> IF param[n].state = "active" THEN shown(n) ELSE None]
           new == [req[r] EXCEPT !.pc = "paramsRead", !.read.params = all]
<1>1. req[r].pc = "metaRead" /\ Yaml!InFlight(r)
  BY DEF Yaml!ReadParams, Yaml!InFlight
<1>2. /\ req[r] \in Yaml!RequestType /\ req \in [Requests -> Yaml!RequestType]
      /\ Yaml!Placed(r) /\ Yaml!ReadsRows(r) /\ param \in [Names -> Yaml!Rows]
  BY YamlOne
<1>3. req[r].op \in Yaml!Edits
  BY <1>1, <1>2 DEF Yaml!Placed, Yaml!Back
<1>4. ASSUME NEW n \in Names
      PROVE  /\ shown(n) \in Texts \cup {None}
             /\ (req[r].alone \/ ~drifted) /\ param[n].state = "active" => shown(n) = param[n].text
  <2>1. param[n].text \in Texts \cup {None}
    BY <1>2 DEF Yaml!Rows
  <2>2. CASE n # req[r].name
    BY <2>1, <2>2
  <2>3. CASE n = req[r].name
    <3>1. req[r].op # "project" /\ req[r].op \in {"create", "promote", "update", "delete"}
      BY <1>2, <1>3, <2>3, YamlRows DEF Yaml!Placed, Yaml!Edits
    <3>2. req[r].own \in Texts \cup {None}
      BY <1>2, <3>1 DEF Yaml!Placed
    <3>3. (req[r].alone \/ ~drifted) /\ param[n].state = "active" => req[r].own = param[n].text
      BY <1>1, <1>2, <2>3, <3>1 DEF Yaml!ReadsRows, Yaml!Back
    <3> QED BY <2>3, <3>2, <3>3
  <2> QED BY <2>2, <2>3
<1>5. all \in [Names -> Texts \cup {None}]
  <2> HIDE DEF shown
  <2> QED BY <1>4
<1>6. req[r].alone \/ ~drifted => all = Yaml!ActiveTexts
  <2> HIDE DEF shown
  <2> QED BY <1>4 DEF Yaml!ActiveTexts
<1>7. Yaml!Set(r, new)
  BY DEF Yaml!ReadParams
<1> HIDE DEF all
<1>8. /\ [req[r].read EXCEPT !.params = all] \in Yaml!Files
      /\ [req[r].read EXCEPT !.params = all].params = all
      /\ [req[r].read EXCEPT !.params = all].meta = req[r].read.meta
  <2>1. req[r].read \in Yaml!Files
    BY <1>2 DEF Yaml!RequestType
  <2> QED BY <1>5, <2>1 DEF Yaml!Files
<1>9. /\ new \in Yaml!RequestType /\ new.op = req[r].op /\ new.pc = "paramsRead"
      /\ new.name = req[r].name /\ new.text = req[r].text /\ new.own = req[r].own
      /\ new.todo = req[r].todo /\ new.pendMeta = req[r].pendMeta
      /\ new.pend = req[r].pend /\ new.read.params = all
      /\ new.read.meta = req[r].read.meta /\ new.alone = req[r].alone
  BY <1>2, <1>8 DEF Yaml!RequestType, Yaml!Back
<1> HIDE DEF new
<1>10. /\ req'[r] = new
       /\ meta' = meta /\ param' = param /\ file' = file /\ drifted' = drifted
  BY <1>2, <1>7 DEF Yaml!Set
<1>11. Yaml!Placed(r)'
  BY <1>2, <1>3, <1>9, <1>10 DEF Yaml!Placed, Yaml!Back
<1>12. Yaml!FillsGaps(r)' /\ Yaml!HoldsOwn(r)'
  BY <1>3, <1>9, <1>10 DEF Yaml!FillsGaps, Yaml!HoldsOwn, Yaml!Edits
<1>13. Yaml!ReadsRows(r)'
  BY <1>1, <1>2, <1>6, <1>9, <1>10 DEF Yaml!ReadsRows, Yaml!Back, Yaml!ActiveTexts
<1>14. new.pc \in Yaml!Back /\ \A n \in Names : new.pend[n] = None \/ req[r].pend[n] # None
  BY <1>9 DEF Yaml!Back
<1> QED BY <1>1, <1>7, <1>9, <1>11, <1>12, <1>13, <1>14, YamlSet

LEMMA YamlRollback ==
    ASSUME Yaml!YamlConstants, Yaml!YamlInv, NEW r \in Requests, Yaml!Rollback(r)
    PROVE  Yaml!YamlInv'
  BY YamlAbort DEF Yaml!Rollback, Yaml!WritingBack

\* The commit of one request: it was alone, or the file is known to drift.
LEMMA YamlCommit ==
    ASSUME Yaml!YamlConstants, Yaml!YamlInv, NEW r \in Requests, Yaml!Commit(r)
    PROVE  Yaml!YamlInv'
<1> DEFINE done == [req[r] EXCEPT !.pc = "committed", !.pendMeta = None, !.pend = Yaml!NoWrites]
           new == IF Yaml!WritesBack(r) THEN done ELSE Yaml!Idle
<1>1. /\ meta \in Yaml!Metas /\ param \in [Names -> Yaml!Rows] /\ file \in Yaml!Files
      /\ req \in [Requests -> Yaml!RequestType] /\ req[r] \in Yaml!RequestType
      /\ Yaml!Placed(r) /\ Yaml!Alone(r) /\ Yaml!FillsGaps(r) /\ Yaml!HoldsOwn(r)
  BY YamlOne
<1>2. /\ meta' = Yaml!MetaSeen(r)
      /\ param' = [n \in Names |-> Yaml!RowSeen(r, n)]
      /\ drifted' = (drifted \/ ~req[r].alone \/ req[r].op = "promote" \/ req[r].gap)
      /\ file' = file
  BY DEF Yaml!Commit, Yaml!MetaSeen, Yaml!RowSeen
<1>3. req' = [req EXCEPT ![r] = new]
  BY DEF Yaml!Commit
<1>4. /\ req[r].pc \in {"flushed", "importing"} /\ Yaml!InFlight(r)
      /\ req[r].pc = "flushed" <=> req[r].op \in Yaml!Edits \cup {"promote"}
      /\ req[r].pc = "importing" <=> req[r].op = "sync"
  BY <1>1 DEF Yaml!Commit, Yaml!ReadyToCommit, Yaml!InFlight, Yaml!Placed, Yaml!Edits
<1>5. Yaml!WritesBack(r) <=> req[r].op \in Yaml!Edits
  BY <1>4 DEF Yaml!WritesBack, Yaml!Edits
<1>6. /\ done \in Yaml!RequestType /\ done.op = req[r].op /\ done.pc = "committed"
      /\ done.name = req[r].name /\ done.text = req[r].text /\ done.own = req[r].own
      /\ done.pendMeta = None /\ done.pend = Yaml!NoWrites /\ done.alone = req[r].alone
  BY <1>1, YamlRows DEF Yaml!RequestType, Yaml!Back
<1> HIDE DEF done
<1>7. new \in Yaml!RequestType /\ new.pend = Yaml!NoWrites /\ (new.alone => req[r].alone)
  BY <1>6, YamlIdle
<1> HIDE DEF new
<1>8. req'[r] = new /\ \A o \in Requests \ {r} : req'[o] = req[o]
  BY <1>1, <1>3
<1>9. Yaml!MetaSeen(r) \in Yaml!Metas /\ \A n \in Names : Yaml!RowSeen(r, n) \in Yaml!Rows
  BY <1>1 DEF Yaml!MetaSeen, Yaml!RowSeen, Yaml!RequestType
<1>10. Yaml!TypeOK'
  <2>1. drifted' \in BOOLEAN
    BY <1>2
  <2> QED BY <1>1, <1>2, <1>3, <1>7, <1>9, <2>1 DEF Yaml!TypeOK
<1>11. Yaml!Locked'
  <2> SUFFICES ASSUME NEW p \in Requests, NEW o \in Requests, NEW n \in Names, p # o
               PROVE  req'[p].pend[n] = None \/ req'[o].pend[n] = None
    BY DEF Yaml!Locked
  <2> QED BY <1>7, <1>8 DEF Yaml!YamlInv, Yaml!Locked, Yaml!NoWrites
<1>12. ASSUME NEW o \in Requests PROVE Yaml!Alone(o)'
  <2>1. Yaml!Alone(o)
    BY DEF Yaml!YamlInv
  <2> QED BY <1>1, <1>4, <1>7, <1>8, <2>1 DEF Yaml!Alone, Yaml!InFlight
<1>13. ASSUME NEW o \in Requests, o # r
       PROVE  (Yaml!Placed(o) /\ Yaml!FillsGaps(o) /\ Yaml!HoldsOwn(o) /\ Yaml!ReadsRows(o))'
  <2>1. /\ req'[o] = req[o] /\ Yaml!Placed(o) /\ Yaml!Alone(o) /\ Yaml!FillsGaps(o)
    BY <1>8, <1>13 DEF Yaml!YamlInv
  <2>2. ~req[o].alone
    BY <1>4, <1>13, <2>1 DEF Yaml!Alone
  <2>3. Yaml!Placed(o)'
    BY <2>1 DEF Yaml!Placed
  <2>4. Yaml!FillsGaps(o)'
    <3>1. ASSUME req[o].op = "sync", NEW n \in Names, req[o].pend[n] # None
          PROVE  param'[n].state = "absent"
      <4>1. req[r].pend[n] = None
        BY <1>13, <3>1 DEF Yaml!YamlInv, Yaml!Locked
      <4>2. param'[n] = param[n]
        BY <1>2, <4>1 DEF Yaml!RowSeen
      <4> QED BY <2>1, <3>1, <4>2 DEF Yaml!FillsGaps
    <3> QED BY <2>1, <2>2, <3>1 DEF Yaml!FillsGaps
  <2>5. Yaml!HoldsOwn(o)'
    BY <2>1, <2>2 DEF Yaml!HoldsOwn
  <2>6. Yaml!ReadsRows(o)'
    <3>1. CASE req[o].pc \in Yaml!Back
      <4>1. ~req[r].alone
        BY <1>1, <1>13, <3>1 DEF Yaml!Alone, Yaml!InFlight, Yaml!Back
      <4>2. drifted'
        BY <1>2, <4>1
      <4> QED BY <2>1, <2>2, <4>2 DEF Yaml!ReadsRows
    <3>2. CASE req[o].pc \notin Yaml!Back
      BY <2>1, <3>2 DEF Yaml!ReadsRows
    <3> QED BY <3>1, <3>2
  <2> QED BY <2>3, <2>4, <2>5, <2>6
<1>14. (Yaml!Placed(r) /\ Yaml!FillsGaps(r) /\ Yaml!HoldsOwn(r) /\ Yaml!ReadsRows(r))'
  <2>1. CASE ~Yaml!WritesBack(r)
    <3>1. req'[r] = Yaml!Idle
      BY <1>8, <2>1 DEF new
    <3> QED BY <3>1, YamlIdle DEF Yaml!Placed, Yaml!FillsGaps, Yaml!HoldsOwn, Yaml!ReadsRows, Yaml!Back
  <2>2. CASE Yaml!WritesBack(r)
    <3>1. req'[r] = done /\ req[r].op \in Yaml!Edits
      BY <1>5, <1>8, <2>2 DEF new
    <3>2. Yaml!Placed(r)'
      BY <1>1, <1>6, <3>1 DEF Yaml!Placed, Yaml!Back, Yaml!Edits
    <3>3. Yaml!FillsGaps(r)' /\ Yaml!HoldsOwn(r)'
      BY <1>6, <3>1 DEF Yaml!FillsGaps, Yaml!HoldsOwn, Yaml!Edits
    <3>4. Yaml!ReadsRows(r)'
      <4> SUFFICES ASSUME req[r].alone \/ ~drifted'
                   PROVE  IF req[r].op = "project" THEN req[r].own = meta'
                          ELSE param'[req[r].name].state = "active" => req[r].own = param'[req[r].name].text
        BY <1>6, <3>1 DEF Yaml!ReadsRows
      <4>1. req[r].alone /\ req[r].pc = "flushed"
        BY <1>2, <1>4, <3>1
      <4>2. CASE req[r].op = "project"
        BY <1>1, <1>2, <4>1, <4>2 DEF Yaml!HoldsOwn
      <4>3. CASE req[r].op # "project"
        <5>1. req[r].name \in Names
          BY <1>1, <3>1, <4>3 DEF Yaml!Placed, Yaml!Edits
        <5> QED BY <1>1, <1>2, <4>1, <4>3, <5>1 DEF Yaml!HoldsOwn
      <4> QED BY <4>2, <4>3
    <3> QED BY <3>2, <3>3, <3>4
  <2> QED BY <2>1, <2>2
<1>15. Yaml!FileFollowsRows'
  <2> SUFFICES ASSUME ~drifted', \A o \in Requests : ~Yaml!WritingBack(o)'
               PROVE  Yaml!FileSaysRows'
    BY DEF Yaml!FileFollowsRows
  <2>1. ~Yaml!WritesBack(r)
    BY <1>6, <1>8 DEF new, Yaml!WritingBack
  <2>2. req[r].op = "sync" /\ req[r].alone /\ ~drifted /\ ~req[r].gap
    BY <1>2, <1>4, <1>5, <2>1
  <2>3. req[r].pendMeta = None /\ \A n \in Names : req[r].pend[n] = None
    BY <1>1, <2>2 DEF Yaml!FillsGaps
  <2>4. meta' = meta /\ \A n \in Names : param'[n] = param[n]
    BY <1>2, <2>3 DEF Yaml!MetaSeen, Yaml!RowSeen
  <2>5. Yaml!FileSaysRows
    BY <1>4, <2>2, YamlAloneSays DEF Yaml!Back
  <2> QED BY <1>2, <2>4, <2>5 DEF Yaml!FileSaysRows
<1> QED BY <1>10, <1>11, <1>12, <1>13, <1>14, <1>15 DEF Yaml!YamlInv

\* A request ends and no row changes: the others find the rows as they were.
LEMMA YamlEnds ==
    ASSUME Yaml!YamlConstants, Yaml!YamlInv, NEW r \in Requests, Yaml!InFlight(r),
           req' = [req EXCEPT ![r] = Yaml!Idle], UNCHANGED <<meta, param>>,
           file' \in Yaml!Files, drifted' \in BOOLEAN,
           ~drifted' => ~drifted \/ req[r].alone,
           Yaml!FileFollowsRows'
    PROVE  Yaml!YamlInv'
<1>1. /\ meta \in Yaml!Metas /\ param \in [Names -> Yaml!Rows]
      /\ req \in [Requests -> Yaml!RequestType] /\ Yaml!Alone(r)
  BY YamlOne
<1>2. req'[r] = Yaml!Idle /\ \A o \in Requests \ {r} : req'[o] = req[o]
  BY <1>1
<1>3. Yaml!TypeOK'
  BY <1>1, YamlIdle DEF Yaml!TypeOK
<1>4. Yaml!Locked'
  <2> SUFFICES ASSUME NEW p \in Requests, NEW o \in Requests, NEW n \in Names, p # o
               PROVE  req'[p].pend[n] = None \/ req'[o].pend[n] = None
    BY DEF Yaml!Locked
  <2>1. Yaml!Idle.pend[n] = None
    BY YamlIdle DEF Yaml!NoWrites
  <2> QED BY <1>2, <2>1 DEF Yaml!YamlInv, Yaml!Locked
<1>5. ASSUME NEW o \in Requests PROVE Yaml!Alone(o)'
  <2>1. Yaml!Alone(o)
    BY DEF Yaml!YamlInv
  <2> QED BY <1>1, <1>2, <2>1, YamlIdle DEF Yaml!Alone, Yaml!InFlight
<1>6. (Yaml!Placed(r) /\ Yaml!FillsGaps(r) /\ Yaml!HoldsOwn(r) /\ Yaml!ReadsRows(r))'
  BY <1>2, YamlIdle DEF Yaml!Placed, Yaml!FillsGaps, Yaml!HoldsOwn, Yaml!ReadsRows, Yaml!Back
<1>7. ASSUME NEW o \in Requests, o # r
      PROVE  (Yaml!Placed(o) /\ Yaml!FillsGaps(o) /\ Yaml!HoldsOwn(o) /\ Yaml!ReadsRows(o))'
  <2>1. /\ req'[o] = req[o] /\ Yaml!Placed(o) /\ Yaml!FillsGaps(o) /\ Yaml!HoldsOwn(o)
        /\ Yaml!ReadsRows(o) /\ Yaml!Alone(o)
    BY <1>2, <1>7 DEF Yaml!YamlInv
  <2>2. req[o].pc = "idle" \/ (~drifted' => ~drifted)
    BY <1>1, <1>7 DEF Yaml!Alone, Yaml!InFlight
  <2>3. Yaml!Placed(o)'
    BY <2>1 DEF Yaml!Placed
  <2>4. Yaml!FillsGaps(o)'
    BY <2>1, <2>2 DEF Yaml!FillsGaps, Yaml!Placed
  <2>5. Yaml!HoldsOwn(o)'
    BY <2>1 DEF Yaml!HoldsOwn, Yaml!MetaSeen, Yaml!RowSeen
  <2>6. Yaml!ReadsRows(o)'
    BY <2>1, <2>2 DEF Yaml!ReadsRows, Yaml!ActiveTexts, Yaml!Back
  <2> QED BY <2>3, <2>4, <2>5, <2>6
<1> QED BY <1>3, <1>4, <1>5, <1>6, <1>7 DEF Yaml!YamlInv

LEMMA YamlWriteFile ==
    ASSUME Yaml!YamlConstants, Yaml!YamlInv, NEW r \in Requests, Yaml!WriteFile(r)
    PROVE  Yaml!YamlInv'
<1>1. /\ req[r].pc = "paramsRead" /\ Yaml!InFlight(r) /\ file' = req[r].read
      /\ drifted' = (drifted /\ ~req[r].alone) /\ req' = [req EXCEPT ![r] = Yaml!Idle]
      /\ meta' = meta /\ param' = param
  BY DEF Yaml!WriteFile, Yaml!InFlight
<1>2. req[r] \in Yaml!RequestType /\ Yaml!ReadsRows(r)
  BY YamlOne
<1>3. file' \in Yaml!Files
  BY <1>1, <1>2 DEF Yaml!RequestType
<1>4. drifted' \in BOOLEAN /\ (~drifted' => ~drifted \/ req[r].alone)
  BY <1>1
<1>5. Yaml!FileFollowsRows'
  <2> SUFFICES ASSUME ~drifted' PROVE Yaml!FileSaysRows'
    BY DEF Yaml!FileFollowsRows
  <2>1. file'.meta = meta /\ file'.params = Yaml!ActiveTexts
    BY <1>1, <1>2, <1>4 DEF Yaml!ReadsRows, Yaml!Back
  <2> QED BY <1>1, <2>1 DEF Yaml!FileSaysRows, Yaml!ActiveTexts
<1> QED BY <1>1, <1>3, <1>4, <1>5, YamlEnds

LEMMA YamlWriteFails ==
    ASSUME Yaml!YamlConstants, Yaml!YamlInv, NEW r \in Requests, Yaml!WriteFails(r)
    PROVE  Yaml!YamlInv'
<1>1. /\ Yaml!InFlight(r) /\ drifted' = TRUE /\ req' = [req EXCEPT ![r] = Yaml!Idle]
      /\ meta' = meta /\ param' = param
  BY DEF Yaml!WriteFails, Yaml!InFlight
<1>2. req[r] \in Yaml!RequestType /\ file \in Yaml!Files
  BY YamlOne
<1>3. file' \in Yaml!Files
  BY <1>2 DEF Yaml!WriteFails, Yaml!RequestType
<1>4. Yaml!FileFollowsRows'
  BY <1>1 DEF Yaml!FileFollowsRows
<1> QED BY <1>1, <1>3, <1>4, YamlEnds

LEMMA YamlPull ==
    ASSUME Yaml!YamlConstants, Yaml!YamlInv, NEW f \in Yaml!Files, Yaml!Pull(f)
    PROVE  Yaml!YamlInv'
<1>1. /\ file' = f /\ drifted' = TRUE /\ meta' = meta /\ param' = param /\ req' = req
  BY DEF Yaml!Pull
<1>2. Yaml!TypeOK' /\ Yaml!Locked' /\ Yaml!FileFollowsRows'
  BY <1>1 DEF Yaml!YamlInv, Yaml!TypeOK, Yaml!Locked, Yaml!FileFollowsRows
<1>3. ASSUME NEW r \in Requests
      PROVE  (Yaml!Placed(r) /\ Yaml!Alone(r) /\ Yaml!FillsGaps(r) /\ Yaml!HoldsOwn(r) /\ Yaml!ReadsRows(r))'
  <2>1. Yaml!Placed(r) /\ Yaml!Alone(r) /\ Yaml!FillsGaps(r) /\ Yaml!HoldsOwn(r) /\ Yaml!ReadsRows(r)
    BY DEF Yaml!YamlInv
  <2>2. Yaml!Placed(r)' /\ Yaml!Alone(r)'
    BY <1>1, <2>1 DEF Yaml!Placed, Yaml!Alone, Yaml!InFlight
  <2>3. Yaml!FillsGaps(r)'
    BY <1>1, <2>1 DEF Yaml!FillsGaps
  <2>4. Yaml!HoldsOwn(r)'
    BY <1>1, <2>1 DEF Yaml!HoldsOwn, Yaml!MetaSeen, Yaml!RowSeen
  <2>5. Yaml!ReadsRows(r)'
    BY <1>1, <2>1 DEF Yaml!ReadsRows, Yaml!ActiveTexts
  <2> QED BY <2>2, <2>3, <2>4, <2>5
<1> QED BY <1>2, <1>3 DEF Yaml!YamlInv

LEMMA YamlRestart ==
    ASSUME Yaml!YamlConstants, Yaml!YamlInv, Yaml!Restart
    PROVE  Yaml!YamlInv'
<1>1. /\ req' = [r \in Requests |-> Yaml!Idle] /\ meta' = meta /\ param' = param /\ file' = file
      /\ drifted' = (drifted \/ \E r \in Requests : Yaml!WritingBack(r))
  BY DEF Yaml!Restart
<1>2. \A r \in Requests : req'[r] = Yaml!Idle
  BY <1>1
<1>3. drifted' \in BOOLEAN
  BY <1>1
<1>4. Yaml!TypeOK'
  BY <1>1, <1>3, YamlIdle DEF Yaml!YamlInv, Yaml!TypeOK
<1>5. Yaml!Locked'
  BY <1>2, YamlIdle DEF Yaml!Locked, Yaml!NoWrites
<1>6. ASSUME NEW r \in Requests
      PROVE  (Yaml!Placed(r) /\ Yaml!Alone(r) /\ Yaml!FillsGaps(r) /\ Yaml!HoldsOwn(r) /\ Yaml!ReadsRows(r))'
  BY <1>2, YamlIdle DEF Yaml!Placed, Yaml!Alone, Yaml!FillsGaps, Yaml!HoldsOwn, Yaml!ReadsRows, Yaml!Back
<1>7. Yaml!FileFollowsRows'
  <2> SUFFICES ASSUME ~drifted' PROVE Yaml!FileSaysRows'
    BY DEF Yaml!FileFollowsRows
  <2>1. Yaml!FileSaysRows
    BY <1>1 DEF Yaml!YamlInv, Yaml!FileFollowsRows
  <2> QED BY <1>1, <2>1 DEF Yaml!FileSaysRows
<1> QED BY <1>4, <1>5, <1>6, <1>7 DEF Yaml!YamlInv

LEMMA YamlStarts ==
    ASSUME Yaml!YamlConstants, Yaml!YamlInv, NEW r \in Requests
    PROVE  /\ \A m \in Yaml!Metas : Yaml!UpdateProject(r, m) => Yaml!YamlInv'
           /\ \A n \in Names, x \in Texts :
                 Yaml!CreateParam(r, n, x) \/ Yaml!PromoteParam(r, n, x) \/ Yaml!UpdateParam(r, n, x)
                    => Yaml!YamlInv'
           /\ \A n \in Names : Yaml!DeleteParam(r, n) => Yaml!YamlInv'
           /\ Yaml!StartSync(r) => Yaml!YamlInv'
<1>1. meta \in Yaml!Metas /\ meta # None /\ param \in [Names -> Yaml!Rows]
  BY YamlOne, YamlRows
<1>2. ASSUME NEW m \in Yaml!Metas, Yaml!UpdateProject(r, m) PROVE Yaml!YamlInv'
  <2>1. Yaml!Begin(r, Yaml!Request("project", "loaded", None, m, meta)) /\ m # None
    BY <1>2, YamlRows DEF Yaml!UpdateProject
  <2>2. "project" \in Yaml!Edits \cup {"promote", "sync"}
    BY DEF Yaml!Edits
  <2> QED BY <1>1, <2>1, <2>2, YamlBegin
<1>3. ASSUME NEW n \in Names, NEW x \in Texts, NEW op \in {"create", "promote"},
             Yaml!Begin(r, Yaml!Request(op, "loaded", n, x, None))
      PROVE  Yaml!YamlInv'
  <2>1. op \in Yaml!Edits \cup {"promote", "sync"} /\ x \in Yaml!Metas \cup {None}
    BY DEF Yaml!Edits, Yaml!Metas
  <2> QED BY <1>3, <2>1, YamlBegin
<1>4. ASSUME NEW n \in Names, NEW x \in Texts, Yaml!UpdateParam(r, n, x) PROVE Yaml!YamlInv'
  <2> DEFINE own == param[n].text
  <2>1. own \in Texts \cup {None}
    BY <1>1 DEF Yaml!Rows
  <2>2. Yaml!Begin(r, Yaml!Request("update", "loaded", n, x, own))
    BY <1>4 DEF Yaml!UpdateParam
  <2>3. /\ "update" \in Yaml!Edits \cup {"promote", "sync"} /\ x \in Yaml!Metas \cup {None}
        /\ own \in Yaml!Metas \cup {None}
    BY <2>1 DEF Yaml!Edits, Yaml!Metas
  <2> HIDE DEF own
  <2> QED BY <2>1, <2>2, <2>3, YamlBegin
<1>5. ASSUME NEW n \in Names, Yaml!DeleteParam(r, n) PROVE Yaml!YamlInv'
  <2>1. Yaml!Begin(r, Yaml!Request("delete", "loaded", n, None, None))
    BY <1>5 DEF Yaml!DeleteParam
  <2>2. "delete" \in Yaml!Edits \cup {"promote", "sync"}
    BY DEF Yaml!Edits
  <2> QED BY <2>1, <2>2, YamlBegin
<1>6. ASSUME Yaml!StartSync(r) PROVE Yaml!YamlInv'
  <2>1. Yaml!Begin(r, Yaml!Request("sync", "loaded", None, None, meta))
    BY <1>6 DEF Yaml!StartSync
  <2> QED BY <1>1, <2>1, YamlBegin
<1>7. \A n \in Names, x \in Texts :
         Yaml!CreateParam(r, n, x) \/ Yaml!PromoteParam(r, n, x) => Yaml!YamlInv'
  BY <1>3 DEF Yaml!CreateParam, Yaml!PromoteParam
<1> QED BY <1>2, <1>4, <1>5, <1>6, <1>7

LEMMA YamlStep ==
    ASSUME Yaml!YamlConstants, Yaml!YamlInv, [Yaml!Next]_Yaml!vars
    PROVE  Yaml!YamlInv'
<1>1. ASSUME NEW r \in Requests, Yaml!Edit(r) PROVE Yaml!YamlInv'
  BY <1>1, YamlStarts, YamlFlushProject, YamlInsertParam, YamlFlushUpdate, YamlFlushDelete
     DEF Yaml!Edit
<1>2. ASSUME NEW r \in Requests, Yaml!Sync(r) PROVE Yaml!YamlInv'
  BY <1>2, YamlStarts, YamlReadYaml, YamlImportMeta, YamlCheckParam, YamlImportParam,
     YamlImportFrontmatter DEF Yaml!Sync
<1>3. ASSUME NEW r \in Requests, Yaml!Finish(r) PROVE Yaml!YamlInv'
  BY <1>3, YamlCommit, YamlRollback, YamlReadMeta, YamlReadParams, YamlWriteFile, YamlWriteFails
     DEF Yaml!Finish
<1>4. ASSUME UNCHANGED Yaml!vars PROVE Yaml!YamlInv'
  BY <1>4 DEF Yaml!vars, Yaml!YamlInv, Yaml!TypeOK, Yaml!Placed, Yaml!Alone, Yaml!FillsGaps,
     Yaml!HoldsOwn, Yaml!ReadsRows, Yaml!Locked, Yaml!FileFollowsRows, Yaml!FileSaysRows,
     Yaml!InFlight, Yaml!WritingBack, Yaml!MetaSeen, Yaml!RowSeen, Yaml!ActiveTexts
<1> QED BY <1>1, <1>2, <1>3, <1>4, YamlPull, YamlRestart DEF Yaml!Next

LEMMA YamlHypothesis == Yaml!YamlConstants
  BY YamlAssumption DEF YamlConstants, Yaml!YamlConstants

LEMMA YamlInvariant == Yaml!Spec => []Yaml!YamlInv
<1>1. Yaml!Init => Yaml!YamlInv
  BY YamlHypothesis, YamlInit
<1>2. Yaml!YamlInv /\ [Yaml!Next]_Yaml!vars => Yaml!YamlInv'
  BY YamlHypothesis, YamlStep
<1> QED BY <1>1, <1>2, PTL DEF Yaml!Spec

\* project.yaml says what the rows say once an edit that nobody crossed has
\* written it, and goes on saying so, for any number of requests, parameters
\* and texts: the write-back repairs whatever drifted before it.
THEOREM FileFollows == Yaml!Spec => []FileFollowsRows
<1>1. Yaml!YamlInv => FileFollowsRows
  BY DEF Yaml!YamlInv, Yaml!FileFollowsRows, FileFollowsRows, Yaml!FileSaysRows, FileSaysRows,
     Yaml!WritingBack, WritingBack
<1> QED BY <1>1, YamlInvariant, PTL

\* A sync fills gaps: it changes no parameter row that exists, and alone it
\* keeps metadata that is set.
THEOREM SyncFillsGaps == Yaml!Spec => ImportsFillGaps
<1> DEFINE Kept == \A r \in Requests :
                      req[r].op = "sync" /\ req'[r] # req[r] =>
                         /\ \A n \in Names : param[n].state # "absent" => param'[n] = param[n]
                         /\ req[r].alone /\ meta # Unset => meta' = meta
<1>1. ASSUME Yaml!YamlInv, [Yaml!Next]_Yaml!vars PROVE Kept
  <2> USE <1>1
  <2> SUFFICES ASSUME NEW r \in Requests, req[r].op = "sync", req'[r] # req[r],
                      ~UNCHANGED <<meta, param>>
               PROVE  /\ \A n \in Names : param[n].state # "absent" => param'[n] = param[n]
                      /\ req[r].alone /\ meta # Unset => meta' = meta
    OBVIOUS
  <2>1. PICK o \in Requests : Yaml!Commit(o)
    BY DEF Yaml!Next, Yaml!vars, Yaml!Edit, Yaml!Sync, Yaml!Finish, Yaml!Pull, Yaml!Restart,
       Yaml!UpdateProject, Yaml!FlushProject, Yaml!CreateParam, Yaml!PromoteParam, Yaml!InsertParam,
       Yaml!UpdateParam, Yaml!FlushUpdate, Yaml!DeleteParam, Yaml!FlushDelete, Yaml!StartSync,
       Yaml!ReadYaml, Yaml!ImportMeta, Yaml!CheckParam, Yaml!ImportParam, Yaml!ImportFrontmatter,
       Yaml!Rollback, Yaml!ReadMeta, Yaml!ReadParams, Yaml!WriteFile, Yaml!WriteFails,
       Yaml!Begin, Yaml!Set, Yaml!Abort
  <2>2. req \in [Requests -> Yaml!RequestType] /\ Yaml!FillsGaps(r)
    BY YamlHypothesis, YamlOne
  <2>3. o = r
    BY <2>1, <2>2 DEF Yaml!Commit
  <2>4. \A n \in Names : param[n].state # "absent" => param'[n] = param[n]
    BY <2>1, <2>2, <2>3 DEF Yaml!Commit, Yaml!FillsGaps
  <2>5. req[r].alone /\ meta # Unset => meta' = meta
    BY <2>1, <2>2, <2>3 DEF Yaml!Commit, Yaml!FillsGaps
  <2> QED BY <2>4, <2>5
<1>2. Yaml!YamlInv /\ [Yaml!Next]_Yaml!vars => Kept
  BY <1>1
<1>3. Kept => [Kept]_<<meta, param, req>>
  OBVIOUS
<1> HIDE DEF Kept
<1>4. Yaml!Spec => [][Kept]_<<meta, param, req>>
  BY <1>2, <1>3, YamlInvariant, PTL DEF Yaml!Spec
<1> QED BY <1>4 DEF ImportsFillGaps, Kept
=============================================================================
