---------------------------- MODULE ReleaseLabel ----------------------------
(***************************************************************************)
(* src/scripts/release_label.py: tag the current commit with the next     *)
(* release label and write it to build/release.                           *)
(*                                                                         *)
(* get_current_release_number runs                                         *)
(*   git describe --tags --always --match release/*                       *)
(* which prints the release tag nearest to HEAD (with a "-k-gHASH" suffix *)
(* when HEAD is k commits past it), or HEAD's abbreviated hash when no    *)
(* release tag is reachable.  The first word whose number (the digits     *)
(* after "release/") is truthy gives the last release; none gives 1; any  *)
(* exception makes the whole result 1.  main tags HEAD "release/<n>" and *)
(* writes the label to build/release.                                     *)
(*                                                                         *)
(* The repository is a tree of commits that grows by commits on HEAD and  *)
(* checkouts of older commits.  When several release tags point to the    *)
(* nearest tagged commit, which one git describe prints is git's choice   *)
(* (for lightweight tags, the first in refname order): any of them.  The  *)
(* git() helper is not part of this repository: whether it raises when    *)
(* git fails is left open, as are its failures when GitMayFail.           *)
(***************************************************************************)
EXTENDS Naturals, Sequences, SequencesExt, FiniteSets

CONSTANTS
  MaxCommits,   \* bound on the commits of the repository
  MaxRuns,      \* bound on the runs of release_label.py
  GitMayFail,   \* whether git describe may fail or raise
  None,         \* Python's None
  Raised        \* the outcome of a call that raised

ASSUME MaxCommits \in Nat \ {0} /\ MaxRuns \in Nat /\ GitMayFail \in BOOLEAN

VARIABLES
  parent,        \* parent[c]: the parent of commit c, 0 for the root
  head,          \* the checked-out commit
  tags,          \* tags[n]: the commit tagged "release/<n>"
  release_file,  \* build/release: [label, commit it was made at], or None
  runs           \* runs of the script so far

vars == <<parent, head, tags, release_file, runs>>

Commits == DOMAIN parent

\* The commits of HEAD's ancestry that carry release tags.
TagsOn(c) == {n \in DOMAIN tags : tags[n] = c}

\* The nearest commit at or above c that carries a release tag, or 0.
RECURSIVE Nearest(_)
Nearest(c) ==
  IF c = 0 THEN 0
  ELSE IF TagsOn(c) # {} THEN c
  ELSE Nearest(parent[c])

\* A word of git describe's output: a release tag name with or without the
\* "-k-gHASH" suffix (digits: what the pattern captures), or a bare hash.
ReleaseWord(n) == [release |-> TRUE, digits |-> n]
HashWord == [release |-> FALSE, digits |-> 0]

\* What stdout.decode('ascii').split() can be for HEAD c: the one word
\* describe prints; when git fails, nothing or an exception.
DescribeOutputs(c) ==
  LET d == Nearest(c)
  IN  (IF d = 0 THEN {<<HashWord>>}
       ELSE {<<ReleaseWord(n)>> : n \in TagsOn(d)})
      \cup (IF GitMayFail THEN {<< >>, Raised} ELSE {})

\* get_release_number(release_pattern.match(word)): the captured digits as
\* an int, None when the word does not match.
GetReleaseNumber(w) == IF w.release THEN w.digits ELSE None

\* get_last_release_number: the first word whose number is truthy (not
\* None, not 0), else 1.
GetLastReleaseNumber(words) ==
  LET ns == SelectSeq([i \in DOMAIN words |-> GetReleaseNumber(words[i])],
                      LAMBDA x : x # None /\ x # 0)
  IN  IF ns = << >> THEN 1 ELSE Head(ns)

\* get_current_release_number: 1 + the last number; 1 on any exception.
GetCurrentReleaseNumber(out) ==
  IF out = Raised THEN 1 ELSE 1 + GetLastReleaseNumber(out)

TypeOK ==
  /\ parent \in [Commits -> 0..MaxCommits]
  /\ Commits = 1..Cardinality(Commits)
  /\ head \in Commits
  /\ tags \in [DOMAIN tags -> Commits]
  /\ release_file = None
       \/ release_file \in [label : DOMAIN tags, commit : Commits]
  /\ runs \in 0..MaxRuns

\* A repository with one commit and no release tag.
Init ==
  /\ parent = (1 :> 0)
  /\ head = 1
  /\ tags = << >>
  /\ release_file = None
  /\ runs = 0

\* A new commit on HEAD.
Commit ==
  /\ Cardinality(Commits) < MaxCommits
  /\ LET c == Cardinality(Commits) + 1
     IN  /\ parent' = parent @@ (c :> head)
         /\ head' = c
  /\ UNCHANGED <<tags, release_file, runs>>

\* git checkout of an older commit.
Checkout(c) ==
  /\ c # head
  /\ head' = c
  /\ UNCHANGED <<parent, tags, release_file, runs>>

\* main: current_release = f"release/{get_current_release_number()}";
\* git('tag', current_release); build/release gets the label.  git tag
\* refuses a name that exists; git() then raises (main ends before the
\* write) or returns (main writes the label anyway).
Release ==
  /\ runs < MaxRuns
  /\ runs' = runs + 1
  /\ \E out \in DescribeOutputs(head) :
       LET n == GetCurrentReleaseNumber(out)
       IN  IF n \notin DOMAIN tags
           THEN /\ tags' = tags @@ (n :> head)
                /\ release_file' = [label |-> n, commit |-> head]
           ELSE /\ UNCHANGED tags
                /\ release_file' \in {release_file,
                                      [label |-> n, commit |-> head]}
  /\ UNCHANGED <<parent, head>>

Next == Commit \/ (\E c \in Commits : Checkout(c)) \/ Release

Spec == Init /\ [][Next]_vars

-----------------------------------------------------------------------------
(* Properties                                                              *)

\* build/release names the release tag of the commit it was written at:
\* the label main computed and wrote is the tag git put on HEAD, not a
\* label another commit already carries.
ReleaseFileNamesItsCommit ==
  release_file # None => tags[release_file.label] = release_file.commit

=============================================================================
