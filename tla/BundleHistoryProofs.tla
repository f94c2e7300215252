------------------------- MODULE BundleHistoryProofs --------------------------
(***************************************************************************)
(* Proofs about what outlives the single call of the bundle extension: the *)
(* ancestry of the commits, which is computed by recursion, and the        *)
(* permanence of what was committed; and about what the status views of    *)
(* BundleStatus tell of the next commit.                                   *)
(***************************************************************************)
EXTENDS BundleStatus, BundleProofs, NaturalsInduction, WellFoundedInduction

-----------------------------------------------------------------------------
(* The recursion of commit_ancestry has a solution: parents are older.     *)

\* The parent, if any, of the commit with an id.
Parents(id) == {c.parent : c \in {d \in commit : d.id = id}} \ {None}

\* Strong induction over the naturals, for a set instead of a predicate.
LEMMA Descent ==
    ASSUME NEW T, \A n \in Nat : (\A m \in Nat : m < n => m \in T) => n \in T
    PROVE  Nat \subseteq T
<1> SUFFICES ASSUME Nat \ T # {}
             PROVE  FALSE
  OBVIOUS
<1>1. PICK x \in Nat \ T : \A y \in Nat \ T : <<y, x>> \notin OpToRel(<, Nat)
  <2>1. Nat \ T \subseteq Nat
    OBVIOUS
  <2>2. QED
    BY <2>1, NatLessThanWellFounded, WFMin
<1>2. \A m \in Nat : m < x => m \in T
  BY <1>1 DEF OpToRel
<1>3. QED
  BY <1>1, <1>2

\* A parent is an earlier commit that exists.
LEMMA ParentsOlder ==
    ASSUME TypeOK, CommitGraph, NEW n \in CommitId, NEW p \in Parents(n)
    PROVE  p \in CommitId /\ p < n /\ p \in CommitIds
<1>1. PICK c \in commit : c.id = n /\ c.parent = p /\ p # None
  BY DEF Parents
<1>2. PICK d \in commit : d.id = p /\ d.id < c.id
  BY <1>1 DEF CommitGraph
<1>3. QED
  BY <1>1, <1>2 DEF TypeOK, Commit, CommitIds

\* What the recursion in commit_ancestry makes of n, given what f says of n's parents.
Line(f, n) == Parents(n) \cup UNION {f[p] : p \in Parents(n)}

\* Some function satisfies the recursion as far as n.
UpTo(n) == \E f \in [CommitId -> SUBSET CommitId] : \A m \in CommitId : m <= n => f[m] = Line(f, m)

\* And therefore as far as any n: parents are older, so the recursion is well founded.
LEMMA UpToAll ==
    ASSUME TypeOK, CommitGraph
    PROVE  \A n \in Nat : UpTo(n)
<1> DEFINE T == {n \in Nat : UpTo(n)}
<1>1. ASSUME NEW n \in Nat, \A m \in Nat : m < n => m \in T
      PROVE  n \in T
  <2>1. CASE n \notin CommitId
    <3>1. CASE n = 0
      <4>1. [m \in CommitId |-> {}] \in [CommitId -> SUBSET CommitId]
        OBVIOUS
      <4>2. \A m \in CommitId : ~(m <= n)
        BY <3>1 DEF CommitId
      <4>3. QED
        BY <4>1, <4>2 DEF UpTo
    <3>2. CASE n # 0
      <4>1. n - 1 \in T
        BY <1>1, <3>2
      <4>2. \A m \in CommitId : m <= n => m <= n - 1
        BY <2>1, <3>2 DEF CommitId
      <4>3. QED
        BY <4>1, <4>2 DEF UpTo
    <3>3. QED
      BY <3>1, <3>2
  <2>2. CASE n \in CommitId
    <3>1. n - 1 \in T
      BY <1>1, <2>2 DEF CommitId
    <3>2. PICK f \in [CommitId -> SUBSET CommitId] :
             \A m \in CommitId : m <= n - 1 => f[m] = Line(f, m)
      BY <3>1 DEF UpTo
    <3> DEFINE g == [f EXCEPT ![n] = Line(f, n)]
    <3>3. Line(f, n) \subseteq CommitId
      <4>1. \A p \in Parents(n) : p \in CommitId
        BY <2>2, ParentsOlder
      <4>2. \A p \in Parents(n) : f[p] \subseteq CommitId
        BY <3>2, <4>1
      <4>3. QED
        BY <4>1, <4>2 DEF Line
    <3>4. g \in [CommitId -> SUBSET CommitId]
      BY <3>2, <3>3
    <3>5. ASSUME NEW m \in CommitId, m <= n
          PROVE  g[m] = Line(g, m)
      <4>1. \A p \in Parents(m) : p \in CommitId /\ p < m
        BY ParentsOlder
      <4>2. \A p \in Parents(m) : g[p] = f[p]
        BY <2>2, <3>5, <4>1 DEF CommitId
      <4>3. Line(g, m) = Line(f, m)
        BY <4>2 DEF Line
      <4>4. g[m] = Line(f, m)
        <5>1. CASE m = n
          BY <5>1, <2>2
        <5>2. CASE m # n
          <6>1. m <= n - 1
            BY <2>2, <3>5, <5>2 DEF CommitId
          <6>2. QED
            BY <3>2, <5>2, <6>1
        <5>3. QED
          BY <5>1, <5>2
      <4>5. QED
        BY <4>3, <4>4
    <3> HIDE DEF g
    <3>6. UpTo(n)
      BY <3>4, <3>5 DEF UpTo
    <3>7. QED
      BY <3>6
  <2>3. QED
    BY <2>1, <2>2
<1>2. Nat \subseteq T
  <2> HIDE DEF T
  <2>1. QED
    BY <1>1, Descent
<1>3. QED
  BY <1>2

\* commit_ancestry is the recursion it says it is: parents, and theirs.
LEMMA AncestryUnfolds ==
    ASSUME TypeOK, CommitGraph, NEW id \in CommitId
    PROVE  Ancestry(id) = Parents(id) \cup UNION {Ancestry(p) : p \in Parents(id)}
<1> DEFINE Rec(f) == f = [n \in CommitId |-> Parents(n) \cup UNION {f[p] : p \in Parents(n)}]
           anc == CHOOSE f : Rec(f)
<1>1. \E f : Rec(f)
  <2>1. PICK f \in [CommitId -> SUBSET CommitId] : \A m \in CommitId : m <= MaxCommits => f[m] = Line(f, m)
    BY UpToAll, ConstantsAssumption DEF UpTo
  <2>2. \A m \in CommitId : f[m] = Line(f, m)
    BY <2>1, ConstantsAssumption DEF CommitId
  <2>3. Rec(f)
    BY <2>1, <2>2 DEF Line
  <2>4. QED
    BY <2>3
<1>2. Rec(anc)
  BY <1>1
<1>3. \A n \in CommitId : Ancestry(n) = anc[n]
  BY DEF Ancestry, Parents
<1>4. \A n \in CommitId : Ancestry(n) = Parents(n) \cup UNION {Ancestry(p) : p \in Parents(n)}
  <2> HIDE DEF anc
  <2>1. ASSUME NEW n \in CommitId
        PROVE  Ancestry(n) = Parents(n) \cup UNION {Ancestry(p) : p \in Parents(n)}
    <3>1. \A p \in Parents(n) : anc[p] = Ancestry(p)
      BY <1>3, ParentsOlder
    <3>2. anc[n] = Parents(n) \cup UNION {anc[p] : p \in Parents(n)}
      BY <1>2
    <3>3. QED
      BY <1>3, <3>1, <3>2
  <2>2. QED
    BY <2>1
<1>5. QED
  BY <1>4

-----------------------------------------------------------------------------
(* The ancestry of a commit is its history.                                *)

\* What AncestryIsHistory says of commit c.
IsHistory(c) ==
    /\ \A a \in Ancestry(c.id) :
          /\ \E p \in commit : p.id = a /\ p.bundle = c.bundle /\ a < c.id
          /\ Ancestry(a) \subseteq Ancestry(c.id)
    /\ \A a, d \in Ancestry(c.id) : a = d \/ a \in Ancestry(d) \/ d \in Ancestry(a)
    /\ \E root \in commit : root.parent = None /\ root.id \in Ancestry(c.id) \cup {c.id}

\* The ancestry of a commit with parent p is p and p's ancestry.
LEMMA AncestryOfChild ==
    ASSUME TypeOK, CommitGraph, NEW c \in commit
    PROVE  Ancestry(c.id) = IF c.parent = None THEN {} ELSE {c.parent} \cup Ancestry(c.parent)
<1>1. c.id \in CommitId
  BY DEF TypeOK, Commit
<1>2. {d \in commit : d.id = c.id} = {c}
  BY DEF CommitGraph
<1>3. Parents(c.id) = {c.parent} \ {None}
  BY <1>2 DEF Parents
<1>4. Ancestry(c.id) = Parents(c.id) \cup UNION {Ancestry(p) : p \in Parents(c.id)}
  BY <1>1, AncestryUnfolds
<1>5. QED
  BY <1>3, <1>4

\* If the parent's ancestry is its history, the child's is.
LEMMA ChildIsHistory ==
    ASSUME TypeOK, CommitGraph, NEW c \in commit, NEW p \in commit,
           p.id = c.parent, p.bundle = c.bundle, p.id < c.id, c.parent # None,
           IsHistory(p)
    PROVE  IsHistory(c)
<1>1. Ancestry(c.id) = {p.id} \cup Ancestry(p.id)
  BY AncestryOfChild
<1>2. ASSUME NEW a \in Ancestry(c.id)
      PROVE  /\ \E q \in commit : q.id = a /\ q.bundle = c.bundle /\ a < c.id
             /\ Ancestry(a) \subseteq Ancestry(c.id)
  <2>1. CASE a = p.id
    BY <1>1, <2>1
  <2>2. CASE a \in Ancestry(p.id)
    <3>1. PICK q \in commit : q.id = a /\ q.bundle = p.bundle /\ a < p.id
      BY <2>2 DEF IsHistory
    <3>2. q.id \in Nat /\ p.id \in Nat /\ c.id \in Nat
      BY ConstantsAssumption DEF TypeOK, Commit, CommitId
    <3>3. a < c.id
      BY <3>1, <3>2
    <3>4. Ancestry(a) \subseteq Ancestry(p.id)
      BY <2>2 DEF IsHistory
    <3>5. QED
      BY <1>1, <3>1, <3>3, <3>4
  <2>3. QED
    BY <1>1, <2>1, <2>2
<1>3. \A a, d \in Ancestry(c.id) : a = d \/ a \in Ancestry(d) \/ d \in Ancestry(a)
  BY <1>1 DEF IsHistory
<1>4. \E root \in commit : root.parent = None /\ root.id \in Ancestry(c.id) \cup {c.id}
  BY <1>1 DEF IsHistory
<1>5. QED
  BY <1>2, <1>3, <1>4 DEF IsHistory

\* The forest of commits gives every commit its history, by induction on the id.
LEMMA HistoryOfForest ==
    ASSUME TypeOK, CommitGraph
    PROVE  AncestryIsHistory
<1> DEFINE T == {n \in Nat : \A c \in commit : c.id = n => IsHistory(c)}
<1>1. ASSUME NEW n \in Nat, \A m \in Nat : m < n => m \in T
      PROVE  n \in T
  <2> SUFFICES ASSUME NEW c \in commit, c.id = n
               PROVE  IsHistory(c)
    OBVIOUS
  <2>1. CASE c.parent = None
    <3>1. Ancestry(c.id) = {}
      BY <2>1, AncestryOfChild
    <3>2. QED
      BY <2>1, <3>1 DEF IsHistory
  <2>2. CASE c.parent # None
    <3>1. PICK p \in commit : p.id = c.parent /\ p.bundle = c.bundle /\ p.id < c.id
      BY <2>2 DEF CommitGraph
    <3>2. p.id \in Nat
      BY ConstantsAssumption DEF TypeOK, Commit, CommitId
    <3>3. IsHistory(p)
      BY <1>1, <3>1, <3>2
    <3>4. QED
      BY <2>2, <3>1, <3>3, ChildIsHistory
  <2>3. QED
    BY <2>1, <2>2
<1>2. Nat \subseteq T
  <2> HIDE DEF T
  <2>1. QED
    BY <1>1, Descent
<1>3. \A c \in commit : c.id \in Nat
  BY ConstantsAssumption DEF TypeOK, Commit, CommitId
<1>4. \A c \in commit : IsHistory(c)
  BY <1>2, <1>3
<1>5. QED
  BY <1>4 DEF AncestryIsHistory, IsHistory

(* For any number of commits and in any interleaving of the calls: the     *)
(* ancestry of a commit is its bundle's history before it, back to a first *)
(* commit, on one line.                                                    *)
THEOREM AncestryIsWhole == Spec => []AncestryIsHistory
<1>1. RepositoryInv => AncestryIsHistory
  BY HistoryOfForest DEF RepositoryInv
<1>2. QED
  BY <1>1, RepositorySafe, PTL

-----------------------------------------------------------------------------
(* No call changes where a surviving commit comes from.                    *)

\* What AncestryOfChild says, of all commits at once.
Unfolded ==
    \A c \in commit :
        Ancestry(c.id) = IF c.parent = None THEN {} ELSE {c.parent} \cup Ancestry(c.parent)

\* The next state's commits unfold likewise.
LEMMA UnfoldedNext == (RepositoryInv => Unfolded)'
<1>1. RepositoryInv => Unfolded
  BY AncestryOfChild DEF RepositoryInv, Unfolded
<1>2. QED
  BY <1>1, PTL

\* A step of History adds nothing, or an entry with the next id.
LEMMA EntriesGrowByOne ==
    ASSUME RepositoryInv, [Next]_vars
    PROVE  /\ \A e \in Entries' : e \in Entries \/ (e.id = created + 1 /\ created' = created + 1)
           /\ created' \in {created, created + 1}
<1>1. [H!Next]_H!hvars
  BY StepIsHistory
<1>2. ASSUME NEW b \in Bundles, H!Record(b)
      PROVE  /\ \A e \in Entries' : e \in Entries \/ (e.id = created + 1 /\ created' = created + 1)
             /\ created' = created + 1
  BY <1>2 DEF H!Record
<1>3. ASSUME H!RecordOrphan
      PROVE  /\ \A e \in Entries' : e \in Entries \/ (e.id = created + 1 /\ created' = created + 1)
             /\ created' = created + 1
  BY <1>3 DEF H!RecordOrphan
<1>4. ASSUME \/ H!Forget \/ UNCHANGED H!hvars \/ \E b \in Bundles : H!Select(b)
      PROVE  Entries' \subseteq Entries /\ created' = created
  BY <1>4 DEF H!Forget, H!Select, H!hvars
<1>5. QED
  BY <1>1, <1>2, <1>3, <1>4 DEF H!Next

\* A commit of the next state that is not new is one of this state.
LEMMA OldCommits ==
    ASSUME RepositoryInv, [Next]_vars, NEW d \in commit', d.id <= created
    PROVE  d \in commit
<1>1. PICK e \in Entries' : e = Entry(d)'
  BY DEF Entries
<1>2. created \in Nat
  BY ConstantsAssumption DEF RepositoryInv, TypeOK
<1>3. e.id = d.id /\ e.bundle = d.bundle /\ e.parent = d.parent
  BY <1>1 DEF Entry
<1>4. e \in Entries
  BY <1>2, <1>3, EntriesGrowByOne
<1>5. PICK k \in commit : e = Entry(k)
  BY <1>4 DEF Entries
<1>6. k.id = d.id /\ k.bundle = d.bundle /\ k.parent = d.parent
  BY <1>3, <1>5 DEF Entry
<1>7. RepositoryInv'
  BY NextKeepsInv
<1>8. k \in Commit /\ d \in Commit
  BY <1>7 DEF RepositoryInv, TypeOK
<1>9. k = d
  BY <1>6, <1>8 DEF Commit
<1>10. QED
  BY <1>9

\* By induction on the id, like AncestryIsHistory, but in two states at once.
LEMMA StepKeepsAncestry ==
    ASSUME RepositoryInv, [Next]_vars, NEW x \in commit \cap commit'
    PROVE  Ancestry(x.id)' = Ancestry(x.id)
<1> DEFINE T == {n \in Nat : \A c \in commit \cap commit' :
                                c.id = n => Ancestry(c.id)' = Ancestry(c.id)}
<1>1. RepositoryInv' /\ Unfolded /\ Unfolded'
  BY NextKeepsInv, AncestryOfChild, UnfoldedNext DEF RepositoryInv, Unfolded
<1>2. \A c \in commit : c.id \in Nat
  BY ConstantsAssumption DEF RepositoryInv, TypeOK, Commit, CommitId
<1>3. ASSUME NEW n \in Nat, \A m \in Nat : m < n => m \in T
      PROVE  n \in T
  <2> SUFFICES ASSUME NEW c \in commit \cap commit', c.id = n
               PROVE  Ancestry(c.id)' = Ancestry(c.id)
    OBVIOUS
  <2>1. CASE c.parent = None
    BY <1>1, <2>1 DEF Unfolded
  <2>2. CASE c.parent # None
    <3>1. PICK p \in commit' : p.id = c.parent /\ p.id < c.id
      BY <1>1, <2>2 DEF RepositoryInv, CommitGraph
    <3>2. p.id <= created
      <4>1. c.id <= created /\ c.id \in Nat /\ created \in Nat
        BY <1>2, ConstantsAssumption DEF RepositoryInv, TypeOK, CommitGraph
      <4>2. p.id \in Nat
        BY <1>1, ConstantsAssumption DEF RepositoryInv, TypeOK, Commit, CommitId
      <4>3. QED
        BY <3>1, <4>1, <4>2
    <3>3. p \in commit \cap commit'
      BY <3>2, OldCommits
    <3>4. Ancestry(p.id)' = Ancestry(p.id)
      BY <1>2, <1>3, <3>1, <3>3
    <3>5. Ancestry(c.parent)' = Ancestry(c.parent)
      BY <3>1, <3>4
    <3>6. QED
      BY <1>1, <2>2, <3>5 DEF Unfolded
  <2>3. QED
    BY <2>1, <2>2
<1>4. Nat \subseteq T
  <2> HIDE DEF T
  <2>1. QED
    BY <1>3, Descent
<1>5. QED
  BY <1>2, <1>4

(* Deleting other commits, checking out and merging never rewrite where a  *)
(* surviving commit comes from.                                            *)
THEOREM AncestryStays == Spec => AncestryKept
<1>1. RepositoryInv /\ [Next]_vars
        => [\A c \in commit \cap commit' : Ancestry(c.id)' = Ancestry(c.id)]_vars
  BY StepKeepsAncestry
<1>2. QED
  BY <1>1, RepositorySafe, PTL DEF Spec, AncestryKept

-----------------------------------------------------------------------------
(* Permanence.                                                             *)

\* No commit has this id, and none ever will.
Gone(id) == id \in 1..created /\ id \notin CommitIds

\* A deleted id stays deleted.
LEMMA StaysGone ==
    ASSUME RepositoryInv, [Next]_vars, NEW id, Gone(id)
    PROVE  Gone(id)'
<1>1. created \in Nat /\ created' \in {created, created + 1} /\ id \in 1..created
  BY EntriesGrowByOne, ConstantsAssumption DEF RepositoryInv, TypeOK, Gone
<1>2. id \in 1..created' /\ id <= created
  BY <1>1
<1>3. \A d \in commit' : d.id # id
  BY <1>2, OldCommits DEF Gone, CommitIds
<1>4. QED
  BY <1>2, <1>3 DEF Gone, CommitIds

\* An entry stays as it is, or its commit is deleted.
LEMMA EntryStays ==
    ASSUME RepositoryInv, [Next]_vars, NEW e, e \in Entries
    PROVE  e \in Entries' \/ Gone(e.id)'
<1>1. PICK c \in commit : e = Entry(c)
  BY DEF Entries
<1>2. e.id = c.id
  BY <1>1 DEF Entry
<1>3. e.id \in 1..created
  BY <1>1, <1>2, ConstantsAssumption DEF RepositoryInv, TypeOK, CommitGraph, Commit, CommitId
<1>4. created \in Nat /\ created' \in {created, created + 1}
  BY EntriesGrowByOne, ConstantsAssumption DEF RepositoryInv, TypeOK
<1>5. CASE \A d \in commit' : d.id # e.id
  BY <1>3, <1>4, <1>5 DEF Gone, CommitIds
<1>6. CASE \E d \in commit' : d.id = e.id
  <2>1. PICK d \in commit' : d.id = e.id
    BY <1>6
  <2>2. Entry(d)' \in Entries' /\ Entry(d)'.id = e.id
    BY <2>1 DEF Entries, Entry
  <2>3. Entry(d)' \in Entries
    BY <1>3, <1>4, <2>2, EntriesGrowByOne
  <2>4. PICK k \in commit : Entry(d)' = Entry(k) /\ k.id = e.id
    BY <2>2, <2>3 DEF Entries, Entry
  <2>5. k = c
    BY <1>2, <2>4 DEF RepositoryInv, CommitGraph
  <2>6. QED
    BY <1>1, <2>2, <2>4, <2>5
<1>7. QED
  BY <1>5, <1>6

\* From the step to the rest of the behaviour.
LEMMA EntryOrGone ==
    ASSUME NEW e
    PROVE  Spec => [](e \in Entries => [](e \in Entries \/ Gone(e.id)))
<1>1. RepositoryInv /\ [Next]_vars /\ e \in Entries => (e \in Entries)' \/ Gone(e.id)'
  BY EntryStays
<1>2. RepositoryInv /\ [Next]_vars /\ Gone(e.id) => Gone(e.id)'
  BY StaysGone
<1>3. QED
  BY <1>1, <1>2, RepositorySafe, PTL DEF Spec

(* For every commit ever made, of any size: it stays what it was.          *)
THEOREM CommitsArePermanent ==
    ASSUME NEW e
    PROVE  Spec => CommitPermanent(e)
<1>1. Gone(e.id) => ~(e.id \in CommitIds)
  BY DEF Gone
<1>2. QED
  BY <1>1, EntryOrGone, PTL DEF CommitPermanent

(* An id that was deleted is never handed out again.                       *)
THEOREM DeletionIsFinal ==
    ASSUME NEW id
    PROVE  Spec => DeletedForGood(id)
<1>1. RepositoryInv /\ [Next]_vars /\ Gone(id) => Gone(id)'
  BY StaysGone
<1>2. Gone(id) <=> id \in 1..created /\ id \notin CommitIds
  BY DEF Gone
<1>3. QED
  BY <1>1, <1>2, RepositorySafe, PTL DEF Spec, DeletedForGood

\* A surviving commit is found under its id.
LEMMA CommitStays ==
    ASSUME RepositoryInv, [Next]_vars, NEW c \in commit
    PROVE  c \in commit' \/ Gone(c.id)'
<1>1. c.id \in 1..created /\ created \in Nat /\ created' \in {created, created + 1}
  BY EntriesGrowByOne, ConstantsAssumption DEF RepositoryInv, TypeOK, CommitGraph, Commit, CommitId
<1>2. ASSUME NEW d \in commit', d.id = c.id
      PROVE  d = c
  BY <1>1, <1>2, OldCommits DEF RepositoryInv, CommitGraph
<1>3. QED
  BY <1>1, <1>2 DEF Gone, CommitIds

\* The commit with this id has this ancestry.
Descends(id, A) == id \in CommitIds /\ Ancestry(id) = A

(* No later call, on this branch or another, gives a commit another        *)
(* ancestry than it was made with.                                         *)
THEOREM AncestryIsPermanent ==
    ASSUME NEW id, NEW A
    PROVE  Spec => AncestryPermanent(id, A)
<1>1. ASSUME RepositoryInv, [Next]_vars, Descends(id, A)
      PROVE  Descends(id, A)' \/ Gone(id)'
  <2>1. PICK c \in commit : c.id = id
    BY <1>1 DEF Descends, CommitIds
  <2>2. c \in commit' => Ancestry(id)' = Ancestry(id)
    BY <1>1, <2>1, StepKeepsAncestry
  <2>3. c \in commit' => id \in CommitIds'
    BY <2>1 DEF CommitIds
  <2>4. QED
    BY <1>1, <2>1, <2>2, <2>3, CommitStays DEF Descends
<1>2. RepositoryInv /\ [Next]_vars /\ Descends(id, A) => Descends(id, A)' \/ Gone(id)'
  BY <1>1
<1>3. RepositoryInv /\ [Next]_vars /\ Gone(id) => Gone(id)'
  BY StaysGone
<1>4. /\ Descends(id, A) <=> id \in CommitIds /\ Ancestry(id) = A
      /\ Gone(id) => ~(id \in CommitIds)
  BY DEF Descends, Gone
<1>5. QED
  BY <1>2, <1>3, <1>4, RepositorySafe, PTL DEF Spec, AncestryPermanent

(* Where a merge agrees with README, MERGING for certain: the merged       *)
(* commit is a first child of the first commit, which is then the base.    *)
THEOREM MergesFirstChild ==
    Spec => [][\A b \in Bundles, id, base \in CommitId :
                  Clean(b) /\ Ancestry(id) = {base} /\ Merge(b, id)
                      => MergedFrom(b, id, base)]_vars
<1>1. SnapshotInv /\ [Next]_vars =>
        [\A b \in Bundles, id, base \in CommitId :
            Clean(b) /\ Ancestry(id) = {base} /\ Merge(b, id) => MergedFrom(b, id, base)]_vars
  BY MergeMerges
<1>2. QED
  BY <1>1, SnapshotsInvariant, PTL DEF Spec

-----------------------------------------------------------------------------
(* From the commit to a checkout at any later time.                        *)

\* The commit with this id holds this snapshot.
Holds(id, S) == id \in CommitIds /\ Snapshot(id) = S

\* It does until it is deleted.
LEMMA HeldUntilGone ==
    ASSUME RepositoryInv, [Next]_vars, NEW id, NEW S, Holds(id, S)
    PROVE  Holds(id, S)' \/ Gone(id)'
<1>1. PICK c \in commit : c.id = id
  BY DEF Holds, CommitIds
<1>2. PICK e \in Entries : e = Entry(c)
  BY DEF Entries
<1>3. e.id = id /\ e.snapshot = S
  BY <1>1, <1>2 DEF Entry, Holds
<1>4. CASE e \in Entries'
  <2>1. PICK d \in commit' : e = Entry(d)'
    BY <1>4 DEF Entries
  <2>2. d.id = id /\ Snapshot(d.id)' = S
    BY <1>3, <2>1 DEF Entry
  <2>3. QED
    BY <2>1, <2>2 DEF Holds, CommitIds
<1>5. QED
  BY <1>3, <1>4, EntryStays

\* A checkout writes every value that the commit holds.
LEMMA CheckoutShows ==
    ASSUME SnapshotInv, NEW b \in Bundles, NEW id, Checkout(b, id), NEW S, Holds(id, S)
    PROVE  Shown(S)'
<1> DEFINE gone == CheckoutRows(b, checkedOut[b])
<1>1. /\ TypeOK /\ SnapshotsWellFormed
      /\ S.fields = {f \in rowsetRowField : f.rr.commit = id}
  BY DEF SnapshotInv, RepositoryInv, Holds, Snapshot
<1>2. ASSUME NEW g \in S.fields
      PROVE  /\ db'[g.rr.row] # Absent
             /\ g.field \in Columns => db'[g.rr.row][g.field] = g.value
  <2> DEFINE r == g.rr.row
             p == r \notin gone /\ db[r] # Absent
  <2>1. g \in RecordedFields(id, r) /\ r \in Rows
    BY <1>1 DEF RecordedFields, TypeOK, RowsetField, RowsetRow
  <2> HIDE DEF gone
  <2>2. db' = [x \in Rows |->
                    IF RecordedFields(id, x) # {}
                    THEN RestoredRow(id, x, x \notin gone /\ db[x] # Absent)
                    ELSE IF x \in gone THEN Absent ELSE db[x]]
    BY DEF Checkout, gone
  <2>3. db'[r] = RestoredRow(id, r, p)
    BY <2>1, <2>2
  <2>4. RestoredRow(id, r, p) \in [Columns -> Contents]
    BY <1>1, <2>1, RestoredRowTyped
  <2>5. ASSUME g.field \in Columns
        PROVE  RestoredRow(id, r, p)[g.field] = g.value
    <3> DEFINE vals == {f.value : f \in {h \in RecordedFields(id, r) : h.field = g.field}}
    <3>1. g.value \in vals
      BY <2>1
    <3>2. \A v \in vals : v = g.value
      BY <1>1, <2>1 DEF SnapshotsWellFormed, RecordedFields
    <3>3. RestoredRow(id, r, p)[g.field]
             = IF vals # {} THEN CHOOSE v \in vals : TRUE
               ELSE IF p THEN db[r][g.field] ELSE Null
      BY <2>5 DEF RestoredRow
    <3> HIDE DEF vals
    <3>4. QED
      BY <3>1, <3>2, <3>3
  <2>6. QED
    BY <2>3, <2>4, <2>5, ConstantsAssumption
<1>3. QED
  BY <1>2 DEF Shown

(* Whatever happens between a commit and a checkout of it, the checkout    *)
(* brings back every value that the commit was made with.                  *)
THEOREM CommitRoundTrip ==
    ASSUME NEW id, NEW S
    PROVE  Spec => RestoredAsRecorded(id, S)
<1>1. RepositoryInv /\ [Next]_vars /\ Holds(id, S) => Holds(id, S)' \/ Gone(id)'
  BY HeldUntilGone
<1>2. RepositoryInv /\ [Next]_vars /\ Gone(id) => Gone(id)'
  BY StaysGone
<1>3. SnapshotInv /\ Holds(id, S) => [\A b \in Bundles : Checkout(b, id) => Shown(S)']_vars
  BY CheckoutShows
<1>4. Gone(id) => [\A b \in Bundles : Checkout(b, id) => Shown(S)']_vars
  BY DEF Gone, Checkout, CommitsOf, CommitIds
<1>5. Holds(id, S) <=> id \in CommitIds /\ Snapshot(id) = S
  BY DEF Holds
<1>6. SnapshotInv => RepositoryInv
  BY DEF SnapshotInv
<1>7. QED
  BY <1>1, <1>2, <1>3, <1>4, <1>5, <1>6, SnapshotsInvariant, PTL DEF Spec, RestoredAsRecorded

-----------------------------------------------------------------------------
(* What the status views show, and the next commit.                        *)

\* head_db_stage_changed shows nothing of bundle b.
Unchanged(b) == \A e \in HeadDbStageChanged : e.bundle # b

\* Each row of the head of an unchanged bundle exists, is still staged, by
\* this bundle only, and is not modified.
LEMMA UnchangedRow ==
    ASSUME RepositoryInv, ViewsCurrent, NEW b \in bundles, Alone(b), Unchanged(b),
           NEW r \in HeadRows(b)
    PROVE  /\ db[r] # Absent
           /\ \E s \in StageRow : s.bundle = b /\ s.row = r
           /\ \A c \in stageFieldChanged : c.row # r
           /\ \A h \in OffstageFieldChanged : ~(h.bundle = b /\ h.cell.rr.row = r)
<1>1. bundles \subseteq Bundles
  BY DEF RepositoryInv, TypeOK
<1>2. PICK rr \in rowsetRow : rr.commit = head[b] /\ rr.row = r
  BY DEF HeadRows, RowsetOf
<1> DEFINE x == [bundle |-> b, rr |-> rr]
           e == [bundle |-> b, row |-> r, type |-> ChangeType(x)]
<1>3. x \in headCommitRow /\ x.bundle = b /\ x.rr.row = r
  BY <1>2 DEF ViewsCurrent
<1> HIDE DEF x
<1>4. e \in HeadDbStage
  BY <1>3 DEF HeadDbStage
<1>5. e \notin HeadDbStageChanged
  BY DEF Unchanged
<1>6. ChangeType(x) = "same" /\ db[r] # Absent
  BY <1>4, <1>5 DEF HeadDbStageChanged
<1>7. (\E s \in StageRow : s.row = r) /\ ~Modified(x)
  BY <1>3, <1>6 DEF ChangeType
<1>8. PICK s \in StageRow : s.row = r
  BY <1>7
<1>9. s.bundle = b
  <2>1. s.bundle \in bundles /\ s.row \in Held(s.bundle)
    BY DEF StageRow, Held
  <2>2. r \in Held(b)
    BY DEF Held
  <2>3. QED
    BY <1>1, <1>8, <2>1, <2>2 DEF Alone
<1>10. QED
  BY <1>3, <1>6, <1>7, <1>8, <1>9 DEF Modified

\* Nothing another bundle holds or stages enters the next commit of b.
LEMMA NothingForeign ==
    ASSUME RepositoryInv, ViewsCurrent, NEW b \in bundles, Alone(b), Unchanged(b)
    PROVE  NoForeignChange(b) /\ NoForeignRow(b)
<1>1. NoForeignChange(b)
  BY UnchangedRow DEF NoForeignChange
<1>2. ASSUME NEW r \in HeadRows(b), NEW s \in stageRowAdded, s.row = r
      PROVE  s.bundle = b
  <2>1. s.bundle \in Bundles
    BY DEF RepositoryInv, TypeOK, StagedRow
  <2>2. r \in Held(s.bundle) /\ r \in Held(b)
    BY <1>2 DEF Held
  <2>3. QED
    BY <2>1, <2>2 DEF Alone
<1>3. ASSUME NEW r \in HeadRows(b), NEW h \in headCommitField, h.cell.rr.row = r
      PROVE  h.bundle = b
  <2>1. /\ h.bundle \in bundles /\ h.cell \in rowsetRowField
        /\ head[h.bundle] = h.cell.rr.commit
    BY DEF ViewsCurrent
  <2>2. h.bundle \in Bundles /\ h.cell.rr \in rowsetRow
    BY <2>1 DEF RepositoryInv, TypeOK, RowsetsOwned
  <2>3. r \in Held(h.bundle) /\ r \in Held(b)
    BY <1>3, <2>1, <2>2 DEF Held, HeadRows, RowsetOf
  <2>4. QED
    BY <2>2, <2>3 DEF Alone
<1>4. QED
  BY <1>1, <1>2, <1>3 DEF NoForeignRow

\* The stage of an unchanged bundle has the rows of its head.
LEMMA UnchangedStage ==
    ASSUME RepositoryInv, ViewsCurrent, NEW b \in bundles, Alone(b), Unchanged(b)
    PROVE  {s.row : s \in {t \in StageRow : t.bundle = b}} = HeadRows(b)
<1>1. ASSUME NEW s \in StageRow, s.bundle = b
      PROVE  s.row \in HeadRows(b)
  <2> SUFFICES ASSUME s.row \notin HeadRows(b)
               PROVE  FALSE
    OBVIOUS
  <2> DEFINE e == [bundle |-> b, row |-> s.row, type |-> "added"]
  <2>1. s.row \in Held(b)
    BY <1>1 DEF StageRow, Held
  <2>2. ASSUME NEW x \in headCommitRow, x.rr.row = s.row
        PROVE  FALSE
    <3>1. x.bundle \in bundles /\ x.rr \in rowsetRow /\ head[x.bundle] = x.rr.commit
      BY DEF ViewsCurrent
    <3>2. x.bundle \in Bundles /\ s.row \in HeadRows(x.bundle)
      BY <2>2, <3>1 DEF RepositoryInv, TypeOK, HeadRows, RowsetOf
    <3>3. x.bundle = b
      BY <2>1, <3>2 DEF Alone, Held
    <3>4. QED
      BY <3>2, <3>3
  <2>3. e \in HeadDbStage
    BY <1>1, <2>2 DEF HeadDbStage
  <2>4. e \in HeadDbStageChanged
    BY <2>3 DEF HeadDbStageChanged
  <2>5. QED
    BY <2>4 DEF Unchanged
<1>2. QED
  BY <1>1, UnchangedRow

\* The working copy has the head's fields, as far as the views can tell.
LEMMA UnchangedField ==
    ASSUME SnapshotInv, ViewsCurrent, NEW b \in bundles, Alone(b), Unchanged(b),
           NEW r \in Rows, NEW f \in HeadFields(b, r)
    PROVE  r \in HeadRows(b) /\ Alike(f.value, Literal(r, f.field))
<1>1. RepositoryInv /\ ValuesStored
  BY DEF SnapshotInv
<1>2. f \in rowsetRowField /\ f.rr.commit = head[b] /\ f.rr.row = r
  BY DEF HeadFields, RecordedFields
<1>3. r \in HeadRows(b)
  BY <1>1, <1>2 DEF RepositoryInv, RowsetsOwned, HeadRows, RowsetOf
<1> DEFINE h == [bundle |-> b, cell |-> f]
<1>4. h \in headCommitField /\ h.bundle = b /\ h.cell = f
  BY <1>2 DEF ViewsCurrent
<1> HIDE DEF h
<1>5. h \notin OffstageFieldChanged /\ \A c \in stageFieldChanged : c.row # r
  BY <1>1, <1>2, <1>3, <1>4, UnchangedRow
<1>6. f.value \notin blob \/ Literal(r, f.field) \in {f.value, Null}
  BY <1>2, <1>4, <1>5 DEF OffstageFieldChanged
<1>7. f.value \in blob \cup {Null}
  BY <1>1, <1>2 DEF ValuesStored
<1>8. QED
  BY <1>3, <1>6, <1>7 DEF Alike

\* What the stage promises for a field of the head is its value, or one alike.
LEMMA UnchangedPromise ==
    ASSUME SnapshotInv, ViewsCurrent, NEW b \in bundles, Alone(b), Unchanged(b),
           NEW r \in Rows, NEW f \in HeadFields(b, r)
    PROVE  /\ \E p \in PromisedFields(b, r) : p[1] = f.field
           /\ \A p \in PromisedFields(b, r) : p[1] = f.field => Alike(f.value, p[2])
<1>1. RepositoryInv /\ SnapshotsWellFormed
  BY DEF SnapshotInv
<1>2. /\ f \in RecordedFields(head[b], r) /\ f \in rowsetRowField
      /\ f.rr.commit = head[b] /\ f.rr.row = r /\ f.field \in Fields
  BY <1>1 DEF HeadFields, RecordedFields, RepositoryInv, TypeOK, RowsetField
<1>3. r \in HeadRows(b) /\ Alike(f.value, Literal(r, f.field))
  BY UnchangedField
<1>4. CASE [bundle |-> b, row |-> r] \in stageRowAdded
  <2>1. PromisedFields(b, r) = {<<k, Literal(r, k)>> : k \in Fields}
    BY <1>4 DEF PromisedFields
  <2>2. <<f.field, Literal(r, f.field)>> \in PromisedFields(b, r)
    BY <1>2, <2>1
  <2>3. ASSUME NEW p \in PromisedFields(b, r), p[1] = f.field
        PROVE  p[2] = Literal(r, f.field)
    BY <2>1, <2>3
  <2>4. QED
    BY <1>3, <2>2, <2>3
<1>5. CASE [bundle |-> b, row |-> r] \notin stageRowAdded
  <2>1. ~\E d \in stageRowDeleted : d.bundle = b /\ d.rr.row = r
    BY <1>1, <1>3, <1>5, UnchangedRow, StagedRows
  <2>2. \A c \in stageFieldChanged : c.row # r
    BY <1>1, <1>3, UnchangedRow
  <2>3. PromisedFields(b, r) = UNION {PromiseFor(b, r, g) : g \in RecordedFields(head[b], r)}
    BY <1>5, <2>1 DEF PromisedFields, PromiseFor
  <2>4. \A g \in RecordedFields(head[b], r) : PromiseFor(b, r, g) = {<<g.field, g.value>>}
    BY <2>2 DEF PromiseFor
  <2>5. PromisedFields(b, r) = {<<g.field, g.value>> : g \in RecordedFields(head[b], r)}
    BY <2>3, <2>4
  <2>6. \A g \in RecordedFields(head[b], r) : g.field = f.field => g.value = f.value
    BY <1>1, <1>2 DEF SnapshotsWellFormed, RecordedFields
  <2>7. <<f.field, f.value>> \in PromisedFields(b, r)
    BY <1>2, <2>5
  <2>8. ASSUME NEW p \in PromisedFields(b, r), p[1] = f.field
        PROVE  p[2] = f.value
    BY <2>5, <2>6, <2>8
  <2>9. QED
    BY <2>7, <2>8 DEF Alike
<1>6. QED
  BY <1>4, <1>5

(* A bundle of which the status shows nothing has nothing to commit: the   *)
(* working copy and the next commit are its head, up to nulls.             *)
THEOREM CleanCommits == Spec => CleanCommitsNothing
<1>1. ASSUME SnapshotInv, [Next]_vars, NEW b \in Bundles,
             Committed(b), ViewsCurrent, Alone(b), Unchanged(b)
      PROVE  /\ HeadRows(b)' = HeadRows(b)
             /\ \A r \in HeadRows(b) : db[r] # Absent
             /\ \A r \in Rows : \A f \in HeadFields(b, r) :
                   /\ Alike(f.value, Literal(r, f.field))
                   /\ \E g \in HeadFields(b, r)' : g.field = f.field
                   /\ \A g \in HeadFields(b, r)' :
                         g.field = f.field => Alike(f.value, g.value)
  <2>1. RepositoryInv /\ CommitBundle(b)
    BY <1>1, CommittedIsCommit DEF SnapshotInv
  <2>2. b \in bundles /\ created' = created + 1 /\ head'[b] = created'
    BY <1>1, <2>1 DEF CommitBundle, Committed
  <2>3. HeadRows(b)' = HeadRows(b)
    <3>1. rowsetRow' = rowsetRow \cup NewRows(b)
      BY <2>1 DEF CommitBundle, NewRows
    <3>2. \A rr \in rowsetRow : rr.commit # created + 1
      BY <2>1, FreshId
    <3>3. \A rr \in NewRows(b) : rr.commit = created + 1
      BY DEF NewRows
    <3>4. RowsetOf(head[b])' = NewRows(b)
      BY <2>2, <3>1, <3>2, <3>3 DEF RowsetOf
    <3>5. HeadRows(b)' = {rr.row : rr \in NewRows(b)}
      BY <3>4 DEF HeadRows
    <3>6. {rr.row : rr \in NewRows(b)} = {s.row : s \in {t \in StageRow : t.bundle = b}}
      <4>1. ASSUME NEW s \in StageRow, s.bundle = b
            PROVE  \E rr \in NewRows(b) : rr.row = s.row
        <5>1. [commit |-> created + 1, row |-> s.row, new |-> s.new] \in NewRows(b)
          BY <4>1 DEF NewRows
        <5>2. QED
          BY <5>1
      <4>2. \A rr \in NewRows(b) : \E s \in StageRow : s.bundle = b /\ s.row = rr.row
        BY DEF NewRows
      <4>3. QED
        BY <4>1, <4>2
    <3>7. QED
      BY <1>1, <2>1, <2>2, <3>5, <3>6, UnchangedStage
  <2>4. \A r \in HeadRows(b) : db[r] # Absent
    BY <1>1, <2>1, <2>2, UnchangedRow
  <2>5. ASSUME NEW r \in Rows, NEW f \in HeadFields(b, r)
        PROVE  /\ Alike(f.value, Literal(r, f.field))
               /\ \E g \in HeadFields(b, r)' : g.field = f.field
               /\ \A g \in HeadFields(b, r)' : g.field = f.field => Alike(f.value, g.value)
    <3>1. Alike(f.value, Literal(r, f.field))
      BY <1>1, <2>2, UnchangedField
    <3>2. {<<g.field, g.value>> : g \in HeadFields(b, r)'} = PromisedFields(b, r)
      <4>1. NoForeignChange(b) /\ NoForeignRow(b)
        BY <1>1, <2>1, <2>2, NothingForeign
      <4>2. {<<g.field, g.value>> : g \in RecordedFields(created, r)'} = PromisedFields(b, r)
        BY <1>1, <2>1, <4>1, CommitIsPromise
      <4>3. HeadFields(b, r)' = RecordedFields(created, r)'
        BY <2>2 DEF HeadFields, RecordedFields
      <4>4. QED
        BY <4>2, <4>3
    <3>3. /\ \E p \in PromisedFields(b, r) : p[1] = f.field
          /\ \A p \in PromisedFields(b, r) : p[1] = f.field => Alike(f.value, p[2])
      BY <1>1, <2>2, UnchangedPromise
    <3>4. PICK p \in PromisedFields(b, r) : p[1] = f.field
      BY <3>3
    <3>5. PICK k \in HeadFields(b, r)' : p = <<k.field, k.value>>
      BY <3>2
    <3>6. ASSUME NEW g \in HeadFields(b, r)', g.field = f.field
          PROVE  Alike(f.value, g.value)
      <4>1. <<g.field, g.value>> \in PromisedFields(b, r)
        BY <3>2
      <4>2. QED
        BY <3>3, <3>6, <4>1
    <3>7. QED
      BY <3>1, <3>4, <3>5, <3>6
  <2>6. QED
    BY <2>3, <2>4, <2>5
<1>2. SnapshotInv /\ [Next]_vars =>
        [\A b \in Bundles :
          /\ Committed(b) /\ ViewsCurrent /\ Alone(b)
          /\ \A e \in HeadDbStageChanged : e.bundle # b
          => /\ HeadRows(b)' = HeadRows(b)
             /\ \A r \in HeadRows(b) : db[r] # Absent
             /\ \A r \in Rows : \A f \in HeadFields(b, r) :
                   /\ Alike(f.value, Literal(r, f.field))
                   /\ \E g \in HeadFields(b, r)' : g.field = f.field
                   /\ \A g \in HeadFields(b, r)' :
                         g.field = f.field => Alike(f.value, g.value)]_vars
  BY <1>1 DEF Unchanged
<1>3. QED
  BY <1>2, SnapshotsInvariant, PTL DEF Spec, CleanCommitsNothing
=============================================================================
