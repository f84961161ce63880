----------------------- MODULE SnapshotHistoryProofs -----------------------
(***************************************************************************)
(* Proofs about SnapshotHistory, for every set of snapshots, contents and   *)
(* clocks: the order of snapshots is strict and total; a preview describes  *)
(* what a restoration will do, and a restoration does it, since every       *)
(* preview in the dialog, in a request or in an answer compares its         *)
(* snapshot with the content its hash is of (PreviewsAreSound); and the     *)
(* pages of the history make one ordered timeline without gaps, since an    *)
(* answer goes on from the last snapshot displayed (TimelineIsSound).       *)
(***************************************************************************)
EXTENDS SnapshotHistory, FiniteSetTheorems, SequenceTheorems, TLAPS

-----------------------------------------------------------------------------
(* The order of snapshots *)

\* compareSnapshots is a strict total order, although clocks may agree and
\* times be unreadable: no two snapshots are both, or neither, more recent,
\* so that latestSnapshot and the pages of the history are determined.
THEOREM SnapshotOrderIsTotal ==
  ASSUME NEW s \in Snapshots, NEW t \in Snapshots, NEW u \in Snapshots
  PROVE  /\ ~MoreRecent(s, s)
         /\ MoreRecent(s, t) /\ MoreRecent(t, u) => MoreRecent(s, u)
         /\ s # t => (MoreRecent(s, t) <=> ~MoreRecent(t, s))
<1>1. /\ s \in Nat /\ t \in Nat /\ u \in Nat
      /\ Time[s] \in Int \cup {Unreadable}
      /\ Time[t] \in Int \cup {Unreadable}
      /\ Time[u] \in Int \cup {Unreadable}
      /\ Unreadable \notin Int
  BY SnapshotsAreNumbered, TimesAreInstants
<1>2. ~MoreRecent(s, s)
  BY <1>1 DEF MoreRecent
<1>3. MoreRecent(s, t) /\ MoreRecent(t, u) => MoreRecent(s, u)
  BY <1>1 DEF MoreRecent
<1>4. s # t => (MoreRecent(s, t) <=> ~MoreRecent(t, s))
  BY <1>1 DEF MoreRecent
<1> QED
  BY <1>2, <1>3, <1>4

-----------------------------------------------------------------------------
(* The preview *)

\* What a preview says of each key is what changing the one content into the
\* other does to it, when no key has the name of an inherited property.
THEOREM DiffDescribes ==
  ASSUME Inherited = {}, NEW before \in Contents, NEW after \in Contents
  PROVE  Describes(Diff(before, after), before, after)
<1> DEFINE D == Diff(before, after)
<1> SUFFICES ASSUME NEW n \in Names
             PROVE  /\ (before[n] = NoSecret /\ after[n] # NoSecret) <=> D[n].status = "added"
                    /\ (before[n] # NoSecret /\ after[n] = NoSecret) <=> D[n].status = "removed"
                    /\ \A k \in Keys :
                          LET old == IF before[n] = NoSecret THEN Absent ELSE before[n][k]
                              new == IF after[n] = NoSecret THEN Absent ELSE after[n][k]
                          IN  D[n].keys[k] =
                                IF old = new THEN "same"
                                ELSE IF old = Absent THEN "added"
                                ELSE IF new = Absent THEN "removed"
                                ELSE "changed"
  BY DEF Describes
<1>1. /\ before[n] \in Data \cup {NoSecret}
      /\ after[n] \in Data \cup {NoSecret}
  BY DEF Contents
<1>2. CASE before[n] = NoSecret /\ after[n] = NoSecret
  BY <1>2 DEF Diff, Unchanged, AllSame
<1>3. CASE before[n] = NoSecret /\ after[n] # NoSecret
  BY <1>3 DEF Diff, All, Own
<1>4. CASE before[n] # NoSecret /\ after[n] = NoSecret
  BY <1>4 DEF Diff, All, Own
<1>5. CASE before[n] # NoSecret /\ after[n] # NoSecret
  <2>1. before[n] \in Data /\ after[n] \in Data
    BY <1>1, <1>5
  <2> DEFINE K == KeyDiffs(before[n], after[n])
  <2>2. \A k \in Keys :
           K[k] = IF before[n][k] = after[n][k] THEN "same"
                  ELSE IF before[n][k] = Absent THEN "added"
                  ELSE IF after[n][k] = Absent THEN "removed"
                  ELSE "changed"
    BY <2>1 DEF KeyDiffs, Own, HasKey
  <2>3. D[n] = IF K = AllSame THEN Unchanged ELSE [status |-> "changed", keys |-> K]
    BY <1>5 DEF Diff
  <2>4. D[n].keys = K /\ D[n].status \notin {"added", "removed"}
    BY <2>3 DEF Unchanged
  <2> QED
    BY <1>5, <2>2, <2>4
<1> QED
  BY <1>1, <1>2, <1>3, <1>4, <1>5

\* The preview says "No change" only of contents that are the same.
THEOREM NoChangeIsTrue ==
  ASSUME Inherited = {}, NEW before \in Contents, NEW after \in Contents
  PROVE  SaysNoChange(Diff(before, after)) => before = after
<1> SUFFICES ASSUME SaysNoChange(Diff(before, after)), NEW n \in Names
             PROVE  before[n] = after[n]
  BY DEF Contents
<1>1. Diff(before, after)[n] = Unchanged
  BY DEF SaysNoChange
<1>2. Describes(Diff(before, after), before, after)
  BY DiffDescribes
<1>3. /\ before[n] = NoSecret <=> after[n] = NoSecret
      /\ before[n] # NoSecret => \A k \in Keys : before[n][k] = after[n][k]
  <2>1. (before[n] = NoSecret) <=> (after[n] = NoSecret)
    BY <1>1, <1>2 DEF Describes, Unchanged
  <2>2. ASSUME before[n] # NoSecret, NEW k \in Keys
        PROVE  before[n][k] = after[n][k]
    BY <1>1, <1>2, <2>1, <2>2 DEF Describes, Unchanged, AllSame
  <2> QED
    BY <2>1, <2>2
<1>4. before[n] \in Data \cup {NoSecret} /\ after[n] \in Data \cup {NoSecret}
  BY DEF Contents
<1> QED
  BY <1>3, <1>4 DEF Data

-----------------------------------------------------------------------------
(* The restoration *)

\* A preview compares some content with its snapshot, and has its hash.
SoundPreview(p) ==
    p # NoPreview =>
        /\ p.snapshot \in Snapshots
        /\ \E c \in Contents :
              p.diff = Diff(c, ContentOf[p.snapshot]) /\ p.contentHash = Hash(c)

SoundAsk(ask) ==
    /\ ask.stage = "asked" => ask.snapshot \in Snapshots
    /\ ask.stage = "answered" => SoundPreview(ask.preview)

\* Every preview is sound, wherever it is, and what is restored has one.
PreviewsAreSound ==
    /\ secrets \in Contents
    /\ confirming \in Snapshots \cup {NoSnapshot}
    /\ SoundPreview(preview)
    /\ asks = [a \in Asks |-> asks[a]]
    /\ \A a \in Asks : SoundAsk(asks[a])
    /\ restore = [stage |-> restore.stage, snapshot |-> restore.snapshot,
                  preview |-> restore.preview]
    /\ restore.snapshot \in Snapshots \cup {NoSnapshot}
    /\ SoundPreview(restore.preview)
    /\ restore.stage = "asked" => restore.preview # NoPreview
    /\ restore.stage \in {"asked", "stale"} => restore.snapshot \in Snapshots

LEMMA PreviewOfIsSound ==
  ASSUME secrets \in Contents, NEW s \in Snapshots
  PROVE  SoundPreview(PreviewOf(s))
BY DEF SoundPreview, PreviewOf

LEMMA NoPreviewIsSound == SoundPreview(NoPreview)
BY DEF SoundPreview

LEMMA InitIsSound == Init => PreviewsAreSound
BY ContentsOfSnapshots, NoPreviewIsSound
   DEF Init, PreviewsAreSound, SoundAsk, NoAsk, NoRestore

\* Confirming and restoring take place for a snapshot that exists.
LEMMA StepIsSound ==
  ASSUME PreviewsAreSound, [Next]_vars
  PROVE  PreviewsAreSound'
<1> USE DEF PreviewsAreSound
<1>1. ASSUME NEW a \in Asks, NEW ask, SoundAsk(ask), asks' = [asks EXCEPT ![a] = ask]
      PROVE  asks' = [b \in Asks |-> asks'[b]] /\ \A b \in Asks : SoundAsk(asks'[b])
  BY <1>1
<1>2. CASE PageEnds \/ LoadMore
  BY <1>2 DEF PageEnds, ServePage, FailPage, PageArrives, LoadMore, server, dialog,
     SoundAsk, SoundPreview
<1>3. ASSUME NEW a \in Asks, NEW s \in Snapshots, AskRestore(a, s)
      PROVE  PreviewsAreSound'
  BY <1>3, <1>1, NoPreviewIsSound DEF AskRestore, AskFor, SoundAsk, server
<1>4. ASSUME NEW a \in Asks, ServePreview(a)
      PROVE  PreviewsAreSound'
  BY <1>4, <1>1, PreviewOfIsSound DEF ServePreview, SoundAsk, server
<1>5. ASSUME NEW a \in Asks, FailPreview(a)
      PROVE  PreviewsAreSound'
  BY <1>5, <1>1, NoPreviewIsSound DEF FailPreview, SoundAsk, server
<1>6. ASSUME NEW a \in Asks, PreviewArrives(a)
      PROVE  PreviewsAreSound'
  BY <1>6, <1>1, NoPreviewIsSound DEF PreviewArrives, SoundAsk, NoAsk, NoRestore, server
<1>7. CASE CancelRestore
  BY <1>7, NoPreviewIsSound DEF CancelRestore, server
<1>8. CASE Restore
  BY <1>8 DEF Restore, server
<1>9. CASE ServeRestore
  BY <1>9, ContentsOfSnapshots DEF ServeRestore
<1>10. CASE FailRestore \/ RestoreFailed
  BY <1>10, NoPreviewIsSound DEF FailRestore, RestoreFailed, NoRestore, server
<1>11. CASE Restored
  BY <1>11, NoPreviewIsSound DEF Restored, NoRestore, server
<1>12. ASSUME NEW a \in Asks, RestoreRefused(a)
       PROVE  PreviewsAreSound'
  BY <1>12, <1>1, NoPreviewIsSound DEF RestoreRefused, AskFor, SoundAsk, server
<1>13. ASSUME NEW s \in Snapshots, Push(s) \/ Forget(s)
       PROVE  PreviewsAreSound'
  BY <1>13 DEF Push, Forget, dialog
<1>14. ASSUME NEW c \in Edited, Edit(c)
       PROVE  PreviewsAreSound'
  BY <1>14, ContentsOfSnapshots DEF Edit, dialog
<1>15. CASE UNCHANGED vars
  BY <1>15 DEF vars, server, dialog
<1> QED
  BY <1>2, <1>3, <1>4, <1>5, <1>6, <1>7, <1>8, <1>9, <1>10, <1>11, <1>12, <1>13,
     <1>14, <1>15 DEF Next, PreviewEnds, RestoreEnds

\* A restoration that is confirmed below a preview of its snapshot does to
\* each key what that preview says (RestoresAsPreviewed), for any snapshots,
\* clocks and contents, when no key has the name of an inherited property.
THEOREM RestorationsDoAsPreviewed ==
  ASSUME Inherited = {}
  PROVE  Spec => RestoresAsPreviewed
<1>1. ASSUME PreviewsAreSound, PreviewsAreSound', [Next]_vars,
             restore.stage = "asked", restore'.stage = "restored",
             restore.preview.snapshot = restore.snapshot
      PROVE  Describes(restore.preview.diff, secrets, secrets')
  <2>1. ServeRestore
    BY <1>1 DEF PreviewsAreSound, Next, vars, server, timeline, dialog, PageEnds, ServePage,
       FailPage, PageArrives, LoadMore, PreviewEnds, ServePreview, FailPreview,
       PreviewArrives, AskRestore, NoRestore, RestoreEnds, FailRestore, Restored,
       RestoreFailed, RestoreRefused, CancelRestore, Restore, Push, Forget, Edit
  <2>2. HashIsCurrent /\ secrets' = ContentOf[restore.snapshot]
    BY <1>1, <2>1 DEF ServeRestore, PreviewsAreSound
  <2>3. /\ secrets \in Contents /\ restore.snapshot \in Snapshots
        /\ restore.preview.diff = Diff(secrets, ContentOf[restore.snapshot])
    BY <1>1, <2>2, HashIsInjective DEF PreviewsAreSound, SoundPreview, HashIsCurrent
  <2> QED
    BY <2>2, <2>3, DiffDescribes, ContentsOfSnapshots
<1>2. Spec => []PreviewsAreSound
  BY InitIsSound, StepIsSound, PTL DEF Spec
<1>3. PreviewsAreSound /\ PreviewsAreSound' /\ [Next]_vars
      => [restore.stage = "asked" /\ restore'.stage = "restored"
          /\ restore.preview.snapshot = restore.snapshot
             => Describes(restore.preview.diff, secrets, secrets')]_vars
  BY <1>1
<1> QED
  BY <1>2, <1>3, PTL DEF Spec, RestoresAsPreviewed

-----------------------------------------------------------------------------
(* The pages of the history *)

\* A sequence of snapshots, the most recent first.
Ordered(s) == \A i, j \in DOMAIN s : i < j => MoreRecent(s[i], s[j])

\* The listing of a finite set of snapshots is determined: it is ordered and
\* has each of them.  The place of a snapshot is the number of those that are
\* not less recent, and no two have the same place.
LEMMA ListingIsOrdered ==
  ASSUME NEW S \in SUBSET Snapshots, IsFiniteSet(S)
  PROVE  /\ Listing(S) \in Seq(S)
         /\ Ordered(Listing(S))
         /\ \A s \in S : \E i \in DOMAIN Listing(S) : Listing(S)[i] = s
<1> DEFINE n == Cardinality(S)
           NotAfter(s) == {t \in S : t = s \/ MoreRecent(t, s)}
           place == [s \in S |-> Cardinality(NotAfter(s))]
           Sorted(f) == f \in [1..n -> S] /\ Ordered(f)
<1>1. n \in Nat /\ IsFiniteSet(1..n) /\ Cardinality(1..n) = n
  BY FS_CardinalityType, FS_Interval
<1>2. ASSUME NEW s \in S
      PROVE  place[s] \in 1..n /\ IsFiniteSet(NotAfter(s))
  <2>1. NotAfter(s) \in SUBSET S /\ NotAfter(s) # {}
    OBVIOUS
  <2>2. /\ IsFiniteSet(NotAfter(s)) /\ Cardinality(NotAfter(s)) <= n
        /\ Cardinality(NotAfter(s)) \in Nat /\ Cardinality(NotAfter(s)) # 0
    BY <2>1, FS_Subset, FS_CardinalityType, FS_EmptySet
  <2> QED
    BY <2>2, <1>1
<1>3. ASSUME NEW s \in S, NEW t \in S, MoreRecent(s, t)
      PROVE  place[s] < place[t]
  <2>1. NotAfter(s) \in SUBSET NotAfter(t)
    BY <1>3, SnapshotOrderIsTotal
  <2>2. t \in NotAfter(t) /\ t \notin NotAfter(s)
    BY <1>3, SnapshotOrderIsTotal
  <2>3. /\ Cardinality(NotAfter(s)) <= Cardinality(NotAfter(t))
        /\ Cardinality(NotAfter(s)) # Cardinality(NotAfter(t))
    BY <2>1, <2>2, <1>2, FS_Subset
  <2> QED
    BY <2>3, <1>1, <1>2
<1>4. place = [s \in S |-> place[s]] /\ \A s \in S : place[s] \in 1..n
  BY <1>2
<1> HIDE DEF place, n
<1>5. \A i \in 1..n : \E s \in S : place[s] = i
  <2>1. ASSUME NEW s \in S, NEW t \in S, s # t
        PROVE  place[s] # place[t]
    <3>1. MoreRecent(s, t) \/ MoreRecent(t, s)
      BY <2>1, SnapshotOrderIsTotal
    <3>2. place[s] \in Int /\ place[t] \in Int
      BY <1>1, <1>4
    <3> QED
      BY <3>1, <3>2, <1>3
  <2>2. place \in Injection(S, 1..n)
    BY <1>4, <2>1 DEF Injection, IsInjective
  <2>3. place \in Surjection(S, 1..n)
    BY <2>2, <1>1, FS_Injection DEF n
  <2> QED
    BY <2>3 DEF Surjection
<1>6. \E f : Sorted(f)
  <2> DEFINE f == [i \in 1..n |-> CHOOSE s \in S : place[s] = i]
  <2>1. \A i \in 1..n : f[i] \in S /\ place[f[i]] = i
    BY <1>5
  <2> HIDE DEF f
  <2>2. ASSUME NEW i \in 1..n, NEW j \in 1..n, i < j
        PROVE  MoreRecent(f[i], f[j])
    <3>1. /\ f[i] \in S /\ f[j] \in S
          /\ place[f[i]] = i /\ place[f[j]] = j
      BY <2>1
    <3>2. f[i] # f[j] /\ ~MoreRecent(f[j], f[i])
      BY <3>1, <2>2, <1>1, <1>3
    <3> QED
      BY <3>1, <3>2, SnapshotOrderIsTotal
  <2>3. f \in [1..n -> S]
    BY <2>1 DEF f
  <2> QED
    BY <2>2, <2>3 DEF Ordered
<1>7. Sorted(Listing(S))
  BY <1>6 DEF Listing, Ordered, n
<1> DEFINE L == Listing(S)
<1>8. L \in Injection(1..n, S)
  BY <1>7, <1>1, SnapshotOrderIsTotal DEF Injection, IsInjective, Ordered
<1>9. \A s \in S : \E i \in 1..n : L[i] = s
  BY <1>8, <1>1, FS_Injection DEF Surjection, n
<1> QED
  BY <1>7, <1>9, <1>1

\* What is not displayed yet is appended as it is.
LEMMA NewPagesAreAppended ==
  ASSUME NEW current \in Seq(Snapshots), NEW incoming \in Seq(Snapshots),
         ToSet(current) \cap ToSet(incoming) = {}
  PROVE  Merged(current, incoming) = current \o incoming
<1> DEFINE n == Len(incoming)
           K == {i \in DOMAIN incoming : incoming[i] \notin ToSet(current)}
<1>1. n \in Nat /\ K = 1..n
  BY DEF ToSet
<1>2. Cardinality(1..n) = n
  <2>1. \A m \in Nat : Cardinality(1..m) = m
    BY FS_Interval
  <2> QED
    BY <2>1, <1>1
<1>3. ASSUME NEW i \in 1..n
      PROVE  Nth(K, i) = i
  <2>1. ASSUME NEW k \in 1..n
        PROVE  Cardinality({h \in K : h < k}) = k - 1
    <3>1. {h \in K : h < k} = 1..(k - 1)
      BY <1>1
    <3>2. Cardinality(1..(k - 1)) = k - 1
      BY <1>1, FS_Interval
    <3> QED
      BY <3>1, <3>2
  <2>2. \A k \in K : Cardinality({h \in K : h < k}) = i - 1 <=> k = i
    BY <2>1, <1>1
  <2> QED
    BY <2>2, <1>1 DEF Nth
<1>4. Unseen(current, incoming) = [i \in 1..n |-> incoming[i]]
  BY <1>1, <1>2, <1>3 DEF Unseen
<1>5. incoming = [i \in 1..n |-> incoming[i]]
  OBVIOUS
<1> QED
  BY <1>4, <1>5 DEF Merged

\* Nothing in a sequence is older than x.
Reaches(s, x) == \A i \in DOMAIN s : s[i] = x \/ MoreRecent(s[i], x)

\* A cursor is the last of what it follows, and there is something before it.
SoundCursor(more, before, s) ==
    more => before \in Snapshots /\ s # <<>> /\ Reaches(s, before)

\* Of the snapshots S, those that are not in s come after the cursor.
LeavesNone(more, before, s, S) ==
    \A t \in S \ ToSet(s) : more /\ MoreRecent(before, t)

\* What is displayed is ordered and ends at the cursor; the answer that is in
\* flight goes on from there, and after both nothing is skipped.
TimelineIsSound ==
    /\ repo \in SUBSET Snapshots /\ IsFiniteSet(repo) /\ listed \in SUBSET repo
    /\ shown \in Seq(Snapshots) /\ Ordered(shown)
    /\ SoundCursor(older.more, older.before, shown)
    /\ shown # <<>> => LeavesNone(older.more, older.before, shown, listed)
    /\ page.stage = "asked" =>
          IF page.before = NoSnapshot THEN shown = <<>>
          ELSE older.more /\ page.before = older.before
    /\ page.stage = "answered" =>
          /\ page.snapshots \in Seq(Snapshots) /\ Ordered(page.snapshots)
          /\ SoundCursor(page.more, page.before, page.snapshots)
          /\ \A i \in DOMAIN shown, j \in DOMAIN page.snapshots :
                MoreRecent(shown[i], page.snapshots[j])
          /\ LeavesNone(page.more, page.before, page.snapshots,
                        listed \ ToSet(shown))

\* A page is ordered, follows what it was asked for, and leaves nothing out
\* that its cursor does not lead to.
LEMMA PagesContinue ==
  ASSUME NEW S \in SUBSET Snapshots, IsFiniteSet(S), NEW before \in S \cup {NoSnapshot}
  PROVE  LET p == PageAfter(Listing(S), before)
         IN  /\ p.stage = "answered"
             /\ p.snapshots \in Seq(S) /\ p.snapshots \in Seq(Snapshots)
             /\ p.more \in BOOLEAN
             /\ p.before \in IF p.more THEN ToSet(p.snapshots) ELSE {NoSnapshot}
             /\ Ordered(p.snapshots)
             /\ SoundCursor(p.more, p.before, p.snapshots)
             /\ before # NoSnapshot =>
                   \A i \in DOMAIN p.snapshots : MoreRecent(before, p.snapshots[i])
             /\ \A T \in SUBSET S :
                   (before # NoSnapshot => \A t \in T : MoreRecent(before, t))
                   => LeavesNone(p.more, p.before, p.snapshots, T)
<1> DEFINE L == Listing(S)
           n == Len(L)
           start == IF before = NoSnapshot THEN 0
                    ELSE CHOOSE i \in 1..Len(L) : L[i] = before
           last == Min({start + 1 + Limit - 1, n})
           slice == Slice(L, start + 1, Limit)
           more == start + Len(slice) < n
           cursor == IF more /\ slice # <<>> THEN Last(slice) ELSE NoSnapshot
           p == PageAfter(L, before)
<1>1. /\ L \in Seq(S) /\ n \in Nat /\ DOMAIN L = 1..n
      /\ \A i, j \in 1..n : i < j => MoreRecent(L[i], L[j])
      /\ \A i \in 1..n : L[i] \in S /\ L[i] \in Snapshots
      /\ \A s \in S : \E i \in 1..n : L[i] = s
      /\ Limit \in Nat \ {0}
  BY ListingIsOrdered, ContentsOfSnapshots DEF Ordered
<1>2. /\ start \in 0..n
      /\ before = NoSnapshot => start = 0
      /\ before # NoSnapshot => start \in 1..n /\ L[start] = before
  BY <1>1
<1>3. /\ p.stage = "answered" /\ p.snapshots = slice
      /\ p.more = more /\ p.before = cursor
  <2>1. p = [stage |-> "answered", snapshots |-> slice, more |-> more, before |-> cursor]
    BY DEF PageAfter, IsMore
  <2> HIDE DEF p, slice, more, cursor
  <2> QED
    BY <2>1
<1> HIDE DEF L, n, start, p, more, cursor
<1>4. last \in start..n /\ (last < n => last = start + Limit)
  <2>1. start + 1 + Limit - 1 = start + Limit /\ start + Limit \in Nat
    BY <1>1, <1>2
  <2>2. last = IF start + Limit <= n THEN start + Limit ELSE n
    BY <2>1, <1>1 DEF Min
  <2> QED
    BY <2>1, <2>2, <1>1, <1>2
<1> DEFINE m == last - start
<1>5. /\ slice \in Seq(S) /\ slice \in Seq(Snapshots) /\ Len(slice) = m /\ m \in Nat
      /\ \A i \in 1..m : slice[i] = L[start + i]
  <2>1. slice = SubSeq(L, start + 1, last)
    BY DEF Slice, n
  <2> HIDE DEF last, slice
  <2>2. start + 1 \in Int /\ last \in Int /\ \A i \in (start + 1)..last : L[i] \in S
    BY <1>1, <1>2, <1>4
  <2>3. /\ slice \in Seq(S)
        /\ Len(slice) = IF start + 1 <= last THEN last - (start + 1) + 1 ELSE 0
        /\ \A i \in 1..(last - (start + 1) + 1) : slice[i] = L[start + 1 + i - 1]
    BY <2>1, <2>2, SubSeqProperties
  <2>5. slice \in Seq(Snapshots)
    BY <2>3, SeqMonotonic
  <2>4. last - (start + 1) + 1 = m /\ \A i \in 1..m : start + 1 + i - 1 = start + i
    BY <1>1, <1>2, <1>4
  <2> QED
    BY <2>3, <2>4, <2>5, <1>1, <1>2, <1>4
<1> HIDE DEF slice, last, m
<1>6. Ordered(slice)
  BY <1>1, <1>2, <1>4, <1>5 DEF Ordered, m
<1>7. more <=> last < n
  BY <1>1, <1>2, <1>4, <1>5 DEF m, more
<1>8. more => slice # <<>> /\ cursor = L[last] /\ last \in 1..n /\ m > 0
  <2> HAVE more
  <2>1. last = start + Limit /\ m = Limit /\ m > 0 /\ last \in 1..n
    BY <1>7, <1>1, <1>2, <1>4 DEF m
  <2>2. slice # <<>>
    BY <2>1, <1>5, EmptySeq
  <2>3. Last(slice) = slice[m] /\ slice[m] = L[last]
    BY <2>1, <1>5, <1>2, <1>1, <1>4 DEF Last, m
  <2> QED
    BY <2>1, <2>2, <2>3 DEF cursor
<1>9. SoundCursor(more, cursor, slice)
  <2> SUFFICES ASSUME more PROVE cursor \in Snapshots /\ slice # <<>> /\ Reaches(slice, cursor)
    BY DEF SoundCursor
  <2>1. ASSUME NEW i \in 1..m
        PROVE  slice[i] = cursor \/ MoreRecent(slice[i], cursor)
    <3>1. slice[i] = L[start + i] /\ start + i \in 1..n /\ last \in 1..n /\ start + i <= last
      BY <1>2, <1>4, <1>5, <1>8, <1>1 DEF m
    <3> QED
      BY <3>1, <1>1, <1>8
  <2>2. DOMAIN slice = 1..m
    BY <1>5
  <2> QED
    BY <2>1, <2>2, <1>1, <1>8 DEF Reaches
<1>10. before # NoSnapshot => \A i \in DOMAIN slice : MoreRecent(before, slice[i])
  <2> SUFFICES ASSUME before # NoSnapshot, NEW i \in 1..m
               PROVE  MoreRecent(before, slice[i])
    BY <1>5
  <2>1. start \in 1..n /\ start + i \in 1..n /\ start < start + i
    BY <1>1, <1>2, <1>4 DEF m
  <2>2. MoreRecent(L[start], L[start + i])
    BY <2>1, <1>1
  <2> QED
    BY <2>2, <1>2, <1>5
<1>11. ASSUME NEW T \in SUBSET S, before # NoSnapshot => \A t \in T : MoreRecent(before, t),
              NEW t \in T \ ToSet(slice)
       PROVE  more /\ MoreRecent(cursor, t)
  <2>1. PICK k \in 1..n : L[k] = t
    BY <1>1
  <2>2. k > start
    <3> SUFFICES ASSUME k <= start PROVE FALSE
      BY <1>1, <1>2
    <3>1. before # NoSnapshot /\ start \in 1..n /\ L[start] = before
      BY <1>1, <1>2
    <3>2. MoreRecent(before, t) /\ before \in Snapshots /\ t \in Snapshots
      BY <3>1, <1>1, <1>11
    <3>3. t = before \/ MoreRecent(t, before)
      BY <3>1, <2>1, <1>1
    <3> QED
      BY <3>2, <3>3, SnapshotOrderIsTotal
  <2>3. k > last
    <3> SUFFICES ASSUME k <= last PROVE FALSE
      BY <1>4, <1>1, <1>2
    <3>1. k - start \in 1..m /\ start + (k - start) = k
      BY <2>2, <1>1, <1>2, <1>4 DEF m
    <3>2. slice[k - start] = t /\ k - start \in DOMAIN slice
      BY <3>1, <2>1, <1>5
    <3> QED
      BY <3>2, <1>11 DEF ToSet
  <2> QED
    BY <2>1, <2>3, <1>7, <1>8, <1>1, <1>2, <1>4
<1>12. more \in BOOLEAN /\ cursor \in IF more THEN ToSet(slice) ELSE {NoSnapshot}
  <2>1. more => Len(slice) \in DOMAIN slice /\ cursor = slice[Len(slice)]
    BY <1>8, <1>5 DEF cursor, Last
  <2> QED
    BY <2>1 DEF ToSet, more, cursor
<1>13. \A T \in SUBSET S : (before # NoSnapshot => \A t \in T : MoreRecent(before, t))
                           => LeavesNone(more, cursor, slice, T)
  BY <1>11 DEF LeavesNone
<1> QED
  BY <1>3, <1>5, <1>6, <1>9, <1>10, <1>12, <1>13 DEF p, L

LEMMA TimelineStarts == Init => TimelineIsSound
<1> SUFFICES ASSUME Init PROVE TimelineIsSound
  OBVIOUS
<1>1. /\ repo \in SUBSET Snapshots /\ IsFiniteSet(repo) /\ listed = {}
      /\ shown = <<>> /\ older.more = FALSE
      /\ page.stage = "asked" /\ page.before = NoSnapshot
  BY ContentsOfSnapshots DEF Init, NothingOlder
<1> QED
  BY <1>1, EmptySeq DEF TimelineIsSound, Ordered, SoundCursor

\* An answer goes on from the last snapshot that is displayed.
LEMMA ServedPageIsSound ==
  ASSUME TimelineIsSound, ServePage
  PROVE  TimelineIsSound'
<1>1. /\ page.stage = "asked" /\ page.before \in repo \cup {NoSnapshot}
      /\ repo' = repo /\ shown' = shown /\ older' = older
      /\ page' = PageAfter(Listing(repo), page.before)
      /\ listed' = IF page.before = NoSnapshot THEN repo ELSE listed
  BY DEF ServePage, server
<1>2. /\ repo \in SUBSET Snapshots /\ IsFiniteSet(repo) /\ listed \in SUBSET repo
      /\ shown \in Seq(Snapshots) /\ Ordered(shown)
      /\ SoundCursor(older.more, older.before, shown)
      /\ shown # <<>> => LeavesNone(older.more, older.before, shown, listed)
      /\ IF page.before = NoSnapshot THEN shown = <<>>
         ELSE older.more /\ page.before = older.before
  BY <1>1 DEF TimelineIsSound
<1> DEFINE before == page.before
           rest == listed' \ ToSet(shown)
<1>3. /\ page'.stage = "answered"
      /\ page'.snapshots \in Seq(Snapshots) /\ Ordered(page'.snapshots)
      /\ SoundCursor(page'.more, page'.before, page'.snapshots)
      /\ before # NoSnapshot =>
            \A i \in DOMAIN page'.snapshots : MoreRecent(before, page'.snapshots[i])
      /\ (before # NoSnapshot => \A t \in rest : MoreRecent(before, t))
         => LeavesNone(page'.more, page'.before, page'.snapshots, rest)
  <2> HIDE DEF before
  <2>1. before \in repo \cup {NoSnapshot} /\ rest \in SUBSET repo
    BY <1>1, <1>2 DEF before
  <2>2. page' = PageAfter(Listing(repo), before)
    BY <1>1 DEF before
  <2> HIDE DEF rest
  <2> QED
    BY <2>1, <2>2, <1>2, PagesContinue
<1>4. \A i \in DOMAIN shown, j \in DOMAIN page'.snapshots :
         MoreRecent(shown[i], page'.snapshots[j])
  <2> SUFFICES ASSUME NEW i \in DOMAIN shown, NEW j \in DOMAIN page'.snapshots
               PROVE  MoreRecent(shown[i], page'.snapshots[j])
    OBVIOUS
  <2>1. before # NoSnapshot /\ older.more /\ before = older.before
    BY <1>2
  <2>2. before \in Snapshots /\ (shown[i] = before \/ MoreRecent(shown[i], before))
    BY <2>1, <1>2 DEF SoundCursor, Reaches
  <2>3. MoreRecent(before, page'.snapshots[j])
    BY <2>1, <1>3
  <2>4. shown[i] \in Snapshots /\ page'.snapshots[j] \in Snapshots
    BY <1>2, <1>3
  <2> QED
    BY <2>2, <2>3, <2>4, SnapshotOrderIsTotal
<1>5. LeavesNone(page'.more, page'.before, page'.snapshots, rest)
  <2>1. before # NoSnapshot => \A t \in rest : MoreRecent(before, t)
    BY <1>1, <1>2 DEF SoundCursor, LeavesNone
  <2> QED
    BY <2>1, <1>3
<1>6. listed' \in SUBSET repo /\ (shown # <<>> => listed' = listed)
  BY <1>1, <1>2
<1> QED
  BY <1>1, <1>2, <1>3, <1>4, <1>5, <1>6 DEF TimelineIsSound

\* A page that follows what is displayed holds nothing of it.
LEMMA FollowingPageIsAppended ==
  ASSUME NEW s \in Seq(Snapshots), NEW t \in Seq(Snapshots),
         \A i \in DOMAIN s, j \in DOMAIN t : MoreRecent(s[i], t[j])
  PROVE  Merged(s, t) = s \o t
<1>1. ToSet(s) \cap ToSet(t) = {}
  <2> SUFFICES ASSUME NEW i \in DOMAIN s, NEW j \in DOMAIN t, s[i] = t[j]
               PROVE  FALSE
    BY DEF ToSet
  <2>1. MoreRecent(s[i], t[j]) /\ s[i] \in Snapshots /\ t[j] \in Snapshots
    OBVIOUS
  <2> QED
    BY <2>1, SnapshotOrderIsTotal
<1> QED
  BY <1>1, NewPagesAreAppended

\* What is displayed and the page that follows it make one ordered timeline.
LEMMA MergedPageIsSound ==
  ASSUME NEW s \in Seq(Snapshots), NEW t \in Seq(Snapshots), Ordered(s), Ordered(t),
         NEW more, NEW before, NEW S,
         SoundCursor(more, before, t),
         \A i \in DOMAIN s, j \in DOMAIN t : MoreRecent(s[i], t[j]),
         LeavesNone(more, before, t, S \ ToSet(s))
  PROVE  LET u == Merged(s, t)
         IN  /\ u \in Seq(Snapshots) /\ Ordered(u)
             /\ SoundCursor(more, before, u)
             /\ LeavesNone(more, before, u, S)
<1> DEFINE u == s \o t
           m == Len(s)
           n == Len(t)
<1>1. Merged(s, t) = u
  BY FollowingPageIsAppended
<1>2. /\ m \in Nat /\ n \in Nat /\ DOMAIN s = 1..m /\ DOMAIN t = 1..n
      /\ u \in Seq(Snapshots) /\ DOMAIN u = 1..(m + n)
      /\ \A i \in 1..m : u[i] = s[i]
      /\ \A j \in 1..n : u[m + j] = t[j]
      /\ \A k \in 1..(m + n) : k \in 1..m \/ (k - m \in 1..n /\ u[k] = t[k - m])
      /\ \A i \in 1..m : s[i] \in Snapshots
      /\ \A j \in 1..n : t[j] \in Snapshots
  BY ConcatProperties
<1> HIDE DEF u, m, n
<1>3. Ordered(u)
  <2> SUFFICES ASSUME NEW i \in 1..(m + n), NEW j \in 1..(m + n), i < j
               PROVE  MoreRecent(u[i], u[j])
    BY <1>2 DEF Ordered
  <2>1. CASE j \in 1..m
    <3>1. i \in 1..m /\ j \in 1..m /\ u[i] = s[i] /\ u[j] = s[j]
      BY <2>1, <1>2
    <3> QED
      BY <3>1, <1>2 DEF Ordered
  <2>2. CASE i \in 1..m /\ j \notin 1..m
    BY <2>2, <1>2
  <2>3. CASE i \notin 1..m /\ j \notin 1..m
    <3>1. /\ i - m \in 1..n /\ j - m \in 1..n /\ i - m < j - m
          /\ u[i] = t[i - m] /\ u[j] = t[j - m]
      BY <2>3, <1>2
    <3> QED
      BY <3>1, <1>2 DEF Ordered
  <2> QED
    BY <2>1, <2>2, <2>3, <1>2
<1>4. SoundCursor(more, before, u)
  <2> SUFFICES ASSUME more PROVE before \in Snapshots /\ u # <<>> /\ Reaches(u, before)
    BY DEF SoundCursor
  <2>1. before \in Snapshots /\ t # <<>> /\ \A j \in 1..n : t[j] = before \/ MoreRecent(t[j], before)
    BY <1>2 DEF SoundCursor, Reaches
  <2>2. n > 0 /\ 1 \in 1..n
    BY <2>1, <1>2, EmptySeq DEF n
  <2>3. u # <<>>
    BY <2>2, <1>2
  <2>4. ASSUME NEW k \in 1..(m + n)
        PROVE  u[k] = before \/ MoreRecent(u[k], before)
    <3>1. CASE k \in 1..m
      <4>1. MoreRecent(s[k], t[1]) /\ (t[1] = before \/ MoreRecent(t[1], before))
        BY <3>1, <2>1, <2>2, <1>2
      <4>2. s[k] \in Snapshots /\ t[1] \in Snapshots /\ u[k] = s[k]
        BY <3>1, <2>2, <1>2
      <4> QED
        BY <4>1, <4>2, <2>1, SnapshotOrderIsTotal
    <3>2. CASE k \notin 1..m
      BY <3>2, <2>1, <1>2
    <3> QED
      BY <3>1, <3>2
  <2> QED
    BY <2>1, <2>3, <2>4, <1>2 DEF Reaches
<1>5. ToSet(s) \cup ToSet(t) \subseteq ToSet(u)
  <2>1. \A j \in 1..n : m + j \in 1..(m + n)
    BY <1>2
  <2>2. \A i \in 1..m : i \in 1..(m + n)
    BY <1>2
  <2>3. \A i \in 1..m : s[i] \in ToSet(u)
    BY <2>2, <1>2 DEF ToSet
  <2>4. \A j \in 1..n : t[j] \in ToSet(u)
    BY <2>1, <1>2 DEF ToSet
  <2> QED
    BY <2>3, <2>4, <1>2 DEF ToSet
<1>6. LeavesNone(more, before, u, S)
  BY <1>5 DEF LeavesNone
<1> QED
  BY <1>1, <1>2, <1>3, <1>4, <1>6

LEMMA ArrivedPageIsSound ==
  ASSUME TimelineIsSound, PageArrives
  PROVE  TimelineIsSound'
<1>1. page'.stage = "idle" /\ repo' = repo /\ listed' = listed
  BY DEF PageArrives, NoPage, server
<1>2. CASE page.stage = "answered"
  <2>1. /\ shown' = Merged(shown, page.snapshots)
        /\ older'.more = page.more /\ older'.before = page.before
    BY <1>2 DEF PageArrives
  <2>2. /\ shown' \in Seq(Snapshots) /\ Ordered(shown')
        /\ SoundCursor(page.more, page.before, shown')
        /\ LeavesNone(page.more, page.before, shown', listed)
    BY <2>1, <1>2, MergedPageIsSound DEF TimelineIsSound
  <2> QED
    BY <1>1, <2>1, <2>2 DEF TimelineIsSound
<1>3. CASE page.stage = "failed"
  <2>1. CASE page.first
    <3>1. shown' = <<>> /\ older'.more = FALSE
      BY <1>3, <2>1 DEF PageArrives, NothingOlder
    <3> QED
      BY <1>1, <3>1, EmptySeq DEF TimelineIsSound, Ordered, SoundCursor
  <2>2. CASE ~page.first
    <3>1. shown' = shown /\ older' = older
      BY <1>3, <2>2 DEF PageArrives
    <3> QED
      BY <1>1, <3>1 DEF TimelineIsSound
  <2> QED
    BY <2>1, <2>2
<1> QED
  BY <1>2, <1>3 DEF PageArrives

LEMMA StepKeepsTimeline ==
  ASSUME TimelineIsSound, [Next]_vars
  PROVE  TimelineIsSound'
<1>1. CASE FailPage
  <2>1. /\ page'.stage = "failed" /\ repo' = repo /\ listed' = listed
        /\ shown' = shown /\ older' = older
    BY <1>1 DEF FailPage, server
  <2> QED
    BY <2>1 DEF TimelineIsSound
<1>2. CASE LoadMore
  <2>1. /\ page'.stage = "asked" /\ page'.before = older.before /\ older.more
        /\ repo' = repo /\ listed' = listed /\ shown' = shown /\ older' = older
    BY <1>2 DEF LoadMore, server
  <2>2. older.before # NoSnapshot
    BY <2>1, SnapshotsAreNumbered DEF TimelineIsSound, SoundCursor, NoSnapshot
  <2> QED
    BY <2>1, <2>2 DEF TimelineIsSound
<1>3. ASSUME NEW s \in Snapshots, Push(s)
      PROVE  TimelineIsSound'
  <2>1. /\ repo' = repo \cup {s} /\ listed' = listed
        /\ shown' = shown /\ older' = older /\ page' = page
    BY <1>3 DEF Push, timeline
  <2>2. repo' \in SUBSET Snapshots /\ IsFiniteSet(repo')
    BY <2>1, FS_AddElement DEF TimelineIsSound
  <2> QED
    BY <2>1, <2>2 DEF TimelineIsSound
<1>4. ASSUME NEW s \in Snapshots, Forget(s)
      PROVE  TimelineIsSound'
  <2>1. /\ repo' = repo \ {s} /\ listed' = listed \ {s}
        /\ shown' = shown /\ older' = older /\ page' = page
    BY <1>4 DEF Forget, timeline
  <2>2. /\ repo' \in SUBSET Snapshots /\ IsFiniteSet(repo')
        /\ listed' \in SUBSET listed /\ listed' \in SUBSET repo'
    BY <2>1, FS_RemoveElement DEF TimelineIsSound
  <2> QED
    BY <2>1, <2>2 DEF TimelineIsSound, LeavesNone
<1>5. CASE UNCHANGED <<repo, timeline, listed>>
  BY <1>5 DEF TimelineIsSound, timeline
<1> QED
  BY <1>1, <1>2, <1>3, <1>4, <1>5, ServedPageIsSound, ArrivedPageIsSound
     DEF Next, vars, server, PageEnds, PreviewEnds, ServePreview, FailPreview,
         PreviewArrives, AskRestore, RestoreEnds, ServeRestore, FailRestore, Restored,
         RestoreFailed, RestoreRefused, CancelRestore, Restore, Edit

LEMMA TimelineStaysSound == Spec => []TimelineIsSound
BY TimelineStarts, StepKeepsTimeline, PTL DEF Spec

\* The timeline has each snapshot once, the most recent first, for any number
\* of snapshots, any clocks and any size of a page (HistoryIsOrdered).
THEOREM TimelineIsOrdered == Spec => []HistoryIsOrdered
<1>1. TimelineIsSound => HistoryIsOrdered
  BY DEF TimelineIsSound, Ordered, HistoryIsOrdered
<1> QED
  BY <1>1, TimelineStaysSound, PTL

\* Between the pages no snapshot is lost that was there when the dialog opened
\* and has not been forgotten since, although others are pushed and forgotten
\* from one page to the next (NothingSkipped).
THEOREM PagesSkipNothing == Spec => []NothingSkipped
<1>1. TimelineIsSound => NothingSkipped
  BY DEF TimelineIsSound, LeavesNone, NothingSkipped
<1> QED
  BY <1>1, TimelineStaysSound, PTL

-----------------------------------------------------------------------------
(* Types *)

\* The request for a page and its answer.
PageTyped ==
    /\ page.stage = "answered" =>
          /\ page.snapshots \in Seq(pushed) /\ page.more \in BOOLEAN
          /\ page.before \in IF page.more THEN ToSet(page.snapshots)
                             ELSE {NoSnapshot}
    /\ page.stage = "failed" => page.first \in BOOLEAN /\ (page.first => shown = <<>>)

\* A request for the preview of one of the snapshots S, and its answer.
AskTyped(ask, S) ==
    /\ ask = NoAsk \/ ask.stage \in {"asked", "answered"}
    /\ ask.stage = "asked" => ask.snapshot \in S
    /\ ask.stage = "answered" => ask.preview \in Previews \cup {NoPreview}

\* What the dialog asks for and restores is displayed, and stays displayed.
DialogTyped ==
    /\ asks = [a \in Asks |-> asks[a]]
    /\ \A a \in Asks : AskTyped(asks[a], ToSet(shown))
    /\ restore = [stage |-> restore.stage, snapshot |-> restore.snapshot,
                  preview |-> restore.preview]
    /\ restore.stage \in {"asked", "restored", "stale"}
          => restore.snapshot \in ToSet(shown)

Typed == TypeOK /\ PageTyped /\ DialogTyped

LEMMA DiffIsTyped ==
  ASSUME NEW c \in Contents, NEW d \in Contents
  PROVE  Diff(c, d) \in [Names -> Diffs]
<1>1. AllSame \in [Keys -> Statuses] /\ Unchanged \in Diffs
  BY DEF AllSame, Unchanged, Statuses, Diffs
<1>2. \A data : \A status \in {"added", "removed"} : All(data, status) \in [Keys -> Statuses]
  BY DEF All, Statuses
<1>3. \A b, e : KeyDiffs(b, e) \in [Keys -> Statuses]
  BY DEF KeyDiffs, Statuses
<1>4. ASSUME NEW n \in Names
      PROVE  Diff(c, d)[n] \in Diffs
  <2>1. \A keys \in [Keys -> Statuses], status \in Statuses :
           [status |-> status, keys |-> keys] \in Diffs
    BY DEF Diffs
  <2>2. /\ [status |-> "added", keys |-> All(d[n], "added")] \in Diffs
        /\ [status |-> "removed", keys |-> All(c[n], "removed")] \in Diffs
        /\ [status |-> "changed", keys |-> KeyDiffs(c[n], d[n])] \in Diffs
    BY <2>1, <1>2, <1>3 DEF Statuses
  <2> QED
    BY <2>2, <1>1 DEF Diff
<1> QED
  BY <1>4 DEF Diff

LEMMA PreviewOfIsTyped ==
  ASSUME secrets \in Contents, NEW s \in Snapshots
  PROVE  PreviewOf(s) \in Previews
BY DiffIsTyped, ContentsOfSnapshots DEF PreviewOf, Previews

LEMMA InitIsTyped == Init => Typed
<1> SUFFICES ASSUME Init PROVE Typed
  OBVIOUS
<1>1. /\ repo = First /\ pushed = First /\ secrets \in Contents
      /\ shown = <<>> /\ older.more = FALSE /\ older.before = NoSnapshot
      /\ page.stage = "asked" /\ others \in 0..MaxOthers /\ listed = {}
      /\ confirming = NoSnapshot /\ preview = NoPreview /\ waiting = FALSE
  BY ContentsOfSnapshots DEF Init, NothingOlder
<1>2. asks = [a \in Asks |-> NoAsk] /\ restore = NoRestore
  BY DEF Init
<1>3. TypeOK
  BY <1>1, <1>2, ContentsOfSnapshots, EmptySeq DEF TypeOK, NoRestore
<1>4. DialogTyped
  BY <1>2 DEF DialogTyped, AskTyped, NoAsk, NoRestore
<1> QED
  BY <1>1, <1>3, <1>4 DEF Typed, PageTyped

\* What a step on the timeline has to show: what is displayed stays displayed.
LEMMA TimelineStepIsTyped ==
  ASSUME Typed, UNCHANGED <<repo, pushed, secrets, confirming, preview, waiting, asks,
                            restore, others>>,
         shown' \in Seq(pushed), ToSet(shown) \subseteq ToSet(shown'),
         older'.more \in BOOLEAN,
         older'.before \in IF older'.more THEN ToSet(shown') ELSE {NoSnapshot},
         page'.stage \in {"idle", "asked", "answered", "failed"},
         listed' \subseteq repo, PageTyped'
  PROVE  Typed'
<1>1. TypeOK'
  BY DEF Typed, TypeOK
<1>2. \A a \in Asks : AskTyped(asks[a], ToSet(shown')) /\ asks'[a] = asks[a]
  BY DEF Typed, DialogTyped, AskTyped
<1>3. DialogTyped'
  BY <1>2 DEF Typed, DialogTyped, AskTyped
<1> QED
  BY <1>1, <1>3 DEF Typed

LEMMA PageStepIsTyped ==
  ASSUME Typed, TimelineIsSound, PageEnds \/ LoadMore
  PROVE  Typed'
<1>1. /\ UNCHANGED <<repo, pushed, secrets, confirming, preview, waiting, asks,
                     restore, others>>
  BY DEF PageEnds, ServePage, FailPage, PageArrives, LoadMore, server, dialog
<1>2. /\ shown \in Seq(pushed) /\ older.more \in BOOLEAN
      /\ older.before \in IF older.more THEN ToSet(shown) ELSE {NoSnapshot}
      /\ listed \subseteq repo /\ repo \subseteq pushed
      /\ pushed \subseteq Snapshots
  BY DEF Typed, TypeOK
<1>3. CASE ServePage
  <2>1. /\ page' = PageAfter(Listing(repo), page.before) /\ page.stage = "asked"
        /\ page.before \in repo \cup {NoSnapshot}
        /\ shown' = shown /\ older' = older /\ listed' \subseteq repo
    BY <1>3, <1>2 DEF ServePage
  <2>2. repo \in SUBSET Snapshots /\ IsFiniteSet(repo)
    BY DEF TimelineIsSound
  <2> DEFINE before == page.before
  <2>3. before \in repo \cup {NoSnapshot} /\ page' = PageAfter(Listing(repo), before)
    BY <2>1
  <2> HIDE DEF before
  <2>4. /\ page'.stage = "answered" /\ page'.snapshots \in Seq(repo)
        /\ page'.more \in BOOLEAN
        /\ page'.before \in IF page'.more THEN ToSet(page'.snapshots) ELSE {NoSnapshot}
    BY <2>2, <2>3, PagesContinue
  <2>5. page'.snapshots \in Seq(pushed)
    BY <2>4, <1>2, SeqMonotonic
  <2>6. PageTyped'
    BY <2>4, <2>5, <1>1 DEF PageTyped
  <2> QED
    BY <1>1, <1>2, <2>1, <2>4, <2>6, TimelineStepIsTyped
<1>4. CASE FailPage
  <2>1. /\ page.stage = "asked" /\ page'.stage = "failed"
        /\ page'.first = (page.before = NoSnapshot)
        /\ shown' = shown /\ older' = older /\ listed' = listed
    BY <1>4 DEF FailPage
  <2>2. PageTyped'
    BY <2>1 DEF PageTyped, TimelineIsSound
  <2> QED
    BY <1>1, <1>2, <2>1, <2>2, TimelineStepIsTyped
<1>5. CASE PageArrives /\ page.stage = "answered"
  <2>1. /\ shown' = Merged(shown, page.snapshots) /\ listed' = listed
        /\ older'.more = page.more /\ older'.before = page.before /\ page'.stage = "idle"
    BY <1>5 DEF PageArrives, NoPage
  <2>2. /\ page.snapshots \in Seq(pushed) /\ page.more \in BOOLEAN
        /\ page.before \in IF page.more THEN ToSet(page.snapshots) ELSE {NoSnapshot}
    BY <1>5 DEF Typed, PageTyped
  <2>3. shown' = shown \o page.snapshots
    BY <2>1, <1>5, FollowingPageIsAppended DEF TimelineIsSound
  <2>4. /\ shown' \in Seq(pushed) /\ ToSet(shown) \subseteq ToSet(shown')
        /\ ToSet(page.snapshots) \subseteq ToSet(shown')
    <3> DEFINE m == Len(shown)
               n == Len(page.snapshots)
    <3>1. /\ m \in Nat /\ n \in Nat /\ DOMAIN shown = 1..m /\ DOMAIN page.snapshots = 1..n
          /\ shown' \in Seq(pushed) /\ DOMAIN shown' = 1..(m + n)
          /\ \A i \in 1..m : i \in 1..(m + n) /\ shown'[i] = shown[i]
          /\ \A j \in 1..n : m + j \in 1..(m + n) /\ shown'[m + j] = page.snapshots[j]
      BY <1>2, <2>2, <2>3, ConcatProperties
    <3> HIDE DEF m, n
    <3>2. \A i \in 1..m : shown[i] \in ToSet(shown')
      BY <3>1 DEF ToSet
    <3>3. \A j \in 1..n : page.snapshots[j] \in ToSet(shown')
      BY <3>1 DEF ToSet
    <3> QED
      BY <3>1, <3>2, <3>3 DEF ToSet
  <2>5. PageTyped'
    BY <2>1 DEF PageTyped
  <2> QED
    BY <1>1, <1>2, <2>1, <2>2, <2>4, <2>5, TimelineStepIsTyped
<1>6. CASE PageArrives /\ page.stage = "failed"
  <2>1. /\ page'.stage = "idle" /\ listed' = listed
        /\ shown' = IF page.first THEN <<>> ELSE shown
        /\ older' = IF page.first THEN NothingOlder ELSE older
    BY <1>6 DEF PageArrives, NoPage
  <2>2. page.first => shown = <<>>
    BY <1>6 DEF Typed, PageTyped
  <2>3. /\ shown' = shown /\ older'.more \in BOOLEAN
        /\ older'.before \in IF older'.more THEN ToSet(shown') ELSE {NoSnapshot}
    BY <1>2, <2>1, <2>2 DEF NothingOlder
  <2>4. PageTyped'
    BY <2>1 DEF PageTyped
  <2> QED
    BY <1>1, <1>2, <2>1, <2>3, <2>4, TimelineStepIsTyped
<1>7. CASE LoadMore
  <2>1. page'.stage = "asked" /\ shown' = shown /\ older' = older /\ listed' = listed
    BY <1>7 DEF LoadMore
  <2>2. PageTyped'
    BY <2>1 DEF PageTyped
  <2> QED
    BY <1>1, <1>2, <2>1, <2>2, TimelineStepIsTyped
<1> QED
  BY <1>3, <1>4, <1>5, <1>6, <1>7 DEF PageEnds, PageArrives

\* What a step of the dialog has to show.
LEMMA DialogStepIsTyped ==
  ASSUME Typed, UNCHANGED <<repo, pushed, timeline, others, listed>>,
         secrets' \in Contents, confirming' \in ToSet(shown) \cup {NoSnapshot},
         preview' \in Previews \cup {NoPreview}, waiting' \in BOOLEAN,
         asks' = [a \in Asks |-> asks'[a]], \A a \in Asks : AskTyped(asks'[a], ToSet(shown)),
         restore' = [stage |-> restore'.stage, snapshot |-> restore'.snapshot,
                     preview |-> restore'.preview],
         restore'.stage \in {"idle", "asked", "restored", "stale", "failed", "reviewing"},
         restore'.preview \in Previews \cup {NoPreview},
         restore'.stage \in {"asked", "restored", "stale"}
            => restore'.snapshot \in ToSet(shown)
  PROVE  Typed'
<1>1. /\ shown' = shown /\ older' = older /\ page' = page
  BY DEF timeline
<1>2. TypeOK'
  BY <1>1 DEF Typed, TypeOK, AskTyped
<1>3. PageTyped'
  BY <1>1 DEF Typed, PageTyped
<1>4. DialogTyped'
  BY <1>1 DEF Typed, DialogTyped, AskTyped
<1> QED
  BY <1>2, <1>3, <1>4 DEF Typed

\* A request for a preview that changes is typed like the others.
LEMMA AskChanges ==
  ASSUME DialogTyped, NEW a \in Asks, NEW ask, AskTyped(ask, ToSet(shown)),
         asks' = [asks EXCEPT ![a] = ask]
  PROVE  asks' = [b \in Asks |-> asks'[b]] /\ \A b \in Asks : AskTyped(asks'[b], ToSet(shown))
<1>1. asks' = [b \in Asks |-> IF b = a THEN ask ELSE asks[b]]
  BY DEF DialogTyped
<1> QED
  BY <1>1 DEF DialogTyped

LEMMA PreviewStepIsTyped ==
  ASSUME Typed, NEW a \in Asks,
         \/ ServePreview(a) \/ FailPreview(a) \/ PreviewArrives(a) \/ RestoreRefused(a)
         \/ \E s \in Snapshots : AskRestore(a, s)
  PROVE  Typed'
<1>1. /\ DialogTyped /\ secrets \in Contents
      /\ confirming \in ToSet(shown) \cup {NoSnapshot}
      /\ preview \in Previews \cup {NoPreview} /\ waiting \in BOOLEAN
      /\ restore.stage \in {"idle", "asked", "restored", "stale", "failed", "reviewing"}
      /\ restore.preview \in Previews \cup {NoPreview}
      /\ restore = [stage |-> restore.stage, snapshot |-> restore.snapshot,
                    preview |-> restore.preview]
      /\ restore.stage \in {"asked", "restored", "stale"}
            => restore.snapshot \in ToSet(shown)
      /\ ToSet(shown) \subseteq Snapshots
      /\ AskTyped(asks[a], ToSet(shown))
  BY DEF Typed, TypeOK, DialogTyped, ToSet
<1>2. ASSUME NEW s \in Snapshots, AskRestore(a, s)
      PROVE  Typed'
  <2> DEFINE ask == [stage |-> "asked", snapshot |-> s, again |-> FALSE]
  <2>1. AskTyped(ask, ToSet(shown)) /\ asks' = [asks EXCEPT ![a] = ask]
    BY <1>2 DEF AskTyped, AskRestore, AskFor
  <2> HIDE DEF ask
  <2>2. asks' = [b \in Asks |-> asks'[b]] /\ \A b \in Asks : AskTyped(asks'[b], ToSet(shown))
    BY <1>1, <2>1, AskChanges
  <2> QED
    BY <1>1, <1>2, <2>2, DialogStepIsTyped DEF AskRestore, server
<1>3. CASE ServePreview(a)
  <2> DEFINE s == asks[a].snapshot
             ask == [stage |-> "answered", preview |-> PreviewOf(s), again |-> asks[a].again]
  <2>1. s \in Snapshots
    BY <1>1, <1>3 DEF AskTyped, ServePreview
  <2> HIDE DEF s
  <2>2. PreviewOf(s) \in Previews
    BY <1>1, <2>1, PreviewOfIsTyped
  <2>3. AskTyped(ask, ToSet(shown)) /\ asks' = [asks EXCEPT ![a] = ask]
    BY <1>3, <2>2 DEF AskTyped, ServePreview, s
  <2> HIDE DEF ask
  <2>4. asks' = [b \in Asks |-> asks'[b]] /\ \A b \in Asks : AskTyped(asks'[b], ToSet(shown))
    BY <1>1, <2>3, AskChanges
  <2> QED
    BY <1>1, <1>3, <2>4, DialogStepIsTyped DEF ServePreview, server
<1>4. CASE FailPreview(a)
  <2> DEFINE ask == [stage |-> "answered", preview |-> NoPreview, again |-> asks[a].again]
  <2>1. AskTyped(ask, ToSet(shown)) /\ asks' = [asks EXCEPT ![a] = ask]
    BY <1>4 DEF AskTyped, FailPreview
  <2> HIDE DEF ask
  <2>2. asks' = [b \in Asks |-> asks'[b]] /\ \A b \in Asks : AskTyped(asks'[b], ToSet(shown))
    BY <1>1, <2>1, AskChanges
  <2> QED
    BY <1>1, <1>4, <2>2, DialogStepIsTyped DEF FailPreview, server
<1>5. CASE PreviewArrives(a)
  <2>1. AskTyped(NoAsk, ToSet(shown)) /\ asks' = [asks EXCEPT ![a] = NoAsk]
    BY <1>5 DEF AskTyped, NoAsk, PreviewArrives
  <2>2. asks' = [b \in Asks |-> asks'[b]] /\ \A b \in Asks : AskTyped(asks'[b], ToSet(shown))
    BY <1>1, <2>1, AskChanges
  <2>3. preview' \in Previews \cup {NoPreview}
    BY <1>1, <1>5 DEF PreviewArrives, AskTyped
  <2>4. restore' = restore \/ restore' = NoRestore
    BY <1>5 DEF PreviewArrives
  <2> QED
    BY <1>1, <1>5, <2>2, <2>3, <2>4, DialogStepIsTyped
       DEF PreviewArrives, server, NoRestore
<1>6. CASE RestoreRefused(a)
  <2> DEFINE ask == [stage |-> "asked", snapshot |-> restore.snapshot, again |-> TRUE]
  <2>1. AskTyped(ask, ToSet(shown)) /\ asks' = [asks EXCEPT ![a] = ask]
    BY <1>1, <1>6 DEF AskTyped, RestoreRefused, AskFor
  <2> HIDE DEF ask
  <2>2. asks' = [b \in Asks |-> asks'[b]] /\ \A b \in Asks : AskTyped(asks'[b], ToSet(shown))
    BY <1>1, <2>1, AskChanges
  <2>3. restore'.stage = "reviewing" /\ restore'.preview = restore.preview
        /\ restore' = [stage |-> restore'.stage, snapshot |-> restore'.snapshot,
                       preview |-> restore'.preview]
    BY <1>1, <1>6 DEF RestoreRefused
  <2> QED
    BY <1>1, <1>6, <2>2, <2>3, DialogStepIsTyped DEF RestoreRefused, server
<1> QED
  BY <1>2, <1>3, <1>4, <1>5, <1>6

LEMMA RestoreStepIsTyped ==
  ASSUME Typed,
         \/ ServeRestore \/ FailRestore \/ Restored \/ RestoreFailed
         \/ CancelRestore \/ Restore
  PROVE  Typed'
<1>1. /\ DialogTyped /\ secrets \in Contents
      /\ confirming \in ToSet(shown) \cup {NoSnapshot}
      /\ preview \in Previews \cup {NoPreview} /\ waiting \in BOOLEAN
      /\ restore.stage \in {"idle", "asked", "restored", "stale", "failed", "reviewing"}
      /\ restore.preview \in Previews \cup {NoPreview}
      /\ restore = [stage |-> restore.stage, snapshot |-> restore.snapshot,
                    preview |-> restore.preview]
      /\ restore.stage \in {"asked", "restored", "stale"}
            => restore.snapshot \in ToSet(shown)
      /\ ToSet(shown) \subseteq Snapshots
  BY DEF Typed, TypeOK, DialogTyped, ToSet
<1>2. asks' = asks
  BY DEF ServeRestore, FailRestore, Restored, RestoreFailed, CancelRestore, Restore
<1>3. asks' = [b \in Asks |-> asks'[b]] /\ \A b \in Asks : AskTyped(asks'[b], ToSet(shown))
  BY <1>1, <1>2 DEF DialogTyped
<1>4. CASE ServeRestore
  <2>1. secrets' \in Contents
    BY <1>1, <1>4, ContentsOfSnapshots DEF ServeRestore
  <2>2. /\ restore'.stage \in {"restored", "stale"}
        /\ restore'.snapshot = restore.snapshot /\ restore'.preview = restore.preview
        /\ restore' = [stage |-> restore'.stage, snapshot |-> restore'.snapshot,
                       preview |-> restore'.preview]
    BY <1>1, <1>4 DEF ServeRestore
  <2>3. restore.stage = "asked"
    BY <1>4 DEF ServeRestore
  <2> QED
    BY <1>1, <1>3, <1>4, <2>1, <2>2, <2>3, DialogStepIsTyped DEF ServeRestore
<1>5. CASE FailRestore
  <2>1. /\ restore'.stage = "failed" /\ restore'.preview = restore.preview
        /\ restore' = [stage |-> restore'.stage, snapshot |-> restore'.snapshot,
                       preview |-> restore'.preview]
    BY <1>1, <1>5 DEF FailRestore
  <2> QED
    BY <1>1, <1>3, <1>5, <2>1, DialogStepIsTyped DEF FailRestore, server
<1>6. CASE Restored \/ RestoreFailed
  BY <1>1, <1>3, <1>6, DialogStepIsTyped DEF Restored, RestoreFailed, NoRestore, server
<1>7. CASE CancelRestore
  BY <1>1, <1>3, <1>7, DialogStepIsTyped DEF CancelRestore, server
<1>8. CASE Restore
  BY <1>1, <1>3, <1>8, DialogStepIsTyped DEF Restore, server
<1> QED
  BY <1>4, <1>5, <1>6, <1>7, <1>8

\* Others act behind the dialog only.
LEMMA OthersAreTyped ==
  ASSUME Typed,
         \/ \E s \in Snapshots : Push(s) \/ Forget(s)
         \/ \E c \in Edited : Edit(c)
  PROVE  Typed'
<1>1. UNCHANGED <<timeline, dialog>> /\ others < MaxOthers /\ others' = others + 1
  BY DEF Push, Forget, Edit
<1>2. others' \in 0..MaxOthers
  BY <1>1, ContentsOfSnapshots DEF Typed, TypeOK
<1>3. /\ repo' \subseteq pushed' /\ pushed' \subseteq Snapshots /\ pushed \subseteq pushed'
      /\ listed' \subseteq repo' /\ secrets' \in Contents
  BY ContentsOfSnapshots DEF Typed, TypeOK, Push, Forget, Edit
<1>4. shown' \in Seq(pushed')
  BY <1>1, <1>3, SeqMonotonic DEF timeline, Typed, TypeOK
<1>5. TypeOK'
  BY <1>1, <1>2, <1>3, <1>4 DEF timeline, dialog, Typed, TypeOK
<1>6. page.stage = "answered" => page.snapshots \in Seq(pushed')
  BY <1>3, SeqMonotonic DEF Typed, PageTyped
<1>7. PageTyped'
  BY <1>1, <1>6 DEF timeline, Typed, PageTyped
<1>8. DialogTyped'
  BY <1>1 DEF timeline, dialog, Typed, DialogTyped, AskTyped
<1> QED
  BY <1>5, <1>7, <1>8 DEF Typed

LEMMA StepIsTyped ==
  ASSUME Typed, TimelineIsSound, [Next]_vars
  PROVE  Typed'
<1>1. CASE UNCHANGED vars
  BY <1>1 DEF vars, server, timeline, dialog, Typed, TypeOK, PageTyped, DialogTyped,
              AskTyped
<1> QED
  BY <1>1, PageStepIsTyped, PreviewStepIsTyped, RestoreStepIsTyped, OthersAreTyped
     DEF Next, PreviewEnds, RestoreEnds

\* The dialog, its requests and the repository are well-formed (TypeOK): what is
\* confirmed is displayed, also when answers come late and pages fail, and a
\* timeline that says there is more has the cursor to ask for it.
THEOREM TypesAreKept == Spec => []TypeOK
<1>1. Typed => TypeOK
  BY DEF Typed
<1> QED
  BY <1>1, InitIsTyped, StepIsTyped, TimelineStaysSound, PTL DEF Spec
=============================================================================
