-------------------------- MODULE SnapshotHistory --------------------------
(***************************************************************************)
(* The history of the snapshots of a project in a browser, and the         *)
(* restoration of one of them (components/SnapshotHistoryModal.vue with    *)
(* utils/snapshot-history.ts and sync-preview.ts; the listing, preview and *)
(* restore handlers of ProjectsRoutes.ts with restic/SnapshotHistory.ts    *)
(* and the previews of restic/SyncPreview.ts).                             *)
(*                                                                         *)
(* One dialog is open.  Snapshots are pushed and forgotten and secrets are *)
(* edited behind it at any time; the answers to its requests for a preview *)
(* come back in any order.  What a request does in the server is one step: *)
(* ProjectSync has the steps of a restoration and what may come between.   *)
(***************************************************************************)
EXTENDS SnapshotOrder, SecretsDiff, SequencesExt

CONSTANTS
    ContentOf,    \* the secrets that each snapshot holds
    Edited,       \* what users may make of the secrets
    First,        \* the snapshots that are there when the dialog opens
    Hash(_),      \* computeSecretsHash
    Limit,        \* SNAPSHOT_HISTORY_PAGE_SIZE
    Asks,         \* previews that may be awaited at the same time (a bound)
    MaxOthers     \* pushes, forgets and edits of others (a bound)

ASSUME ContentsOfSnapshots ==
    /\ ContentOf \in [Snapshots -> Contents]
    /\ Edited \subseteq Contents
    /\ First \subseteq Snapshots /\ IsFiniteSet(First)
    /\ Limit \in Nat \ {0} /\ MaxOthers \in Nat
\* SHA-256 has no collision that anybody will meet.
ASSUME HashIsInjective ==
    \A c, d \in Contents : Hash(c) = Hash(d) => c = d

VARIABLES
    (* the repository and the database *)
    repo,         \* the snapshots of the repository
    pushed,       \* those that have ever been in it
    secrets,      \* the current secrets of the project
    (* the timeline of the dialog *)
    shown,        \* snapshots
    older,        \* hasMore and nextBefore
    page,         \* the request for a page, and its answer
    (* the confirmation of a restoration *)
    confirming,   \* the snapshot whose confirmation is unfolded
    preview,      \* restorePreview
    waiting,      \* previewLoading
    asks,         \* the requests for a preview and their answers
    restore,      \* the request that restores, and its answer
    (* bounds and history *)
    others,       \* what others have done
    listed        \* snapshots of the first page's listing, not forgotten since

server   == <<repo, pushed, secrets>>
timeline == <<shown, older, page>>
dialog   == <<confirming, preview, waiting, asks, restore>>
vars     == <<server, timeline, dialog, others, listed>>

NoPreview == [snapshot |-> NoSnapshot]
NoPage    == [stage |-> "idle"]
NoAsk     == [stage |-> "idle"]
NoRestore == [stage |-> "idle", snapshot |-> NoSnapshot, preview |-> NoPreview]
NothingOlder == [more |-> FALSE, before |-> NoSnapshot]

Previews == [snapshot : Snapshots, diff : [Names -> Diffs],
             contentHash : {Hash(c) : c \in Contents}]

Init ==
    /\ repo = First /\ pushed = First
    /\ secrets \in Edited
    \* onMounted: the first page is asked for at once.
    /\ shown = <<>> /\ older = NothingOlder
    /\ page = [stage |-> "asked", before |-> NoSnapshot]
    /\ confirming = NoSnapshot /\ preview = NoPreview /\ waiting = FALSE
    /\ asks = [a \in Asks |-> NoAsk]
    /\ restore = NoRestore
    /\ others = 0 /\ listed = {}

-----------------------------------------------------------------------------
(* The pages of the history.                                               *)

\* ResticSyncListSnapshots: most recent first.
Listing(S) ==
    CHOOSE s \in [1..Cardinality(S) -> S] :
        \A i, j \in DOMAIN s : i < j => MoreRecent(s[i], s[j])

\* Array.prototype.slice.
Slice(s, first, length) == SubSeq(s, first, Min({first + length - 1, Len(s)}))

\* hasMore.
IsMore(end, snapshots) == end < Len(snapshots)

\* Mutant: the page starts one snapshot too late.
PageSkipping(snapshots, before) ==
    LET start == IF before = NoSnapshot THEN 0
                 ELSE 1 + CHOOSE i \in 1..Len(snapshots) : snapshots[i] = before
        slice == Slice(snapshots, start + 1, Limit)
        more  == IsMore(start + Len(slice), snapshots)
    IN  [stage |-> "answered", snapshots |-> slice, more |-> more,
         before |-> IF more /\ slice # <<>> THEN Last(slice) ELSE NoSnapshot]

\* paginateSnapshotHistory, for a cursor that is in the listing.
PageAfter(snapshots, before) ==
    LET start == IF before = NoSnapshot THEN 0
                 ELSE CHOOSE i \in 1..Len(snapshots) : snapshots[i] = before
        slice == Slice(snapshots, start + 1, Limit)
        more  == IsMore(start + Len(slice), snapshots)
    IN  [stage |-> "answered", snapshots |-> slice, more |-> more,
         before |-> IF more /\ slice # <<>> THEN Last(slice) ELSE NoSnapshot]

\* The handler of GET /:id/snapshots; an unknown cursor is answered with 400.
ServePage ==
    /\ page.stage = "asked"
    /\ page.before \in repo \cup {NoSnapshot}
    /\ page' = PageAfter(Listing(repo), page.before)
    /\ listed' = IF page.before = NoSnapshot THEN repo ELSE listed
    /\ UNCHANGED <<server, shown, older, dialog, others>>

\* 400 for an unknown cursor, or any failure of restic or of the network.
FailPage ==
    /\ page.stage = "asked"
    /\ page' = [stage |-> "failed", first |-> page.before = NoSnapshot]
    /\ UNCHANGED <<server, shown, older, dialog, others, listed>>

\* The i-th smallest of a set of numbers.
Nth(K, i) == CHOOSE k \in K : Cardinality({h \in K : h < k}) = i - 1

\* What is not seen yet, in the order of the page.
Unseen(current, incoming) ==
    LET K == {i \in DOMAIN incoming : incoming[i] \notin ToSet(current)}
    IN  [i \in 1..Cardinality(K) |-> incoming[Nth(K, i)]]

\* Mutant: older pages are put before what is displayed.
MergedInFront(current, incoming) == Unseen(current, incoming) \o current

\* mergeSnapshotPages: the displayed snapshots keep their place.
Merged(current, incoming) == current \o Unseen(current, incoming)

\* The end of fetchPage; a first page that fails leaves nothing displayed.
PageArrives ==
    /\ page.stage \in {"answered", "failed"}
    /\ page' = NoPage
    /\ IF page.stage = "answered"
       THEN /\ shown' = Merged(shown, page.snapshots)
            /\ older' = [more |-> page.more, before |-> page.before]
       ELSE /\ shown' = IF page.first THEN <<>> ELSE shown
            /\ older' = IF page.first THEN NothingOlder ELSE older
    /\ UNCHANGED <<server, dialog, others, listed>>

\* loadMore.
LoadMore ==
    /\ older.more /\ page.stage = "idle"
    /\ page' = [stage |-> "asked", before |-> older.before]
    /\ UNCHANGED <<server, shown, older, dialog, others, listed>>

-----------------------------------------------------------------------------
(* The preview of a restoration.                                           *)

AskFor(a, s, again) ==
    asks' = [asks EXCEPT ![a] =
        [stage |-> "asked", snapshot |-> s, again |-> again]]

\* askRestore, from the button of a displayed snapshot.
AskRestore(a, s) ==
    /\ s \in ToSet(shown)
    /\ restore.stage = "idle"
    /\ asks[a] = NoAsk
    /\ AskFor(a, s, FALSE)
    /\ confirming' = s /\ preview' = NoPreview /\ waiting' = TRUE
    /\ UNCHANGED <<server, timeline, restore, others, listed>>

\* previewSnapshotContent.
PreviewOf(s) ==
    [snapshot |-> s, diff |-> Diff(secrets, ContentOf[s]),
     contentHash |-> Hash(secrets)]

\* The handler of GET /:id/preview/snapshots/:snapshotId.
ServePreview(a) ==
    /\ asks[a].stage = "asked"
    /\ asks[a].snapshot \in repo
    /\ asks' = [asks EXCEPT ![a] =
        [stage |-> "answered", preview |-> PreviewOf(asks[a].snapshot),
         again |-> asks[a].again]]
    /\ UNCHANGED <<server, timeline, confirming, preview, waiting, restore,
                   others, listed>>

\* 404 for a snapshot that is gone, or any failure.
FailPreview(a) ==
    /\ asks[a].stage = "asked"
    /\ asks' = [asks EXCEPT ![a] =
        [stage |-> "answered", preview |-> NoPreview, again |-> asks[a].again]]
    /\ UNCHANGED <<server, timeline, confirming, preview, waiting, restore,
                   others, listed>>

\* Mutant: a preview that cannot be refreshed leaves the dialog restoring.
ReviewedIfShown(answer) == answer.again /\ answer.preview # NoPreview

\* The preview that follows a refused restoration ends it.
Reviewed(answer) == answer.again

\* The end of askRestore, whichever snapshot the answer is about; the one of
\* a refused restoration goes on to the end of restoreSnapshot.
PreviewArrives(a) ==
    /\ asks[a].stage = "answered"
    /\ asks' = [asks EXCEPT ![a] = NoAsk]
    /\ preview' = IF asks[a].preview = NoPreview THEN preview ELSE asks[a].preview
    /\ waiting' = FALSE
    /\ restore' = IF Reviewed(asks[a]) THEN NoRestore ELSE restore
    /\ UNCHANGED <<server, timeline, confirming, others, listed>>

-----------------------------------------------------------------------------
(* The restoration.                                                        *)

\* cancelRestore: a preview that is awaited still is.
CancelRestore ==
    /\ confirming # NoSnapshot /\ restore.stage = "idle"
    /\ confirming' = NoSnapshot /\ preview' = NoPreview
    /\ UNCHANGED <<server, timeline, waiting, asks, restore, others, listed>>

\* restoreSnapshot, from the button of the unfolded confirmation.
Restore ==
    /\ confirming # NoSnapshot
    /\ restore.stage = "idle" /\ ~waiting /\ preview # NoPreview
    /\ restore' = [stage |-> "asked", snapshot |-> confirming,
                   preview |-> preview]
    /\ UNCHANGED <<server, timeline, confirming, preview, waiting, asks,
                   others, listed>>

\* Mutant: what the preview committed to is not compared.
HashIsSent == restore.preview.contentHash \in {Hash(c) : c \in Contents}

\* The compare-and-swap of applySnapshotSecrets.
HashIsCurrent == restore.preview.contentHash = Hash(secrets)

\* The handler of POST /:id/snapshots/:snapshotId/restore.
ServeRestore ==
    /\ restore.stage = "asked"
    /\ restore.snapshot \in repo
    /\ IF HashIsCurrent
       THEN /\ secrets' = ContentOf[restore.snapshot]
            /\ restore' = [restore EXCEPT !.stage = "restored"]
       ELSE /\ restore' = [restore EXCEPT !.stage = "stale"]
            /\ UNCHANGED secrets
    /\ UNCHANGED <<repo, pushed, timeline, confirming, preview, waiting, asks,
                   others, listed>>

\* 404 for a snapshot that is gone, any failure, or an answer that is lost.
FailRestore ==
    /\ restore.stage \in {"asked", "restored", "stale"}
    /\ restore' = [restore EXCEPT !.stage = "failed"]
    /\ UNCHANGED <<server, timeline, confirming, preview, waiting, asks,
                   others, listed>>

Restored ==
    /\ restore.stage = "restored"
    /\ restore' = NoRestore
    /\ confirming' = NoSnapshot /\ preview' = NoPreview
    /\ UNCHANGED <<server, timeline, waiting, asks, others, listed>>

RestoreFailed ==
    /\ restore.stage = "failed"
    /\ restore' = NoRestore
    /\ UNCHANGED <<server, timeline, confirming, preview, waiting, asks,
                   others, listed>>

\* 409: askRestore again, and restoring until it has ended.
RestoreRefused(a) ==
    /\ restore.stage = "stale"
    /\ asks[a] = NoAsk
    /\ AskFor(a, restore.snapshot, TRUE)
    /\ restore' = [restore EXCEPT !.stage = "reviewing"]
    /\ confirming' = restore.snapshot /\ preview' = NoPreview /\ waiting' = TRUE
    /\ UNCHANGED <<server, timeline, others, listed>>

-----------------------------------------------------------------------------
(* What others do behind the dialog.                                       *)

Push(s) ==
    /\ s \notin pushed /\ others < MaxOthers
    /\ repo' = repo \cup {s} /\ pushed' = pushed \cup {s}
    /\ others' = others + 1
    /\ UNCHANGED <<secrets, timeline, dialog, listed>>

Forget(s) ==
    /\ s \in repo /\ others < MaxOthers
    /\ repo' = repo \ {s} /\ listed' = listed \ {s}
    /\ others' = others + 1
    /\ UNCHANGED <<pushed, secrets, timeline, dialog>>

Edit(c) ==
    /\ c # secrets /\ others < MaxOthers
    /\ secrets' = c
    /\ others' = others + 1
    /\ UNCHANGED <<repo, pushed, timeline, dialog, listed>>

PageEnds    == ServePage \/ FailPage \/ PageArrives
PreviewEnds == \E a \in Asks : ServePreview(a) \/ FailPreview(a) \/ PreviewArrives(a)
RestoreEnds ==
    \/ ServeRestore \/ FailRestore \/ Restored \/ RestoreFailed
    \/ \E a \in Asks : RestoreRefused(a)

Next ==
    \/ PageEnds \/ LoadMore
    \/ PreviewEnds \/ \E a \in Asks, s \in Snapshots : AskRestore(a, s)
    \/ RestoreEnds \/ CancelRestore \/ Restore
    \/ \E s \in Snapshots : Push(s) \/ Forget(s)
    \/ \E c \in Edited : Edit(c)

Spec == Init /\ [][Next]_vars

\* Every request is answered (SyncTasks), and its answer or its loss reaches
\* the page, whose handlers run to their end; nobody has to click.
FairSpec == Spec /\ WF_vars(RestoreEnds)
                 /\ \A a \in Asks : WF_vars(ServePreview(a) \/ FailPreview(a)
                                            \/ PreviewArrives(a))

-----------------------------------------------------------------------------
(* Properties.                                                             *)

\* The dialog, the repository and the requests are well-formed, and a timeline
\* that says there is more has the cursor to ask for it.
TypeOK ==
    /\ repo \subseteq pushed /\ pushed \subseteq Snapshots
    /\ secrets \in Contents
    /\ shown \in Seq(pushed)
    /\ older.more \in BOOLEAN
    /\ older.before \in IF older.more THEN ToSet(shown) ELSE {NoSnapshot}
    /\ page.stage \in {"idle", "asked", "answered", "failed"}
    /\ confirming \in ToSet(shown) \cup {NoSnapshot}
    /\ preview \in Previews \cup {NoPreview}
    /\ waiting \in BOOLEAN
    /\ \A a \in Asks : asks[a] = NoAsk \/ asks[a].stage \in {"asked", "answered"}
    /\ restore.stage \in {"idle", "asked", "restored", "stale", "failed",
                          "reviewing"}
    /\ restore.preview \in Previews \cup {NoPreview}
    /\ others \in 0..MaxOthers
    /\ listed \subseteq repo

\* The timeline has each snapshot once, the most recent first, whatever was
\* pushed or forgotten between two of its pages.
HistoryIsOrdered ==
    \A i, j \in DOMAIN shown : i < j => MoreRecent(shown[i], shown[j])

\* A snapshot that was there when the dialog opened and still is, is displayed
\* or is among those that "Load older snapshots" goes on with: the pages skip
\* none of them.
NothingSkipped ==
    \A s \in listed \ ToSet(shown) :
        \/ shown = <<>>
        \/ older.more /\ MoreRecent(older.before, s)

\* A restoration that is confirmed below a preview of its snapshot changes the
\* secrets as that preview says, key by key, although the secrets may be edited
\* at any time after the preview has been computed.
RestoresAsPreviewed ==
    [][restore.stage = "asked" /\ restore'.stage = "restored"
       /\ restore.preview.snapshot = restore.snapshot
          => Describes(restore.preview.diff, secrets, secrets')]_vars

\* The dialog gets out of "Restoring...", also when the restoration is refused
\* and the preview is computed again.
RestorationEnds == restore.stage # "idle" ~> restore.stage = "idle"

\* What is restored is the snapshot whose preview is displayed.  It does not
\* hold: the preview that was asked for first may be answered last.
RestoresWhatIsShown ==
    restore.stage = "asked" => restore.preview.snapshot = restore.snapshot
=============================================================================
