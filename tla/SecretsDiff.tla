---------------------------- MODULE SecretsDiff ----------------------------
(***************************************************************************)
(* The differences that a preview displays (secrets/SecretsDiff.ts), which  *)
(* name the secrets and keys that the snapshot would add, change or remove. *)
(***************************************************************************)
EXTENDS FiniteSets

CONSTANTS
    Names, Keys, Values,
    Absent,       \* the secret does not have the key
    NoSecret,     \* the content has no secret of that name
    Inherited     \* keys that every object of the language has ("constructor")

ASSUME InheritedKeys == Inherited \subseteq Keys /\ Absent \notin Values

Data == [Keys -> Values \cup {Absent}]
Contents == [Names -> Data \cup {NoSecret}]

\* The expression `key in data`.
HasKey(data, k) == data[k] # Absent \/ k \in Inherited

\* sortedEntries lists the keys of the object itself.
Own(data) == {k \in Keys : data[k] # Absent}

\* diffSecretKeys.
KeyDiffs(before, after) ==
    [k \in Keys |->
        IF k \in Own(after) /\ ~HasKey(before, k) THEN "added"
        ELSE IF k \in Own(after) /\ before[k] # after[k] THEN "changed"
        ELSE IF k \in Own(before) /\ ~HasKey(after, k) THEN "removed"
        ELSE "same"]

Statuses == {"added", "changed", "removed", "same"}
Diffs == [status : Statuses, keys : [Keys -> Statuses]]

All(data, status) == [k \in Keys |-> IF k \in Own(data) THEN status ELSE "same"]
AllSame == [k \in Keys |-> "same"]

Unchanged == [status |-> "same", keys |-> AllSame]

\* computeSecretsDiff: secrets and keys that are the same are left out.
Diff(current, incoming) ==
    [n \in Names |->
        IF current[n] = NoSecret /\ incoming[n] = NoSecret THEN Unchanged
        ELSE IF current[n] = NoSecret
        THEN [status |-> "added", keys |-> All(incoming[n], "added")]
        ELSE IF incoming[n] = NoSecret
        THEN [status |-> "removed", keys |-> All(current[n], "removed")]
        ELSE LET keys == KeyDiffs(current[n], incoming[n]) IN
             IF keys = AllSame THEN Unchanged
             ELSE [status |-> "changed", keys |-> keys]]

\* summarizePreview: "No change" when no counter of the summary has moved.
SaysNoChange(diff) == \A n \in Names : diff[n] = Unchanged

\* What a reader takes from it: a key that was there goes exactly when it is
\* called removed, one that was not comes when it is called added, and of the
\* others those called changed, and they alone, get another value.
Describes(diff, before, after) ==
    \A n \in Names :
        /\ (before[n] = NoSecret /\ after[n] # NoSecret) <=> diff[n].status = "added"
        /\ (before[n] # NoSecret /\ after[n] = NoSecret) <=> diff[n].status = "removed"
        /\ \A k \in Keys :
              LET old == IF before[n] = NoSecret THEN Absent ELSE before[n][k]
                  new == IF after[n] = NoSecret THEN Absent ELSE after[n][k]
              IN  diff[n].keys[k] =
                    IF old = new THEN "same"
                    ELSE IF old = Absent THEN "added"
                    ELSE IF new = Absent THEN "removed"
                    ELSE "changed"
=============================================================================
