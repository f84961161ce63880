------------------------------ MODULE EnvText ------------------------------
(***************************************************************************)
(* A secret leaves the application as a .env file (secrets/SecretEnv.ts)    *)
(* and comes back pasted into the editor (utils/secret-import.ts), maybe    *)
(* after somebody has arranged it as such files are by hand.                *)
(*                                                                         *)
(* A text is a sequence of characters, of which each class that one of the  *)
(* two functions tells apart has one; a name, and the word "export", count  *)
(* as one character.                                                        *)
(***************************************************************************)
EXTENDS Naturals, SequencesExt

CONSTANTS
    Keys,        \* names of keys
    EnvSafe,     \* those that match ENV_KEY_PATTERN
    Chars,       \* of values
    Secrets,     \* the data that may be exported
    None,        \* nothing has been exported, nothing imported
    Refused      \* the export or the import ends with an error

\* The word that may stand before a key, and characters by their meaning.
Export == "export"
Known  == {"a", "n", "r", "t", "u", "0", "1", "\"", "'", "\\", "#", "=",
           "space", "LF", "CR", "tab", "control", "nbsp"}
Other  == "other"      \* a character that no exported value holds

ASSUME KeysAreWords == Keys \cap (Known \cup {Export, Other}) = {}
ASSUME CharsAreKnown == Chars \subseteq Known /\ EnvSafe \subseteq Keys
ASSUME SecretsAreData ==
    \A d \in Secrets : \E K \in SUBSET Keys :
                          IsFiniteSet(K) /\ d \in [K -> Seq(Chars)]

VARIABLES
    data,        \* of the secret that is exported
    text,        \* the file
    rows         \* what the editor has of it: its keys and their values

vars == <<data, text, rows>>

LineEnds == {"LF", "CR"}
Controls == {"LF", "CR", "tab", "control"}
Blanks   == {"space", "tab", "nbsp"}       \* String.prototype.trim, in a line
Hex      == {"a", "0", "1"}

-----------------------------------------------------------------------------
(* secretDataToEnvContent                                                  *)

\* The characters for which a value is quoted (needsQuoting).
Special == Controls \cup {"space", "\"", "'", "\\", "#", "="}

NeedsQuoting(value) == value = <<>> \/ \E i \in DOMAIN value : value[i] \in Special

Escaped(c) ==
    CASE c = "\\" -> <<"\\", "\\">>
      [] c = "\"" -> <<"\\", "\"">>
      [] c = "LF" -> <<"\\", "n">>
      [] c = "CR" -> <<"\\", "r">>
      [] c = "tab" -> <<"\\", "t">>
      [] c = "control" -> <<"\\", "u", "0", "0", "0", "1">>
      [] OTHER -> <<c>>

\* escapeEnvValue.
EscapedValue(value) ==
    IF ~NeedsQuoting(value) THEN value
    ELSE <<"\"">> \o FlattenSeq([i \in DOMAIN value |-> Escaped(value[i])])
         \o <<"\"">>

\* One line for each key, in the order of the object.
EnvLines(d) ==
    [i \in 1..Cardinality(DOMAIN d) |->
        LET k == SetToSeq(DOMAIN d)[i] IN <<k, "=">> \o EscapedValue(d[k])]

\* A line end after each line.
Joined(lines) ==
    FlattenSeq([i \in DOMAIN lines |-> lines[i] \o <<"LF">>])

\* secretDataToEnvContent.
EnvContent(d) == IF DOMAIN d \subseteq EnvSafe THEN Joined(EnvLines(d)) ELSE Refused

-----------------------------------------------------------------------------
(* parseSecretImport of a text that does not begin like JSON               *)

Trim(s) ==
    LET kept == {i \in DOMAIN s : s[i] \notin Blanks}
    IN  IF kept = {} THEN <<>> ELSE SubSeq(s, Min(kept), Max(kept))

\* The places where a line begins; between CR and LF there is an empty one, which
\* is passed over like any other.
Starts(s) == {p \in 1..(Len(s) + 1) : p = 1 \/ s[p - 1] \in LineEnds}

LineAt(s, p) ==
    LET end == Min({q \in p..Len(s) : s[q] \in LineEnds} \cup {Len(s) + 1})
    IN  SubSeq(s, p, end - 1)

EscapeOf(c) ==
    CASE c = "n" -> <<"LF">> [] c = "r" -> <<"CR">> [] c = "t" -> <<"tab">>
      [] c \in {"\"", "\\"} -> <<c>>
      [] OTHER -> <<"\\", c>>

CharacterOf(hex) == IF hex = <<"0", "0", "0", "1">> THEN "control" ELSE Other

\* Mutant: one kind of escape after the other, the backslash last.
UnescapedInPasses(s) ==
    LET pass(t, c) == ReplaceAllSubSeqs(EscapeOf(c), <<"\\", c>>, t)
    IN  pass(pass(pass(pass(pass(s, "n"), "r"), "t"), "\""), "\\")

\* unescapeDoubleQuoted: in one pass from the left.
Unescaped(s) ==
    LET from[i \in 1..(Len(s) + 1)] ==
            IF i > Len(s) THEN <<>>
            ELSE IF s[i] # "\\" \/ i = Len(s) THEN <<s[i]>> \o from[i + 1]
            ELSE IF s[i + 1] = "u" /\ i + 5 <= Len(s)
                    /\ \A j \in (i + 2)..(i + 5) : s[j] \in Hex
            THEN <<CharacterOf(SubSeq(s, i + 2, i + 5))>> \o from[i + 6]
            ELSE EscapeOf(s[i + 1]) \o from[i + 2]
    IN  from[1]

Within(s, quote) ==
    Len(s) >= 2 /\ s[1] = quote /\ s[Len(s)] = quote

Unquoted(s) ==
    CASE Within(s, "'")  -> SubSeq(s, 2, Len(s) - 1)
      [] Within(s, "\"") -> Unescaped(SubSeq(s, 2, Len(s) - 1))
      [] OTHER -> s

Unexported(line) ==
    IF Len(line) >= 2 /\ line[1] = Export /\ line[2] = "space"
    THEN Trim(SubSeq(line, 3, Len(line))) ELSE line

\* A line is divided at its first sign of equality.
Signs(l) == {i \in DOMAIN l : l[i] = "="}
KeyOf(l) == Trim(SubSeq(l, 1, Min(Signs(l)) - 1))
ValueOf(l) == Unquoted(Trim(SubSeq(l, Min(Signs(l)) + 1, Len(l))))

IsAssignment(l) == Signs(l) # {} /\ \E k \in EnvSafe : KeyOf(l) = <<k>>

\* Of several values of a key the last one wins.
LastWins(lines, p) ==
    \A q \in DOMAIN lines : q > p => KeyOf(lines[q]) # KeyOf(lines[p])

\* parseEnvImport.
Imported(t) ==
    LET line == [p \in Starts(t) |-> Trim(LineAt(t, p))]
        kept == {p \in Starts(t) : line[p] # <<>> /\ line[p][1] # "#"}
        all  == [p \in kept |-> Unexported(line[p])]
        last(k) == CHOOSE p \in kept : KeyOf(all[p]) = <<k>> /\ LastWins(all, p)
    IN  IF kept = {} \/ \E p \in kept : ~IsAssignment(all[p]) THEN Refused
        ELSE [k \in {KeyOf(all[p])[1] : p \in kept} |-> ValueOf(all[last(k)])]

-----------------------------------------------------------------------------
Init == data \in Secrets /\ text = None /\ rows = None

\* Copy as .env, or the export endpoint.
ExportSecret ==
    /\ text = None
    /\ text' = EnvContent(data)
    /\ UNCHANGED <<data, rows>>

Exported == text \notin {None, Refused} /\ rows = None

\* By hand: lines can be exported to the shell, end as on Windows, be indented,
\* follow comments and empty lines, or follow lines of other values of a key.
Prefixed(lines)  == [i \in DOMAIN lines |-> <<Export, "space">> \o lines[i]]
Windows(lines)   == [i \in DOMAIN lines |-> lines[i] \o <<"CR">>]
Indented(lines)  == [i \in DOMAIN lines |-> <<"tab">> \o lines[i] \o <<"space">>]
Commented(lines) == << <<"#", "a", "=">>, <<>> >> \o lines
Repeated(lines)  == [i \in DOMAIN lines |-> <<lines[i][1], "=", "a">>] \o lines

Arrangements(lines) ==
    {Prefixed(lines), Windows(lines), Indented(lines), Commented(lines),
     Repeated(lines)}

Arrange ==
    /\ Exported
    /\ text = EnvContent(data)
    /\ \E lines \in Arrangements(EnvLines(data)) : text' = Joined(lines)
    /\ UNCHANGED <<data, rows>>

\* importSecretRows: the rows of the editor are replaced, or stay.
ImportText ==
    /\ Exported
    /\ rows' = Imported(text)
    /\ UNCHANGED <<data, text>>

Next == ExportSecret \/ Arrange \/ ImportText

Spec == Init /\ [][Next]_vars

-----------------------------------------------------------------------------
(* Properties.                                                             *)

\* String.prototype.trim takes more for a blank than needsQuoting does.
LosesBlanks(value) == ~NeedsQuoting(value) /\ Trim(value) # value

\* What the import reads from an exported file is the data that was exported,
\* also after the file was arranged by hand; only the file of a secret without
\* keys is refused, which has nothing to import.  Values that begin or end with
\* a blank of another script are excepted.
ImportRestores ==
    rows # None /\ (\A k \in DOMAIN data : ~LosesBlanks(data[k]))
        => rows = IF DOMAIN data = {} THEN Refused ELSE data

\* Without the exception it does not hold: a no-break space at an end of a
\* value is exported without quotes, and trimmed by the import.
ImportRestoresAll ==
    rows # None /\ DOMAIN data # {} => rows = data
=============================================================================
