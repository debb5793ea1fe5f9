----------------------------- MODULE PromptDiff -----------------------------
(***************************************************************************)
(* The comparison of two prompts that a version's page shows: a prompt is  *)
(* a sequence of lines, a line a sequence of words, where blanks are words *)
(* of their own; lines that differ only in the blanks at their end are the *)
(* same.  How the lines are coloured is left out.                          *)
(***************************************************************************)
EXTENDS Integers, Sequences, SequencesExt, FiniteSetsExt

CONSTANT Blank      \* a word that is white space

(* The line without the blanks at its end.                                 *)
TrimEnd(line) ==
    SubSeq(line, 1, Max({0} \cup {i \in DOMAIN line : line[i] # Blank}))

Trimmed(lines) == [k \in DOMAIN lines |-> TrimEnd(lines[k])]

(* The lengths of the longest common subsequences of all beginnings.       *)
Lengths(a, b) ==
    LET dp[p \in (0 .. Len(a)) \X (0 .. Len(b))] ==
            IF p[1] = 0 \/ p[2] = 0 THEN 0
            ELSE IF a[p[1]] = b[p[2]] THEN dp[<<p[1] - 1, p[2] - 1>>] + 1
            ELSE LET up == dp[<<p[1] - 1, p[2]>>]  left == dp[<<p[1], p[2] - 1>>]
                 IN  IF up > left THEN up ELSE left
    IN  dp

Entry(type, content) == [type |-> type, content |-> content]

(* Mutant: what was added is taken first, however much is the same.        *)
BacktrackGreedily(a, b, keys) ==
    LET diff[p \in (0 .. Len(a)) \X (0 .. Len(b))] ==
            LET i == p[1]  j == p[2]
            IN  IF i = 0 /\ j = 0 THEN <<>>
                ELSE IF i > 0 /\ j > 0 /\ keys[1][i] = keys[2][j]
                THEN Append(diff[<<i - 1, j - 1>>], Entry("unchanged", a[i]))
                ELSE IF j > 0
                THEN Append(diff[<<i, j - 1>>], Entry("added", b[j]))
                ELSE Append(diff[<<i - 1, j>>], Entry("removed", a[i]))
    IN  diff[<<Len(a), Len(b)>>]

(* From the ends of both sequences to their beginnings; what has the same  *)
(* key is shown as it is in the old one.                                   *)
Backtrack(a, b, keys) ==
    LET dp == Lengths(keys[1], keys[2])
        diff[p \in (0 .. Len(a)) \X (0 .. Len(b))] ==
            LET i == p[1]  j == p[2]
            IN  IF i = 0 /\ j = 0 THEN <<>>
                ELSE IF i > 0 /\ j > 0 /\ keys[1][i] = keys[2][j]
                THEN Append(diff[<<i - 1, j - 1>>], Entry("unchanged", a[i]))
                ELSE IF j > 0 /\ (i = 0 \/ dp[<<i, j - 1>>] >= dp[<<i - 1, j>>])
                THEN Append(diff[<<i, j - 1>>], Entry("added", b[j]))
                ELSE Append(diff[<<i - 1, j>>], Entry("removed", a[i]))
    IN  diff[<<Len(a), Len(b)>>]

(* The words of a line, those with the same mark put together.             *)
MergeSegments(words) ==
    FoldLeft(LAMBDA out, w :
                 IF out # <<>> /\ Last(out).changed = w.changed
                 THEN [out EXCEPT ![Len(out)].words = @ \o w.words]
                 ELSE Append(out, w), <<>>, words)

(* The words of both lines, marked where they changed.                     *)
InlineDiff(old, new) ==
    LET diff == Backtrack(old, new, <<old, new>>)
        Side(type) ==
            LET mine == SelectSeq(diff, LAMBDA d : d.type \in {type, "unchanged"})
            IN  MergeSegments([k \in DOMAIN mine |->
                     [words |-> <<mine[k].content>>, changed |-> mine[k].type = type]])
    IN  [old |-> Side("removed"), new |-> Side("added")]

(* The lines, and for a removed line that is followed by an added one the  *)
(* words that changed, when some did not.                                  *)
LineDiff(old, new) ==
    LET lines == Backtrack(old, new, <<Trimmed(old), Trimmed(new)>>)
        pairs == {k \in 1 .. Len(lines) - 1 :
                      lines[k].type = "removed" /\ lines[k + 1].type = "added"}
        words == [k \in pairs |-> InlineDiff(lines[k].content, lines[k + 1].content)]
        Some(segments) == \E s \in Range(segments) : ~s.changed
        partial == {k \in pairs : Some(words[k].old) /\ Some(words[k].new)}
    IN  [k \in DOMAIN lines |->
            [type |-> lines[k].type, content |-> lines[k].content,
             inline |-> IF k \in partial THEN words[k].old
                        ELSE IF k - 1 \in partial THEN words[k - 1].new
                        ELSE <<>>]]

(* What is read in a line: its words when some of them are marked.         *)
LineShown(d) ==
    IF d.inline # <<>> THEN FlattenSeq([k \in DOMAIN d.inline |-> d.inline[k].words])
    ELSE d.content

-----------------------------------------------------------------------------
(* What a comparison must show, whatever way it is computed.               *)

(* Sets of pairs of places that match and do not cross.                    *)
Matchings(a, b) ==
    {m \in SUBSET {p \in (DOMAIN a) \X (DOMAIN b) : TrimEnd(a[p[1]]) = TrimEnd(b[p[2]])} :
         \A p, q \in m : p # q => (p[1] - q[1]) * (p[2] - q[2]) > 0}

(* The old prompt can be read in the lines that are not added, the new     *)
(* one, but for blanks at the ends of lines, in those that are not         *)
(* removed, and no more lines are marked than needed.                      *)
ShowsBoth(diff, old, new) ==
    LET But(type) == SelectSeq(diff, LAMBDA d : d.type # type)
        Read(d) == [k \in DOMAIN d |-> LineShown(d[k])]
    IN  /\ Read(But("added")) = old
        /\ Trimmed(Read(But("removed"))) = Trimmed(new)
        /\ Cardinality({k \in DOMAIN diff : diff[k].type = "unchanged"}) =
               Max({Cardinality(m) : m \in Matchings(old, new)})
=============================================================================
