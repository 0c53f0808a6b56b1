----------------------------- MODULE WordNumbers -----------------------------
(***************************************************************************)
(* The labels Word makes for numbered paragraphs (doc_to_json_v2.py        *)
(* _DocxNumbering): the file has a paragraph's list and level, the counts  *)
(* are the reader's.  A label shows the numbers of its level and of the    *)
(* levels above it; letters and bullets are left to their numbers.         *)
(***************************************************************************)
EXTENDS Naturals, Sequences, SequencesExt, FiniteSets, FiniteSetsExt

CONSTANTS
    Lists,      \* numId's, of each the numbers its levels start with
    MaxItems

VARIABLES
    counters,   \* of each list met, the count of each level; 0: none
    items,      \* the numbered paragraphs read: [list, level]
    labels      \* and their labels

numberVars == <<counters, items, labels>>

Levels(l) == DOMAIN Lists[l]

NumbersAssumption == \A l \in DOMAIN Lists : \A k \in Levels(l) : Lists[l][k] \in Nat \ {0}

NumbersInit ==
    /\ counters = [l \in DOMAIN Lists |-> [k \in Levels(l) |-> 0]]
    /\ items = <<>> /\ labels = <<>>

\* Mutant: the deeper levels go on where they were.
GoesOn(l, level) ==
    [counters[l] EXCEPT ![level] = IF @ # 0 THEN @ + 1 ELSE Lists[l][level]]

\* One more, or the level's start; the deeper levels begin again.
Counted(l, level) ==
    [k \in Levels(l) |->
        IF k > level THEN 0
        ELSE IF k < level THEN counters[l][k]
        ELSE IF counters[l][k] # 0 THEN counters[l][k] + 1 ELSE Lists[l][k]]

\* %k: the count of the level, or its start where no paragraph of it was met.
Rendered(l, level, counts) ==
    [k \in 1 .. level |-> IF counts[k] # 0 THEN counts[k] ELSE Lists[l][k]]

Label(l, level) ==
    /\ Len(items) < MaxItems
    /\ items' = Append(items, [list |-> l, level |-> level])
    /\ counters' = [counters EXCEPT ![l] = Counted(l, level)]
    /\ labels' = Append(labels, Rendered(l, level, counters'[l]))

NumbersNext == \E l \in DOMAIN Lists : \E level \in Levels(l) : Label(l, level)

-----------------------------------------------------------------------------
\* The items of the list at a level under the same item of the level above, up to i.
Siblings(i, level) ==
    {j \in 1 .. i :
        /\ items[j].list = items[i].list /\ items[j].level = level
        /\ \A k \in j .. i : items[k].list = items[i].list => items[k].level >= level}

\* A label tells where its paragraph stands: its place among the paragraphs of its
\* level under the same one above, and the same of those above it, whatever lists
\* and deeper levels come between ("without them 1- ... 2- ... read as run-on
\* sentences", _DocxNumbering).
LabelsArePlaces ==
    \A i \in 1 .. Len(items) : \A level \in 1 .. items[i].level :
        labels[i][level] =
            Lists[items[i].list][level] + Max({1, Cardinality(Siblings(i, level))}) - 1
=============================================================================
