------------------------------ MODULE SyncMerge ------------------------------
(***************************************************************************)
(* The merge of one pushed item with the stored record of the same user,   *)
(* kind and key (app/services/sync_service.py).                            *)
(*                                                                         *)
(* A version's data is reduced to what the merge looks at: the text (title *)
(* and body; NoData for an empty dict and for the null of a deletion) and  *)
(* the manual order field (NoPos when the field is absent).  Times are     *)
(* numbers, NoTime (0) is a missing one.  Device ids are numbers in the    *)
(* order of the strings.  The nine record kinds fall into three classes:   *)
(* "note"; "folder" for noteFolder, session and sessionBook, which also    *)
(* carry a manual order; and "mark" for the five kinds that do not.        *)
(***************************************************************************)
EXTENDS Naturals

CONSTANTS Texts,       \* what a title and a body may say
          Blank,       \* the text of {"title": "", "bodyText": ""}
          NoData,      \* the text of an empty dict, and of null
          Positions,   \* values of sortIndex / position
          NoPos,       \* data without an order field
          Devices,     \* device ids, numbered in string order
          NoVersion    \* "nothing to write", "no copy", "no stored record"

ASSUME TextsOfNothing == Blank \in Texts /\ NoData \in Texts
ASSUME DevicesAreOrdered == Devices \subseteq Nat

NoTime == 0
Kinds == {"note", "folder", "mark"}
OrderedKinds == {"note", "folder"}
Statuses == {"applied", "older_ignored", "applied_with_copy", "older_ignored_with_copy"}

Version == [text : Texts, pos : Positions \cup {NoPos}, deleted : BOOLEAN,
            updated : Nat, ordered : Nat, device : Devices]

ASSUME NoVersionIsNone == NoVersion \notin Version

\* Is (time a, device ad) newer than (time b, device bd)?  No time is older than any.
Newer(a, ad, b, bd) == a # NoTime /\ (a > b \/ (a = b /\ ad > bd))

\* Mutants of ContentWins: a tie goes to the later arrival; the later arrival always wins.
TieGoesToLastArrival(stored, incoming) == incoming.updated >= stored.updated
LastArrivalWins(stored, incoming) == incoming.updated # NoTime

ContentWins(stored, incoming) ==
    Newer(incoming.updated, incoming.device, stored.updated, stored.device)

\* Mutant of OrderWins: the order field simply follows the content.
OrderFollowsContent(kind, stored, incoming) ==
    kind \in OrderedKinds /\ ContentWins(stored, incoming)

OrderWins(kind, stored, incoming) ==
    /\ kind \in OrderedKinds
    /\ Newer(incoming.ordered, incoming.device, stored.ordered, stored.device)

\* What the title and the text say: absent fields read as empty ones.
Content(v) == IF v.text = NoData THEN Blank ELSE v.text

\* Mutant of UnseenEdit: the very next change counts as seen.
UnseenEditOffByOne(kind, stored, storedSeq, incoming, base) ==
    /\ kind = "note"
    /\ ~stored.deleted /\ ~incoming.deleted
    /\ storedSeq > base + 1
    /\ Content(stored) # Content(incoming)

\* A live note pushed with another text by a device that had not seen the stored version.
UnseenEdit(kind, stored, storedSeq, incoming, base) ==
    /\ kind = "note"
    /\ ~stored.deleted /\ ~incoming.deleted
    /\ storedSeq > base
    /\ Content(stored) # Content(incoming)

\* The losing side's data is kept; `if copy` takes an empty dict for no copy at all.
Loser(stored, incoming) == IF ContentWins(stored, incoming) THEN stored ELSE incoming
EmptyData(v) == v.text = NoData /\ v.pos = NoPos

\* Mutant of Combined: the order time is stored in the order field.
CombinedMixesFields(kind, stored, incoming) ==
    [stored EXCEPT !.pos = IF OrderWins(kind, stored, incoming) THEN incoming.ordered ELSE @]

\* Content from the newer content, the order field from the newer order.
Combined(kind, stored, incoming) ==
    LET winner == IF ContentWins(stored, incoming) THEN incoming ELSE stored
        moved  == OrderWins(kind, stored, incoming)
        side   == IF moved THEN incoming ELSE stored
        takesOrder == kind \in OrderedKinds /\ ~winner.deleted /\ (side.pos # NoPos \/ moved)
    IN [winner EXCEPT !.pos     = IF takesOrder THEN side.pos ELSE winner.pos,
                      !.ordered = IF kind \in OrderedKinds THEN side.ordered ELSE winner.ordered,
                      !.device  = incoming.device]

StatusOf(applied, copied) ==
    IF applied THEN IF copied THEN "applied_with_copy" ELSE "applied"
               ELSE IF copied THEN "older_ignored_with_copy" ELSE "older_ignored"

\* merge(): the status answered, the version to store and the losing version to keep.
Merge(kind, stored, storedSeq, incoming, base) ==
    IF stored = NoVersion
    THEN [status |-> "applied", write |-> incoming, copy |-> NoVersion]
    ELSE LET content == ContentWins(stored, incoming)
             order   == OrderWins(kind, stored, incoming)
             copied  == UnseenEdit(kind, stored, storedSeq, incoming, base)
             kept    == copied /\ ~EmptyData(Loser(stored, incoming))
         IN [status |-> StatusOf(content \/ (order /\ ~kept), kept),
             write  |-> IF content \/ order THEN Combined(kind, stored, incoming) ELSE NoVersion,
             copy   |-> IF copied THEN Loser(stored, incoming) ELSE NoVersion]
=============================================================================
