----------------------------- MODULE ChangeFeed -----------------------------
(***************************************************************************)
(* What a change feed read by cursor promises, without saying how: rows    *)
(* carry the sequence number of their latest change, a reader asks for     *)
(* everything after its cursor, and a row the cursor has passed is a row   *)
(* the reader holds in its latest version.                                 *)
(***************************************************************************)
EXTENDS Naturals

CONSTANTS Keys,      \* the identities of the rows
          Readers    \* who reads the feed

VARIABLES rows,      \* key -> sequence number of its latest change, 0 for no row
          cursor,    \* reader -> the cursor it was last given
          held       \* reader -> key -> sequence number of the version it holds

vars == <<rows, cursor, held>>

Init ==
    /\ rows = [k \in Keys |-> 0]
    /\ cursor = [r \in Readers |-> 0]
    /\ held = [r \in Readers |-> [k \in Keys |-> 0]]

\* Some rows change at once; each changed row moves past every row there is.
Publish ==
    /\ rows' \in [Keys -> Nat]
    /\ \A k \in Keys : rows'[k] # rows[k] => \A j \in Keys : rows'[k] > rows[j]
    /\ UNCHANGED <<cursor, held>>

\* A reader receives the rows after its cursor up to the row it stops at.
Advance(r) ==
    \E stop \in {cursor[r]} \cup {rows[k] : k \in Keys} :
        /\ stop >= cursor[r]
        /\ cursor' = [cursor EXCEPT ![r] = stop]
        /\ held' = [held EXCEPT ![r] =
              [k \in Keys |-> IF cursor[r] < rows[k] /\ rows[k] <= stop
                              THEN rows[k] ELSE held[r][k]]]
        /\ UNCHANGED rows

Next == Publish \/ \E r \in Readers : Advance(r)

Spec == Init /\ [][Next]_vars

-----------------------------------------------------------------------------
TypeOK ==
    /\ rows \in [Keys -> Nat]
    /\ cursor \in [Readers -> Nat]
    /\ held \in [Readers -> [Keys -> Nat]]

\* A row the cursor has passed is held in its latest version.
NothingMissed ==
    \A r \in Readers, k \in Keys : rows[k] <= cursor[r] => held[r][k] = rows[k]

\* No cursor is ahead of the feed, so the next change always lies after it.
CursorReached ==
    \A r \in Readers : cursor[r] = 0 \/ \E k \in Keys : rows[k] >= cursor[r]
=============================================================================
