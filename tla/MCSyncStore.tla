---------------------------- MODULE MCSyncStore -----------------------------
(* Small instances of SyncStore: two devices and one to three records. *)
EXTENDS SyncStore, TLC

CONSTANTS n1, c1, c2, m1, m2     \* keys: a note, its copies, two marks
CONSTANTS a, b                           \* texts
CONSTANTS p, q                           \* positions

OneNote == (n1 :> "note") @@ (c1 :> "note") @@ (c2 :> "note")
Marks  == (m1 :> "mark") @@ (m2 :> "mark")

TextSymmetry == Permutations({a, b})
CopySymmetry == Permutations({c1, c2})
NoteSymmetry == TextSymmetry \cup CopySymmetry
=============================================================================
