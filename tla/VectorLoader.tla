---------------------------- MODULE VectorLoader ----------------------------
(***************************************************************************)
(* One book's vectors on the server: uploads that reach the gate           *)
(* (scripts/embeddings/worker/server/gate.sh put), several of them when a  *)
(* stale claim was given away or an upload is tried again while its first  *)
(* connection hangs, and the loader (server/loader.py) that takes the      *)
(* finished file into Qdrant.  The uploads write the file piece by piece,  *)
(* at offsets of their own, without a lock.  A text of the book is named   *)
(* by the number of chunks it is cut into: a replacement that keeps the    *)
(* number passes every check there is.                                     *)
(***************************************************************************)
EXTENDS Naturals, Sequences

CONSTANTS
    Senders,        \* uploads of the book
    NoFile,
    MaxChunks,      \* bound: texts 1 .. MaxChunks
    MaxCuts         \* bound: uploads cut short

ASSUME LoaderAssumption == MaxChunks \in Nat /\ NoFile \notin Seq(Nat)

VARIABLES
    chunks,     \* the book's text now
    put,        \* by sender: its text, how far its command is, the file it
                \* writes ("tmp", "inbox", or "lost": unlinked) and how much of it
    alive,      \* the senders whose worker still runs
    tmp, inbox, \* inbox/{id}.tmp, shared, and {id}.f16: a text for each chunk, 0 for a hole
    notes,      \* the chunks= of inbox/{id}.meta; 0 is no file
    isDone,     \* done/{id}
    loader,     \* load_book: what it has read
    taken,      \* "no", "loaded", "bad": the markers of loaded/
    points,     \* Qdrant: the vectors, and the text of the chunks stored with them
    met,        \* two uploads were at the temporary file at once
    cuts

loaderVars == <<chunks, put, alive, tmp, inbox, notes, isDone, loader, taken, points, met, cuts>>

Idle == [at |-> "idle", n |-> 0, cells |-> <<>>]

LoaderInit ==
    /\ chunks \in 1 .. MaxChunks
    /\ \E text \in [Senders -> 1 .. MaxChunks] :
        put = [s \in Senders |-> [of |-> text[s], at |-> "ready", file |-> "lost", sent |-> 0]]
    /\ alive = Senders
    /\ tmp = NoFile /\ inbox = NoFile /\ notes = 0
    /\ isDone = FALSE /\ loader = Idle /\ taken = "no" /\ points = [cells |-> <<>>, of |-> 0]
    /\ met = FALSE /\ cuts = 0

At(s, from, to) == put[s].at = from /\ put' = [put EXCEPT ![s].at = to]

\* From the opening of the temporary file to its mv or rm.
AtFile(s) == put[s].at \in {"writing", "received", "whole"}

\* > tmp: the file that has the name is emptied, or there is a new one.
Open(s) ==
    /\ s \in alive /\ put[s].at = "ready"
    /\ put' = [put EXCEPT ![s] = [of |-> @.of, at |-> "writing", file |-> "tmp", sent |-> 0]]
    /\ tmp' = <<>>
    /\ met' = (met \/ \E t \in Senders \ {s} : AtFile(t))
    /\ UNCHANGED <<chunks, alive, inbox, notes, isDone, loader, taken, points, cuts>>

\* A chunk of text x written at position k of a file, which may leave a hole before it.
Over(f, k, x) ==
    [i \in 1 .. (IF k > Len(f) THEN k ELSE Len(f)) |->
        IF i = k THEN x ELSE IF i <= Len(f) THEN f[i] ELSE 0]

\* head -c: the next piece is written where this upload stands in its file, which may
\* have been renamed or removed meanwhile.
Write(s) ==
    /\ s \in alive /\ put[s].at = "writing" /\ put[s].sent < put[s].of
    /\ put' = [put EXCEPT ![s].sent = @ + 1]
    /\ tmp' = IF put[s].file = "tmp" THEN Over(tmp, put[s].sent + 1, put[s].of) ELSE tmp
    /\ inbox' = IF put[s].file = "inbox" THEN Over(inbox, put[s].sent + 1, put[s].of) ELSE inbox
    /\ UNCHANGED <<chunks, alive, notes, isDone, loader, taken, points, met, cuts>>

\* head has all it was told to read,
Received(s) ==
    /\ put[s].sent = put[s].of /\ At(s, "writing", "received")
    /\ UNCHANGED <<chunks, alive, tmp, inbox, notes, isDone, loader, taken, points, met, cuts>>

\* or the connection breaks.
Cut(s) ==
    /\ At(s, "writing", "received") /\ put[s].sent < put[s].of
    /\ s \in alive => cuts < MaxCuts
    /\ cuts' = IF s \in alive THEN cuts + 1 ELSE cuts
    /\ UNCHANGED <<chunks, alive, tmp, inbox, notes, isDone, loader, taken, points, met>>

\* The worker stops for ever; its command on the server goes on, perhaps waiting for more.
Dies(s) ==
    /\ s \in alive
    /\ alive' = alive \ {s}
    /\ UNCHANGED <<chunks, put, tmp, inbox, notes, isDone, loader, taken, points, met, cuts>>

\* The uploads that write the file at one name now write it at another, or nowhere.
Renamed(s, at, where) ==
    [t \in Senders |-> [put[t] EXCEPT !.at = IF t = s THEN at ELSE @,
                                      !.file = IF @ \in DOMAIN where THEN where[@] ELSE @]]

\* Mutant: a SHORT upload goes on without its file.
GoesOn == "whole"

\* exit 4 is no answer of PERMANENT: the uploader sends the book again.
AfterShort == "ready"

\* The size of the file that has the name now is looked at; a SHORT one is removed.
CheckSize(s) ==
    /\ put[s].at = "received"
    /\ IF tmp # NoFile /\ Len(tmp) = put[s].of
       THEN At(s, "received", "whole") /\ UNCHANGED tmp
       ELSE put' = Renamed(s, AfterShort, [tmp |-> "lost"]) /\ tmp' = NoFile
    /\ UNCHANGED <<chunks, alive, inbox, notes, isDone, loader, taken, points, met, cuts>>

\* mv; there is no set -e, and a file another upload has taken away changes
\* nothing but the inbox.
Move(s) ==
    /\ put[s].at = "whole"
    /\ IF tmp = NoFile THEN At(s, "whole", "moved") /\ UNCHANGED inbox
       ELSE put' = Renamed(s, "moved", [tmp |-> "inbox", inbox |-> "lost"]) /\ inbox' = tmp
    /\ tmp' = NoFile
    /\ UNCHANGED <<chunks, alive, notes, isDone, loader, taken, points, met, cuts>>

Describe(s) ==
    /\ At(s, "moved", "described")
    /\ notes' = put[s].of
    /\ UNCHANGED <<chunks, alive, tmp, inbox, isDone, loader, taken, points, met, cuts>>

MarkDone(s) ==
    /\ At(s, "described", "over")
    /\ isDone' = TRUE
    /\ UNCHANGED <<chunks, alive, tmp, inbox, notes, loader, taken, points, met, cuts>>

PutStep(s) ==
    Open(s) \/ Write(s) \/ Received(s) \/ CheckSize(s) \/ Move(s) \/ Describe(s) \/ MarkDone(s)

\* The book is replaced by a text of another number of chunks.
Replace ==
    /\ chunks' \in (1 .. MaxChunks) \ {chunks}
    /\ UNCHANGED <<put, alive, tmp, inbox, notes, isDone, loader, taken, points, met, cuts>>

-----------------------------------------------------------------------------
\* load_book, of a file in the inbox that was neither loaded nor set aside: a book that
\* fails a check is set aside.
Aside ==
    /\ taken' = "bad" /\ loader' = Idle
    /\ UNCHANGED <<chunks, put, alive, tmp, inbox, notes, isDone, points, met, cuts>>

ReadMeta ==
    /\ inbox # NoFile /\ taken = "no" /\ loader.at = "idle"
    /\ IF notes = 0 THEN Aside
       ELSE /\ loader' = [at |-> "noted", n |-> notes, cells |-> <<>>]
            /\ UNCHANGED <<chunks, put, alive, tmp, inbox, notes, isDone, taken, points, met, cuts>>

ReadVectors ==
    /\ loader.at = "noted"
    /\ IF Len(inbox) # loader.n THEN Aside
       ELSE /\ loader' = [at |-> "read", n |-> loader.n, cells |-> inbox]
            /\ UNCHANGED <<chunks, put, alive, tmp, inbox, notes, isDone, taken, points, met, cuts>>

\* Mutant: the book is not cut again to compare.
NoComparison == TRUE

\* The book, cut now, has as many chunks as there are vectors.
Matches == chunks = loader.n

StorePoints ==
    /\ loader.at = "read"
    /\ IF ~Matches THEN Aside
       ELSE /\ points' = [cells |-> loader.cells, of |-> chunks]
            /\ taken' = "loaded" /\ loader' = Idle
            /\ UNCHANGED <<chunks, put, alive, tmp, inbox, notes, isDone, met, cuts>>

LoadStep == ReadMeta \/ ReadVectors \/ StorePoints

LoaderNext == (\E s \in Senders : PutStep(s) \/ Cut(s) \/ Dies(s)) \/ Replace \/ LoadStep

-----------------------------------------------------------------------------
\* Unless two uploads were at the temporary file at once, what is loaded are the
\* vectors of the very text that is loaded with them, however often uploads were cut
\* short or left by their worker, one after the other, and however the book was
\* replaced meanwhile (gate.sh put, loader.py load_book).
LoadedIsWhole ==
    taken = "loaded" /\ ~met => \A i \in 1 .. Len(points.cells) : points.cells[i] = points.of

\* The vectors of a book that is marked done end loaded or set aside, unless two uploads
\* met and one of them was left by its worker (gate.sh put, worker.py uploader).
DoneIsTaken == isDone ~> (taken # "no" \/ (met /\ alive # Senders))
=============================================================================
