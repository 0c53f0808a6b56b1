--------------------------- MODULE EmbeddingFleet ---------------------------
(***************************************************************************)
(* The embedding of the library (scripts/embeddings/worker): workers on    *)
(* other machines claim books at the server's gate (server/gate.sh), embed *)
(* them and put the vectors back (what becomes of the vectors is           *)
(* VectorLoader).  Inside a worker (worker.py) threads that claim and      *)
(* download, one that embeds and one that uploads hand the books on        *)
(* through bounded queues.  Workers crash, answers get lost, and a claim   *)
(* is given to another worker after three hours.                           *)
(***************************************************************************)
EXTENDS Integers, Sequences, FiniteSets, SequencesExt, TLC

CONSTANTS
    Manifest,       \* manifest.txt: the books, in order
    Workers, Fetchers,
    Spoilt,         \* the books that may be unreadable or too much for the model
    BooksMax, VectorsMax,           \* the sizes of the two queues
    MaxBreaks       \* bound: crashes, Ctrl-Cs, STOPs, lost answers, books slower than a claim

Books == ToSet(Manifest)

ASSUME FleetAssumption ==
    /\ Manifest \in Seq(Books) /\ IsInjective(Manifest) /\ Spoilt \subseteq Books
    /\ BooksMax \in Nat \ {0} /\ VectorsMax \in Nat \ {0}
    /\ MaxBreaks \in Nat

VARIABLES
    worker,     \* what each worker's process holds
    loop,       \* the workers whose run.sh runs
    stops,      \* the workers with a STOP file
    claims,     \* claims/{id}: the owner, and whether it is too old
    done, failed,   \* done/, failed/
    old,        \* books whose claim was once given to another
    breaks      \* for the bound

gate == <<claims, done, failed, old>>
shells == <<loop, stops>>
vars == <<worker, shells, gate, breaks>>

Nobody == [owner |-> "nobody"]
None == [none |-> TRUE]
Closing == [closing |-> TRUE]   \* the None that closes a queue

Off == [on |-> FALSE]
\* A process that has just released its claims and started its threads.  main
\* (until a Ctrl-C ends it) and uploader work on the heads of their queues, which
\* leave them when the work is done.
Fresh == [on |-> TRUE, main |-> TRUE, fetch |-> [f \in Fetchers |-> None],
          books |-> <<>>, vectors |-> <<>>]

On(w) == worker[w].on

Has(item) == item \notin {None, Closing}

\* The books in the worker's hands.
Held(w) ==
    IF ~On(w) THEN {}
    ELSE {item.book : item \in {i \in Range(worker[w].fetch) \union ToSet(worker[w].books)
                                      \union ToSet(worker[w].vectors) : Has(i)}}

Init ==
    /\ worker = [w \in Workers |-> Off]
    /\ loop = {} /\ stops = {}
    /\ claims = [b \in Books |-> Nobody]
    /\ done = {} /\ failed = {} /\ old = {}
    /\ breaks = 0

-----------------------------------------------------------------------------
(* The gate, each command as far as it runs under the lock of claims.      *)

Claimed == {b \in Books : claims[b] # Nobody}

\* Mutant: release looks at no owner.
EveryUnfinished(w) == Claimed \ done

Unfinished(w) == {b \in Claimed \ done : claims[b].owner = w}

\* Mutant: a claim lasts for ever.
NeverStale == {}

\* find -mmin +180
Stale == {b \in Claimed \ done : claims[b].aged}

\* What is neither claimed (by a claim that is not too old), done nor failed.
Free == Books \ ((Claimed \ Stale) \union done \union failed)

\* The first such book of the manifest.
NextBook == Manifest[CHOOSE k \in DOMAIN Manifest :
                        Manifest[k] \in Free /\ \A j \in 1 .. k - 1 : Manifest[j] \notin Free]

Released(S) == [b \in Books |-> IF b \in S THEN Nobody ELSE claims[b]]

GateFail(b) ==
    /\ failed' = failed \union {b}
    /\ claims' = Released({b})
    /\ UNCHANGED <<done, old>>

-----------------------------------------------------------------------------
(* The worker.                                                             *)

\* main begins: the worker's unfinished claims are given up.
Begin(w) ==
    /\ ~On(w)
    /\ worker' = [worker EXCEPT ![w] = Fresh]
    /\ claims' = Released(Unfinished(w))
    /\ UNCHANGED <<done, failed, old, breaks>>

\* sh run.sh, by hand: an old STOP file is removed.
Start(w) ==
    /\ w \notin loop /\ Begin(w)
    /\ loop' = loop \union {w} /\ stops' = stops \ {w}

\* run.sh starts the worker again after a crash.
Restart(w) ==
    /\ w \in loop /\ Begin(w)
    /\ UNCHANGED shells

\* fetcher: a book is claimed; the answer may not arrive, and then another is
\* asked for.
Claim(w, f) ==
    /\ On(w) /\ worker[w].fetch[f] = None /\ w \notin stops
    /\ Free # {}
    /\ claims' = [Released(Stale) EXCEPT ![NextBook] = [owner |-> w, aged |-> FALSE]]
    /\ old' = old \union Stale
    /\ \/ worker' = [worker EXCEPT ![w].fetch[f] = [book |-> NextBook]] /\ UNCHANGED breaks
       \/ breaks < MaxBreaks /\ breaks' = breaks + 1 /\ UNCHANGED worker
    /\ UNCHANGED <<shells, done, failed>>

\* Mutant: the books wait in a queue without an end.
RoomForAll(w) == TRUE

Room(w) == Len(worker[w].books) < BooksMax

\* Downloaded, as the file is now, and handed to main when there is room.
Fetch(w, f) ==
    /\ On(w) /\ Has(worker[w].fetch[f]) /\ Room(w)
    /\ LET b == worker[w].fetch[f].book IN
        worker' = [worker EXCEPT ![w].books = Append(@, [book |-> b]), ![w].fetch[f] = None]
    /\ UNCHANGED <<shells, gate, breaks>>

\* A file that cannot be read is given up.
FetchFails(w, f) ==
    /\ On(w) /\ Has(worker[w].fetch[f])
    /\ worker[w].fetch[f].book \in Spoilt
    /\ GateFail(worker[w].fetch[f].book)
    /\ worker' = [worker EXCEPT ![w].fetch[f] = None]
    /\ UNCHANGED <<shells, breaks>>

\* Mutant: every fetcher that ends closes the queue.
ClosesQueue(w, f) == TRUE

\* Only the last fetcher to end closes the queue.
IsLast(w, f) == \A g \in Fetchers \ {f} : worker[w].fetch[g] = Closing

\* The STOP file is there, or the gate answers DONE: this fetcher ends.
FetcherEnds(w, f) ==
    /\ On(w) /\ worker[w].fetch[f] = None
    /\ w \in stops \/ Free = {}
    /\ IF IsLast(w, f)
       THEN /\ Room(w)
            /\ worker' = [worker EXCEPT ![w].fetch[f] = Closing, ![w].books = Append(@, Closing)]
       ELSE worker' = [worker EXCEPT ![w].fetch[f] = Closing]
    /\ UNCHANGED <<shells, gate, breaks>>

\* main: a book is embedded and handed to the uploader, as is the end.
Embed(w) ==
    /\ On(w) /\ worker[w].main /\ worker[w].books # <<>> /\ Len(worker[w].vectors) < VectorsMax
    /\ worker' = [worker EXCEPT ![w].vectors = Append(@, Head(worker[w].books)), ![w].books = Tail(@)]
    /\ UNCHANGED <<shells, gate, breaks>>

EmbeddingFails(w) ==
    /\ On(w) /\ worker[w].main /\ worker[w].books # <<>> /\ Has(Head(worker[w].books))
    /\ Head(worker[w].books).book \in Spoilt
    /\ GateFail(Head(worker[w].books).book)
    /\ worker' = [worker EXCEPT ![w].books = Tail(@)]
    /\ UNCHANGED <<shells, breaks>>

\* What the uploader works on.
Up(w) == IF On(w) /\ worker[w].vectors # <<>> THEN Head(worker[w].vectors) ELSE None

\* put: the vectors have arrived, the book is done and unclaimed, by whomever
\* it was claimed meanwhile.  Without an answer the uploader sends them again.
Put(w) ==
    /\ Has(Up(w))
    /\ done' = done \union {Up(w).book}
    /\ claims' = Released({Up(w).book})
    /\ \/ worker' = [worker EXCEPT ![w].vectors = Tail(@)] /\ UNCHANGED breaks
       \/ breaks < MaxBreaks /\ breaks' = breaks + 1 /\ UNCHANGED worker
    /\ UNCHANGED <<shells, failed, old>>

\* Everything is uploaded: the process ends, with what its threads still hold,
\* and run.sh with it.
Exit(w) ==
    /\ Up(w) = Closing
    /\ worker' = [worker EXCEPT ![w] = Off]
    /\ loop' = loop \ {w}
    /\ UNCHANGED <<stops, gate, breaks>>

\* Anything may end a process where it stands; run.sh goes on.
Crash(w) ==
    /\ On(w) /\ breaks < MaxBreaks
    /\ breaks' = breaks + 1
    /\ worker' = [worker EXCEPT ![w] = Off]
    /\ UNCHANGED <<shells, gate>>

\* Ctrl-C ends main; the process waits for the uploader, which waits for main, and
\* the fetchers go on.
Interrupt(w) ==
    /\ On(w) /\ worker[w].main /\ breaks < MaxBreaks
    /\ breaks' = breaks + 1
    /\ worker' = [worker EXCEPT ![w].main = FALSE]
    /\ UNCHANGED <<shells, gate>>

\* Another Ctrl-C, or one between two processes, or the machine is switched off.
Quit(w) ==
    /\ w \in loop /\ breaks < MaxBreaks
    /\ breaks' = breaks + 1
    /\ worker' = [worker EXCEPT ![w] = Off]
    /\ loop' = loop \ {w}
    /\ UNCHANGED <<stops, gate>>

\* touch STOP
Stop(w) ==
    /\ w \in loop \ stops /\ breaks < MaxBreaks
    /\ breaks' = breaks + 1
    /\ stops' = stops \union {w}
    /\ UNCHANGED <<worker, loop, gate>>

FetchStep(w, f) == Claim(w, f) \/ Fetch(w, f) \/ FetchFails(w, f) \/ FetcherEnds(w, f)
MainStep(w) == Embed(w) \/ EmbeddingFails(w)
UploadStep(w) == Put(w) \/ Exit(w)

Breaks(w) == Crash(w) \/ Interrupt(w) \/ Quit(w) \/ Stop(w)

\* The worker is there and gets on.
Works(w) == On(w) /\ worker[w].main

\* STALE_MIN passes over a claim nobody works on,
Ages(b) ==
    /\ claims[b] # Nobody /\ ~claims[b].aged
    /\ b \in Held(claims[b].owner) => ~Works(claims[b].owner)
    /\ claims' = [claims EXCEPT ![b].aged = TRUE]
    /\ UNCHANGED <<worker, shells, done, failed, old, breaks>>

\* or over one whose worker needs longer than that.
Outlasted(b) ==
    /\ claims[b] # Nobody /\ ~claims[b].aged
    /\ b \in Held(claims[b].owner) /\ Works(claims[b].owner) /\ breaks < MaxBreaks
    /\ breaks' = breaks + 1
    /\ claims' = [claims EXCEPT ![b].aged = TRUE]
    /\ UNCHANGED <<worker, shells, done, failed, old>>

Next ==
    \/ \E w \in Workers : Start(w) \/ Restart(w) \/ MainStep(w) \/ UploadStep(w) \/ Breaks(w)
    \/ \E w \in Workers, f \in Fetchers : FetchStep(w, f)
    \/ \E b \in Books : Ages(b) \/ Outlasted(b)

Spec == Init /\ [][Next]_vars

\* Threads that can go on do, time passes, and run.sh starts its worker again after a
\* crash.  Nobody has to start a worker that ended.
Fairness ==
    /\ \A w \in Workers : WF_vars(MainStep(w)) /\ WF_vars(UploadStep(w))
    /\ \A w \in Workers, f \in Fetchers : WF_vars(FetchStep(w, f))
    /\ \A b \in Books : WF_vars(Ages(b))
    /\ \A w \in Workers : WF_vars(Restart(w))

FairSpec == Spec /\ Fairness

-----------------------------------------------------------------------------
(* Properties.                                                             *)

Item == [book : Books]

\* The shape of the fleet: what each thread and queue holds, and that the
\* queues keep their size.
FleetTypeOK ==
    /\ \A w \in Workers :
        \/ worker[w] = Off
        \/ /\ On(w) /\ worker[w].main \in BOOLEAN
           /\ worker[w].fetch \in [Fetchers -> [book : Books] \union {None, Closing}]
           /\ ToSet(worker[w].books) \subseteq Item \union {Closing} /\ Len(worker[w].books) <= BooksMax
           /\ ToSet(worker[w].vectors) \subseteq Item \union {Closing} /\ Len(worker[w].vectors) <= VectorsMax
    /\ claims \in [Books -> {Nobody} \union [owner : Workers, aged : BOOLEAN]]
    /\ done \subseteq Books /\ failed \subseteq Books /\ old \subseteq Books
    /\ loop \subseteq Workers /\ stops \subseteq Workers

\* Where a book stands in a worker.
Places(w, b) ==
    {<<"fetch", f>> : f \in {g \in Fetchers : worker[w].fetch[g] = [book |-> b]}}
    \union {<<"books", i>> : i \in {j \in DOMAIN worker[w].books : worker[w].books[j] = [book |-> b]}}
    \union {<<"vectors", i>> : i \in {j \in DOMAIN worker[w].vectors : worker[w].vectors[j] = [book |-> b]}}

\* Unless its claim went stale, a book is in one place of a worker's threads and
\* queues at most, and the worker holds the claim or the book is done (a put whose
\* answer was lost).
InOnePlace ==
    \A b \in Books \ old, w \in Workers :
        On(w) => /\ \A p, q \in Places(w, b) : p = q
                 /\ Places(w, b) # {} => claims[b].owner = w \/ b \in done

\* Unless a claim went stale, a book is in one worker's hands at most and ends
\* one way only: a worker that restarts gives up its own claims and no others
\* (gate.sh release).
OneWorkerPerBook ==
    /\ \A v, w \in Workers : v # w => Held(v) \intersect Held(w) \subseteq old
    /\ done \intersect failed \subseteq old

\* The worker ends when the uploader meets the end of its queue, and by then no
\* thread of it holds a book any more, whatever the fetchers were doing when
\* the first of them was told DONE (worker.py fetcher, main).
NothingLeftBehind ==
    \A w \in Workers : Up(w) = Closing => Held(w) = {}

\* All of these, with the shape of the queues: the books are shared out among workers
\* that crash, stop and restart (worker.py, gate.sh).
FleetHolds == FleetTypeOK /\ InOnePlace /\ OneWorkerPerBook /\ NothingLeftBehind

\* Whatever workers stop half way, every book ends, embedded or given up, or there is
\* a time from which nobody works: a worker that is told DONE ends while others, or
\* lost answers, hold claims, and nobody but a hand starts it again (run.sh).
EveryBookEnds ==
    (\A b \in Books : <>(b \in done \union failed)) \/ <>[](\A w \in Workers : ~Works(w))
=============================================================================
