-------------------------- MODULE MCEmbeddingFleet --------------------------
(***************************************************************************)
(* Two scenes: the fleet, with two books, the second of which may be       *)
(* unreadable, two workers with two fetchers each, and queues of one; and  *)
(* the server with one book of up to two chunks, two uploads of it and one *)
(* upload cut short.                                                       *)
(***************************************************************************)
EXTENDS EmbeddingFleet, VectorLoader

CONSTANTS b1, b2, w1, w2

ManifestDef == <<b1, b2>>

VARIABLE scene

mcVars == <<scene, vars, loaderVars>>

NoLoader ==
    /\ chunks = 1 /\ put = <<>> /\ alive = Senders /\ tmp = NoFile /\ inbox = NoFile /\ notes = 0
    /\ isDone = FALSE /\ loader = Idle /\ taken = "no" /\ points = [cells |-> <<>>, of |-> 0]
    /\ met = FALSE /\ cuts = 0

MCInit ==
    \/ scene = "fleet" /\ Init /\ NoLoader
    \/ scene = "server" /\ LoaderInit /\ Init

OfTheFleet(A) == scene = "fleet" /\ A /\ UNCHANGED <<scene, loaderVars>>
OfTheServer(A) == scene = "server" /\ A /\ UNCHANGED <<scene, vars>>

MCNext ==
    \/ \E w \in Workers :
        OfTheFleet(Start(w) \/ Restart(w) \/ MainStep(w) \/ UploadStep(w) \/ Breaks(w))
    \/ \E w \in Workers, f \in Fetchers : OfTheFleet(FetchStep(w, f))
    \/ \E b \in Books : OfTheFleet(Ages(b) \/ Outlasted(b))
    \/ \E s \in Senders : OfTheServer(PutStep(s) \/ Cut(s) \/ Dies(s))
    \/ OfTheServer(Replace)
    \/ OfTheServer(LoadStep)

\* The fairness of EmbeddingFleet; on the server every command goes on while its worker
\* sends, or has sent, and the loader looks at the inbox again and again.
MCFairness ==
    /\ \A w \in Workers : /\ WF_mcVars(OfTheFleet(MainStep(w))) /\ WF_mcVars(OfTheFleet(UploadStep(w)))
                          /\ WF_mcVars(OfTheFleet(Restart(w)))
    /\ \A w \in Workers, f \in Fetchers : WF_mcVars(OfTheFleet(FetchStep(w, f)))
    /\ \A b \in Books : WF_mcVars(OfTheFleet(Ages(b)))
    /\ \A s \in Senders : WF_mcVars(OfTheServer(PutStep(s)))
    /\ WF_mcVars(OfTheServer(LoadStep))

MCFairSpec == MCInit /\ [][MCNext]_mcVars /\ MCFairness

\* EmbeddingFleet's EveryBookEnds in the fleet's scene: as long as some worker gets on
\* again and again every book ends, embedded or given up, whatever workers stop half
\* way (run.sh, gate.sh claim and release).
BooksEnd == scene = "fleet" => EveryBookEnds

=============================================================================
