------------------------------ MODULE MCCatalog ------------------------------
(***************************************************************************)
(* Two scenes of the catalog's writers: clients of the change feed, and    *)
(* clients that keep a category's books and check its version, who have    *)
(* one book more from the start and one number more to draw.               *)
(***************************************************************************)
EXTENDS CatalogFeed

VARIABLES scene, step, read, shelf

Shelves == INSTANCE CatalogVersions WITH Seeded <- Books, MaxSeq <- MaxSeq + 1

ASSUME Shelves!AgeIsBounded

mcVars == <<scene, vars, step, read, shelf>>

NobodyAsks ==
    /\ floor = 0
    /\ stage = [c \in Clients |-> "idle"] /\ current = [c \in Clients |-> 0]
    /\ page = [c \in Clients |-> {}] /\ cursor = [c \in Clients |-> 0]
    /\ copy = [c \in Clients |-> [b \in Books |-> Gone]]

NobodyChecks ==
    /\ step = [c \in Clients |-> "idle"] /\ read = [c \in Clients |-> 0]
    /\ shelf = [c \in Clients |-> [version |-> 0, books |-> Shelves!NoContents]]

FeedInit == scene = "feed" /\ Init /\ NobodyChecks
ShelvesInit == scene = "shelves" /\ Shelves!Init /\ NobodyAsks

InFeed(A) == scene = "feed" /\ A /\ UNCHANGED <<scene, step, read, shelf>>
OnShelves(A) == scene = "shelves" /\ A /\ UNCHANGED <<scene, floor, request>>

FeedNext ==
    \/ \E w \in Writers : InFeed(Write(w) /\ UNCHANGED <<floor, age, request>>)
    \/ \E c \in Clients : InFeed(Request(c))
    \/ InFeed(HalfYear)

Check(c) == Shelves!ReadStamps(c) \/ Shelves!ReadVersion(c) \/ Shelves!Fetch(c)

ShelvesNext ==
    \/ \E w \in Writers : OnShelves(Shelves!Write(w) /\ UNCHANGED <<age, step, read, shelf>>)
    \/ \E c \in Clients : OnShelves(Check(c))
    \/ OnShelves(Shelves!HalfYear)
    \/ OnShelves(Shelves!Purge)

\* The fairness of CatalogFeed and CatalogVersions.
MCFairSpec ==
    /\ FeedInit \/ ShelvesInit
    /\ [][FeedNext \/ ShelvesNext]_mcVars
    /\ \A c \in Clients : WF_mcVars(InFeed(Request(c))) /\ WF_mcVars(OnShelves(Check(c)))
    /\ WF_mcVars(OnShelves(Shelves!Purge))

FeedSpec == FeedInit /\ [][FeedNext]_mcVars

-----------------------------------------------------------------------------
\* CatalogFeed's NothingMissed: no cursor passes a change its client has not been given
\* (catalog_sync_service.py get_changes).
FeedMissesNothing == scene = "feed" => NothingMissed

\* CatalogFeed's ClientsCatchUp: in the end every client shows the catalog as it is.
FeedCatchesUp == scene = "feed" => ClientsCatchUp

\* CatalogVersions' ContentsMoveVersion: no commit changes what a category lists without
\* moving its version forward (catalog_sync_service.py get_versions).
ContentsMoveVersion ==
    [][scene = "shelves" /\ Shelves!Contents' # Shelves!Contents => Shelves!Version' > Shelves!Version]_mcVars

\* CatalogVersions' ShelvesCatchUp: in the end every client keeps the category's books as
\* they are, as long as no deletion was forgotten.
ShelvesCatchUp == scene = "shelves" => Shelves!ShelvesCatchUp
=============================================================================
