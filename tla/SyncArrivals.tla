---------------------------- MODULE SyncArrivals ----------------------------
(***************************************************************************)
(* One record of the sync store under the merge alone: versions written on *)
(* several devices reach the server in any order, and any of them may      *)
(* arrive again (a push whose answer was lost is sent again).  The copy    *)
(* rule of notes needs sequence numbers and is left to SyncStore.          *)
(***************************************************************************)
EXTENDS SyncMerge, TLAPS

CONSTANT Batches       \* the kinds of record, each with a set of versions of it

\* Assumed where Batches gets its value.
BatchesAreVersions == Batches \subseteq (Kinds \ {"note"}) \X SUBSET Version

VARIABLES kind,        \* the class of the record
          sent,        \* the versions the devices wrote
          arrived,     \* those the server has merged at least once
          stored       \* the record's version, NoVersion before the first

vars == <<kind, sent, arrived, stored>>

Init ==
    /\ \E batch \in Batches : kind = batch[1] /\ sent = batch[2]
    /\ arrived = {}
    /\ stored = NoVersion

\* A version reaches the server and is merged.  Sequence numbers only matter to notes
\* (the copy rule, see SyncStore), so none are kept here.
Arrive(v) ==
    LET merged == Merge(kind, stored, 0, v, 0)
    IN /\ v \in sent
       /\ stored' = IF merged.write # NoVersion THEN merged.write ELSE stored
       /\ arrived' = arrived \cup {v}
       /\ UNCHANGED <<kind, sent>>

Next == \E v \in sent : Arrive(v)

Spec == Init /\ [][Next]_vars

-----------------------------------------------------------------------------
IsNewer(v, w) == Newer(v.updated, v.device, w.updated, w.device)

TypeOK ==
    /\ kind \in Kinds /\ sent \subseteq Version
    /\ arrived \subseteq sent
    /\ stored \in Version \cup {NoVersion}

(* For the kinds without a manual order the stored version is one that was
   pushed, and no pushed version is newer: whatever the order of arrival and
   however often a push is repeated, every server makes the same choice. *)
NewestWins ==
    kind \notin OrderedKinds /\ arrived # {} =>
                    /\ stored \in arrived
                    /\ \A v \in arrived : ~IsNewer(v, stored)

(* For the ordered kinds the record is the combination: the content of the
   version with the newest content and the position of the one with the
   newest order, whatever the order of arrival.  (Times that tie: see
   TieGoesToLargerDevice.) *)
PartsMergeSeparately ==
    kind \in OrderedKinds => \A v \in arrived :
        /\ (\A w \in arrived \ {v} : v.updated > w.updated) =>
              stored.text = v.text /\ stored.updated = v.updated
        /\ (\A w \in arrived \ {v} : v.ordered > w.ordered) =>
              stored.pos = v.pos /\ stored.ordered = v.ordered

(* Of versions written at the same time the one of the larger device is kept:
   "A tie is decided by deviceId in string order, so every server makes the
   same choice" (docs/accounts_sync_spec.md). *)
TieGoesToLargerDevice ==
    \A v \in arrived :
        (\A w \in arrived \ {v} : IsNewer(v, w)) => stored.text = v.text

(* "sortIndex or position comes from whichever side has the newer
   orderChangedAt" (docs/accounts_sync_spec.md): the place given last stays,
   whatever is deleted and written anew in between.  It does not: a deletion
   is stored without data, and the place with it. *)
PlaceOutlivesDeletion ==
    kind \in OrderedKinds /\ arrived # {} => stored.deleted \/
        \A v \in arrived :
            /\ ~v.deleted /\ v.pos # NoPos
            /\ \A w \in arrived \ {v} : v.ordered > w.ordered
            => stored.pos = v.pos

-----------------------------------------------------------------------------
(* The proofs: versions in any number, arriving in any order and repeated. *)

\* Something is stored once something has arrived, and nothing is made up.
StoredArrived ==
    /\ arrived \subseteq sent /\ sent \subseteq Version
    /\ IF arrived = {} THEN stored = NoVersion ELSE stored \in Version

\* The inductive invariant of the kinds without a manual order.
MarkInv == kind = "mark" /\ StoredArrived /\ NewestWins

(* No version is newer than itself, and what is not newer than the stored version is not
   newer than one that is. *)
LEMMA NewerIsAnOrder ==
    ASSUME NEW u \in Version, NEW v \in Version, NEW w \in Version
    PROVE  ~IsNewer(u, u) /\ (IsNewer(v, w) /\ ~IsNewer(u, w) => ~IsNewer(u, v))
<1>1. \A x \in Version : x.updated \in Nat /\ x.device \in Nat
  BY DevicesAreOrdered DEF Version
<1>2. \A a, b, c, x, y, z \in Nat :
        ~Newer(a, x, a, x) /\ (Newer(b, y, c, z) /\ ~Newer(a, x, c, z) => ~Newer(a, x, b, y))
  BY DEF Newer, NoTime
<1> QED BY <1>1, <1>2 DEF IsNewer

(* A version without a manual order takes the place of the stored one, or does not. *)
LEMMA MarksAreReplaced ==
    ASSUME NEW s \in Version, NEW v \in Version
    PROVE  Merge("mark", s, 0, v, 0).write = IF IsNewer(v, s) THEN v ELSE NoVersion
<1>1. s # NoVersion
  BY NoVersionIsNone
<1>2. ~OrderWins("mark", s, v)
  BY DEF OrderWins, OrderedKinds
<1>3. ContentWins(s, v) <=> IsNewer(v, s)
  BY DEF ContentWins, IsNewer
<1>4. ContentWins(s, v) => Combined("mark", s, v) = v
  BY <1>2 DEF Combined, OrderedKinds, Version
<1> QED BY <1>1, <1>2, <1>3, <1>4 DEF Merge

LEMMA MarkStep ==
    ASSUME MarkInv, [Next]_vars
    PROVE  MarkInv'
<1>1. ASSUME NEW v \in sent, Arrive(v) PROVE MarkInv'
  <2>1. v \in Version /\ arrived' = arrived \cup {v} /\ arrived' # {} /\ UNCHANGED <<kind, sent>>
    BY <1>1 DEF MarkInv, StoredArrived, Arrive
  <2>2. CASE arrived = {}
    <3>1. stored' = v
      BY <1>1, <2>1, <2>2, NoVersionIsNone DEF MarkInv, StoredArrived, Arrive, Merge
    <3>2. ~IsNewer(v, v)
      BY <2>1, NewerIsAnOrder
    <3> QED BY <2>1, <2>2, <3>1, <3>2 DEF MarkInv, StoredArrived, NewestWins
  <2>3. CASE arrived # {}
    <3>1. stored \in Version /\ stored \in arrived /\ \A u \in arrived : u \in Version /\ ~IsNewer(u, stored)
      BY <2>3 DEF MarkInv, StoredArrived, NewestWins, OrderedKinds
    <3>2. stored' = IF IsNewer(v, stored) THEN v ELSE stored
      BY <1>1, <2>1, <3>1, MarksAreReplaced, NoVersionIsNone DEF MarkInv, Arrive
    <3>3. ~IsNewer(v, v)
      BY <2>1, NewerIsAnOrder
    <3>4. \A u \in arrived' : ~IsNewer(u, stored')
      BY <2>1, <3>1, <3>2, <3>3, NewerIsAnOrder
    <3> QED BY <2>1, <3>1, <3>2, <3>4 DEF MarkInv, StoredArrived, NewestWins
  <2> QED BY <2>2, <2>3
<1>2. CASE UNCHANGED vars
  BY <1>2 DEF MarkInv, StoredArrived, NewestWins, OrderedKinds, vars
<1> QED BY <1>1, <1>2 DEF Next

\* Each part of the stored version is the newest there is, and of a version that arrived.
TextIsNewest ==
    arrived # {} =>
        /\ \A v \in arrived : stored.updated >= v.updated
        /\ \E v \in arrived :
                v.updated = stored.updated /\ v.text = stored.text /\ v.deleted = stored.deleted

OrderIsNewest ==
    arrived # {} =>
        /\ ~stored.deleted /\ stored.pos # NoPos
        /\ \A v \in arrived : stored.ordered >= v.ordered
        /\ \E v \in arrived : v.ordered = stored.ordered /\ v.pos = stored.pos

\* No version is a deletion, and each has a place in the manual order.
AllInOrder == \A v \in sent : ~v.deleted /\ v.pos # NoPos

\* The inductive invariant of the ordered kinds but the notes.
FolderInv ==
    /\ kind = "folder" /\ StoredArrived
    /\ TextIsNewest
    /\ AllInOrder => OrderIsNewest

(* What the merge of an ordered record is stored as. *)
LEMMA FoldersAreCombined ==
    ASSUME NEW s \in Version, NEW v \in Version
    PROVE  Merge("folder", s, 0, v, 0).write =
                IF ContentWins(s, v) \/ OrderWins("folder", s, v) THEN Combined("folder", s, v) ELSE NoVersion
BY NoVersionIsNone DEF Merge

(* The content stored is the newer one's, the place and its time the newer order's. *)
LEMMA CombinedTakesTheNewer ==
    ASSUME NEW s \in Version, NEW v \in Version
    PROVE  LET c == Combined("folder", s, v)
               content == IF ContentWins(s, v) THEN v ELSE s
               order == IF OrderWins("folder", s, v) THEN v ELSE s
           IN /\ c \in Version
              /\ c.text = content.text /\ c.updated = content.updated /\ c.deleted = content.deleted
              /\ c.ordered = order.ordered
              /\ ~content.deleted /\ order.pos # NoPos => c.pos = order.pos
BY DEF Combined, OrderedKinds, Version

LEMMA FolderStep ==
    ASSUME FolderInv, [Next]_vars
    PROVE  FolderInv'
<1>1. ASSUME NEW v \in sent, Arrive(v) PROVE FolderInv'
  <2>1. v \in Version /\ arrived' = arrived \cup {v} /\ arrived' # {} /\ UNCHANGED <<kind, sent>>
    BY <1>1 DEF FolderInv, StoredArrived, Arrive
  <2>2. CASE arrived = {}
    <3>1. stored' = v
      BY <1>1, <2>1, <2>2, NoVersionIsNone DEF FolderInv, StoredArrived, Arrive, Merge
    <3> QED BY <2>1, <2>2, <3>1 DEF FolderInv, StoredArrived, TextIsNewest, AllInOrder, OrderIsNewest, Version
  <2>3. CASE arrived # {}
    <3> DEFINE content == IF ContentWins(stored, v) THEN v ELSE stored
               order == IF OrderWins("folder", stored, v) THEN v ELSE stored
    <3>1. stored \in Version /\ \A u \in arrived : u \in Version
      BY <2>3 DEF FolderInv, StoredArrived
    <3>2. /\ stored' \in Version
          /\ stored'.text = content.text /\ stored'.updated = content.updated
          /\ stored'.deleted = content.deleted /\ stored'.ordered = order.ordered
          /\ ~content.deleted /\ order.pos # NoPos => stored'.pos = order.pos
      <4>1. stored' = IF ContentWins(stored, v) \/ OrderWins("folder", stored, v)
                      THEN Combined("folder", stored, v) ELSE stored
        BY <1>1, <2>1, <3>1, FoldersAreCombined, CombinedTakesTheNewer, NoVersionIsNone DEF FolderInv, Arrive
      <4> QED BY <2>1, <3>1, <4>1, CombinedTakesTheNewer
    <3>3. content.updated >= stored.updated /\ content.updated >= v.updated
      BY <2>1, <3>1 DEF ContentWins, Newer, NoTime, Version
    <3>4. order.ordered >= stored.ordered /\ order.ordered >= v.ordered
      BY <2>1, <3>1 DEF OrderWins, OrderedKinds, Newer, NoTime, Version
    <3>5. stored.updated \in Nat /\ stored.ordered \in Nat /\ content.updated \in Nat /\ order.ordered \in Nat
          /\ \A u \in arrived' : u.updated \in Nat /\ u.ordered \in Nat
      BY <2>1, <3>1 DEF Version
    <3>6. TextIsNewest'
      <4>1. \A u \in arrived' : stored'.updated >= u.updated
        BY <2>1, <2>3, <3>2, <3>3, <3>5 DEF FolderInv, TextIsNewest
      <4>2. \E u \in arrived' : /\ u.updated = stored'.updated /\ u.text = stored'.text
                                /\ u.deleted = stored'.deleted
        BY <2>1, <2>3, <3>2 DEF FolderInv, TextIsNewest
      <4> QED BY <4>1, <4>2 DEF TextIsNewest
    <3>7. ASSUME AllInOrder' PROVE OrderIsNewest'
      <4>1. AllInOrder /\ OrderIsNewest
        BY <2>1, <3>7 DEF FolderInv, AllInOrder
      <4>2. ~content.deleted /\ order.pos # NoPos
        BY <2>3, <4>1 DEF AllInOrder, OrderIsNewest
      <4>3. \A u \in arrived' : stored'.ordered >= u.ordered
        BY <2>1, <2>3, <3>2, <3>4, <3>5, <4>1 DEF OrderIsNewest
      <4>4. \E u \in arrived' : u.ordered = stored'.ordered /\ u.pos = stored'.pos
        BY <2>1, <2>3, <3>2, <4>1, <4>2 DEF OrderIsNewest
      <4> QED BY <3>2, <4>2, <4>3, <4>4 DEF OrderIsNewest
    <3> QED BY <2>1, <3>1, <3>2, <3>6, <3>7 DEF FolderInv, StoredArrived
  <2> QED BY <2>2, <2>3
<1>2. CASE UNCHANGED vars
  BY <1>2 DEF FolderInv, StoredArrived, TextIsNewest, OrderIsNewest, AllInOrder, vars
<1> QED BY <1>1, <1>2 DEF Next

LEMMA FirstArrivals ==
    ASSUME BatchesAreVersions, Init
    PROVE  MarkInv \/ FolderInv
BY DEF BatchesAreVersions, Init, Kinds, MarkInv, FolderInv, StoredArrived, NewestWins, OrderedKinds,
       TextIsNewest, OrderIsNewest

LEMMA ArrivalsStep ==
    ASSUME MarkInv \/ FolderInv, [Next]_vars
    PROVE  (MarkInv \/ FolderInv)'
BY MarkStep, FolderStep

LEMMA NewestIsTheFirst ==
    ASSUME FolderInv
    PROVE  AllInOrder => PartsMergeSeparately
<1> SUFFICES ASSUME AllInOrder, NEW v \in arrived
             PROVE  /\ (\A w \in arrived \ {v} : v.updated > w.updated) =>
                            stored.text = v.text /\ stored.updated = v.updated
                    /\ (\A w \in arrived \ {v} : v.ordered > w.ordered) =>
                            stored.pos = v.pos /\ stored.ordered = v.ordered
  BY DEF PartsMergeSeparately
<1>1. stored \in Version /\ \A u \in arrived : u \in Version
  BY DEF FolderInv, StoredArrived
<1>2. ASSUME \A w \in arrived \ {v} : v.updated > w.updated
      PROVE  stored.text = v.text /\ stored.updated = v.updated
  <2>1. PICK u \in arrived : u.updated = stored.updated /\ u.text = stored.text
    BY DEF FolderInv, TextIsNewest
  <2>2. u.updated >= v.updated
    BY <2>1 DEF FolderInv, TextIsNewest
  <2>3. u = v
    BY <1>1, <1>2, <2>2 DEF Version
  <2> QED BY <2>1, <2>3
<1>3. ASSUME \A w \in arrived \ {v} : v.ordered > w.ordered
      PROVE  stored.pos = v.pos /\ stored.ordered = v.ordered
  <2>1. PICK u \in arrived : u.ordered = stored.ordered /\ u.pos = stored.pos
    BY DEF FolderInv, OrderIsNewest
  <2>2. u.ordered >= v.ordered
    BY <2>1 DEF FolderInv, OrderIsNewest
  <2>3. u = v
    BY <1>1, <1>3, <2>2 DEF Version
  <2> QED BY <2>1, <2>3
<1> QED BY <1>2, <1>3

(* merge(): of the versions of a record without a manual order, however many there are and
   in whatever order and however often they arrive, one that none is newer than is stored. *)
THEOREM NewestIsStored ==
    ASSUME BatchesAreVersions
    PROVE  Spec => []NewestWins
<1>1. Init => MarkInv \/ FolderInv
  BY FirstArrivals
<1>2. (MarkInv \/ FolderInv) /\ [Next]_vars => (MarkInv \/ FolderInv)'
  BY ArrivalsStep
<1>3. MarkInv \/ FolderInv => NewestWins
  BY DEF MarkInv, FolderInv, NewestWins, OrderedKinds
<1> QED BY <1>1, <1>2, <1>3, PTL DEF Spec

(* merge(): of an ordered record the newest content is stored, be it a text or a deletion;
   and the newest order for itself, as long as no version is a deletion or lacks its place. *)
THEOREM PartsAreStoredSeparately ==
    ASSUME BatchesAreVersions
    PROVE  /\ Spec => [](kind \in OrderedKinds => TextIsNewest)
           /\ Spec /\ AllInOrder => []PartsMergeSeparately
<1>1. Init => MarkInv \/ FolderInv
  BY FirstArrivals
<1>2. (MarkInv \/ FolderInv) /\ [Next]_vars => (MarkInv \/ FolderInv)'
  BY ArrivalsStep
<1>3. AllInOrder /\ [Next]_vars => AllInOrder'
  BY DEF Next, Arrive, AllInOrder, vars
<1>4. MarkInv \/ FolderInv => (kind \in OrderedKinds => TextIsNewest)
  BY DEF MarkInv, FolderInv, OrderedKinds
<1>5. (MarkInv \/ FolderInv) /\ AllInOrder => PartsMergeSeparately
  BY NewestIsTheFirst DEF MarkInv, PartsMergeSeparately, OrderedKinds
<1>6. Spec => [](kind \in OrderedKinds => TextIsNewest)
  BY <1>1, <1>2, <1>4, PTL DEF Spec
<1>7. Spec /\ AllInOrder => []PartsMergeSeparately
  BY <1>1, <1>2, <1>3, <1>5, PTL DEF Spec
<1> QED BY <1>6, <1>7

=============================================================================
