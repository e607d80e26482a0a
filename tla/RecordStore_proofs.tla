------------------------- MODULE RecordStore_proofs -------------------------
(***************************************************************************)
(* Proofs about RecordStore, for every set of files and streams, any        *)
(* number of operations and faults, with or without timely integration.     *)
(***************************************************************************)
EXTENDS RecordStore, FiniteSetTheorems, WellFoundedInduction, TLAPS

-----------------------------------------------------------------------------
(* The inductive invariant. *)

Saving == pc \in {"append", "resave", "indexPut", "indexAppend"}

\* What the steps of the operation in progress have established.
OperationInv ==
  /\ pc \in {"idle", "save"} => batch = {}
  /\ pc = "append" => Contents(cur) \subseteq Digests(tree) \cup Digests(batch)
  /\ pc \in {"resave", "indexPut", "indexAppend"} => Contents(cur) \subseteq Digests(tree)
  /\ pc = "indexAppend" => storeKey(IndexLeaf) \in store
  /\ Saving => cur \notin Digests({l \in tree \cup queue : l.isIndex})
  /\ pc = "resave" => Publishing
  /\ pc = "delete" => RecordIsFrozen

\* The leaves that the operation appends.
BatchInv ==
  \A l \in batch :
    /\ ~l.isIndex
    /\ l.data \in Contents(cur)
    /\ l.state = cur.rm.state
    /\ storeKey(l) \in store \/ ~Saving
    /\ \A k \in batch : k.data = l.data => k = l

\* Status, state and iteration of an index agree.
WellFormed(i) ==
  /\ i.rm.status = "public" => i.rm.state = "vetted"
  /\ i.rm.status = "unreviewed" => i.rm.state = "unvetted"
  /\ i.rm.iteration >= 1

HasVettedIndex == \E l \in tree : l.isIndex /\ l.data.rm.state = "vetted"

\* Indexes are well formed, record metadata is saved in its own state, and file
\* leaves are unvetted until the record is public.
LeavesInv ==
  \A l \in tree \cup queue :
    /\ l.isIndex => WellFormed(l.data)
    /\ l.data \in RecordMetadata => l.state = l.data.state
    /\ l.data \in Files => l.state = "unvetted" \/ HasVettedIndex

\* A vetted operation is the publication, or follows one.
VettedInv ==
  /\ pc # "idle" => WellFormed(cur)
  /\ pc # "idle" /\ cur.rm.state = "vetted" => Publishing \/ HasVettedIndex
  /\ Saving /\ cur.rm.state = "vetted" => Contents(cur) \subseteq exposed

\* A publication finds its files in unvetted leaves.
PublishInv ==
  Publishing /\ pc \in {"save", "append", "resave"} =>
    /\ cur.rm.files # {}
    /\ \A f \in cur.rm.files : \E l \in tree : l.data = f /\ l.state = "unvetted"
    /\ pc # "save" => cur.rm.files \cap Digests(batch) = {}

IInv ==
  /\ TypeOK
  /\ OperationInv
  /\ BatchInv
  /\ LeavesInv
  /\ VettedInv
  /\ PublishInv
  /\ IndexContentPresent
  /\ LeafHasBlob
  /\ OneLeafPerContent
  /\ PlainTextWasExposed

-----------------------------------------------------------------------------
(* Lemmas about the data. *)

\* Record metadata is not a record index: their fields differ.
LEMMA DataDisjoint == RecordMetadata \cap RecordIndex = {}
<1> SUFFICES ASSUME NEW d \in RecordMetadata, d \in RecordIndex PROVE FALSE
  OBVIOUS
<1>1. DOMAIN d = {"state", "status", "version", "iteration", "files", "timestamp"}
  BY DEF RecordMetadata
<1>2. DOMAIN d = {"rm", "md", "frozen"}
  BY DEF RecordIndex
<1> QED
  BY <1>1, <1>2

\* The content of an index is no index, and its record metadata is the only record
\* metadata among it.
LEMMA ContentsData ==
  ASSUME NEW i \in RecordIndex
  PROVE  /\ Contents(i) \subseteq Files \cup Streams \cup RecordMetadata
         /\ Contents(i) \cap RecordIndex = {}
         /\ Contents(i) \cap RecordMetadata = {i.rm}
         /\ i.rm \in RecordMetadata /\ i.rm.files \subseteq Files
         /\ i.rm.files \subseteq Contents(i)
<1>1. i.rm \in RecordMetadata /\ i.md \subseteq Streams /\ i.rm.files \subseteq Files
  BY DEF RecordIndex, RecordMetadata
<1> QED
  BY <1>1, DataDisjoint, DataAssumption DEF Contents

\* More leaves commit to more content.
LEMMA DigestsMonotone ==
  ASSUME NEW S, NEW T, S \subseteq T
  PROVE  Digests(S) \subseteq Digests(T)
  BY DEF Digests

\* The invariant holds initially.
LEMMA InitInv == Init => IInv
<1> SUFFICES ASSUME Init PROVE IInv
  OBVIOUS
<1> USE DEF Init
<1>1. NoIndex \in RecordIndex
  BY DEF NoIndex, RecordIndex, RecordMetadata, StateT, StatusT
<1>2. TypeOK
  BY <1>1, ConstantsAssumption DEF TypeOK
<1>3. OperationInv /\ BatchInv /\ LeavesInv /\ VettedInv /\ PublishInv
  BY DEF OperationInv, BatchInv, LeavesInv, VettedInv, PublishInv, Saving
<1>4. IndexContentPresent /\ LeafHasBlob /\ OneLeafPerContent /\ PlainTextWasExposed
  BY DEF IndexContentPresent, LeafHasBlob, OneLeafPerContent, PlainTextWasExposed
<1> QED
  BY <1>2, <1>3, <1>4 DEF IInv

-----------------------------------------------------------------------------
(* Every step preserves the invariant. *)

\* An operation that starts from an index of the right shape.
LEMMA BeginStep ==
  ASSUME IInv, NEW rm \in RecordMetadata, NEW md \in SUBSET Streams,
         NEW frozen \in BOOLEAN, Tick, Begin(rm, md, frozen),
         WellFormed([rm |-> rm, md |-> md, frozen |-> frozen]),
         rm.state = "vetted" => (rm.status = "public" /\ rm.iteration = 1) \/ HasVettedIndex,
         rm.status = "public" /\ rm.iteration = 1 =>
           /\ rm.files # {}
           /\ \A f \in rm.files : \E l \in tree : l.data = f /\ l.state = "unvetted"
  PROVE  IInv'
<1> DEFINE i == [rm |-> rm, md |-> md, frozen |-> frozen]
<1>1. /\ pc = "idle" /\ pc' = "save" /\ cur' = i /\ batch = {} /\ batch' = {}
      /\ UNCHANGED <<tree, queue, store, faults, exposed, acked>>
      /\ op' = op + 1 /\ op < MaxOps
  BY DEF Begin, IInv, OperationInv
<1>2. i \in RecordIndex /\ i.rm = rm
  BY DEF RecordIndex
<1>3. TypeOK'
  BY <1>1, <1>2, ConstantsAssumption DEF IInv, TypeOK, Tick
<1>4. OperationInv' /\ BatchInv' /\ LeavesInv'
  BY <1>1 DEF IInv, OperationInv, BatchInv, LeavesInv, HasVettedIndex, Saving
<1>5. VettedInv' /\ PublishInv'
  BY <1>1, <1>2 DEF IInv, VettedInv, PublishInv, Saving, Publishing, HasVettedIndex
<1>6. IndexContentPresent' /\ LeafHasBlob' /\ OneLeafPerContent' /\ PlainTextWasExposed'
  BY <1>1 DEF IInv, IndexContentPresent, LeafHasBlob, OneLeafPerContent,
              PlainTextWasExposed, RecordIsFrozen
<1> QED
  BY <1>3, <1>4, <1>5, <1>6 DEF IInv

\* The latest index is an index of the tree.
LEMMA LatestIsIndex ==
  ASSUME IInv, NEW r \in Latest(tree)
  PROVE  /\ r \in RecordIndex
         /\ WellFormed(r)
         /\ r.rm.state = "vetted" => HasVettedIndex
         /\ r.rm.state = "unvetted" => ~HasVettedIndex
<1>1. r \in recordIndexes(tree)
  BY DEF Latest, recordIndexLatest, recordIndex
<1>2. PICK l \in tree : l.isIndex /\ l.data = r
  BY <1>1 DEF recordIndexes, IndexesIn
<1>3. r \in RecordIndex /\ WellFormed(r)
  BY <1>2 DEF IInv, TypeOK, LeavesInv
<1>4. r.rm.state = "vetted" => HasVettedIndex
  BY <1>2 DEF HasVettedIndex
<1>5. r.rm.state = "unvetted" => ~HasVettedIndex
  BY <1>1 DEF recordIndexes, IndexesIn, HasVettedIndex
<1> QED
  BY <1>3, <1>4, <1>5

\* What a read returns has leaves in the tree.
LEMMA ReadHasLeaf ==
  ASSUME NEW r, NEW c \in record(r)
  PROVE  \E l \in tree : l.data = c
  BY DEF record

\* An operation that goes on from the latest index.
LEMMA LaterIteration ==
  ASSUME IInv, NEW r \in Latest(tree), NEW files \in SUBSET Files, NEW status,
         NEW version \in {r.rm.version, r.rm.version + 1}, NEW md \in SUBSET Streams,
         NEW frozen \in BOOLEAN, Tick, clock' \in Nat,
         status = r.rm.status \/ status \in {"censored", "archived"},
         Begin(recordMetadataNew(files, r.rm.state, status, version, r.rm.iteration + 1),
               md, frozen)
  PROVE  IInv'
<1> DEFINE rm == recordMetadataNew(files, r.rm.state, status, version, r.rm.iteration + 1)
<1>1. r \in RecordIndex /\ WellFormed(r) /\ (r.rm.state = "vetted" => HasVettedIndex)
  BY LatestIsIndex
<1>2. r.rm \in RecordMetadata
  BY <1>1 DEF RecordIndex
<1>3. rm \in RecordMetadata /\ rm.state = r.rm.state /\ rm.status = status
      /\ rm.iteration # 1 /\ rm.iteration >= 1
  BY <1>1, <1>2 DEF recordMetadataNew, RecordMetadata, StateT, StatusT, WellFormed
<1>4. Begin(rm, md, frozen)
  OBVIOUS
<1> HIDE DEF rm
<1>5. WellFormed([rm |-> rm, md |-> md, frozen |-> frozen])
  BY <1>1, <1>3 DEF WellFormed
<1> QED
  BY <1>1, <1>3, <1>4, <1>5, BeginStep

\* Every operation that takes the record lock (RecordNew, RecordEdit,
\* RecordEditMetadata, RecordSetStatus) starts from an index of the right shape.
LEMMA OperationStep ==
  ASSUME IInv,
         \/ \E f \in FileSets, m \in NewStreams : RecordNew(f, m)
         \/ \E f \in FileSets, m \in SUBSET Streams : RecordEdit(f, m)
         \/ \E m \in NewStreams : RecordEditMetadata(m)
         \/ \E s \in StatusT, m \in SUBSET Streams : RecordSetStatus(s, m)
  PROVE  IInv'
<1>0. Tick => clock' \in Nat
  BY DEF Tick, IInv, TypeOK
<1>1. ASSUME NEW f \in FileSets, NEW m \in NewStreams, RecordNew(f, m) PROVE IInv'
  <2> DEFINE rm == recordMetadataNew(f, "unvetted", "unreviewed", 1, 1)
  <2>1. rm \in RecordMetadata /\ rm.state = "unvetted" /\ rm.status = "unreviewed"
        /\ rm.iteration = 1
    BY <1>0, <1>1 DEF RecordNew, FileSets, recordMetadataNew, RecordMetadata, StateT, StatusT
  <2>2. WellFormed([rm |-> rm, md |-> m, frozen |-> FALSE])
    BY <2>1 DEF WellFormed
  <2>3. Tick /\ Begin(rm, m, FALSE) /\ m \in SUBSET Streams
    BY <1>1 DEF RecordNew, NewStreams
  <2> HIDE DEF rm
  <2> QED
    BY <2>1, <2>2, <2>3, BeginStep
<1>2. ASSUME NEW f \in FileSets, NEW m \in SUBSET Streams, RecordEdit(f, m) PROVE IInv'
  <2>1. PICK r \in Latest(tree) :
          /\ Tick
          /\ Begin(recordMetadataNew(f, r.rm.state, r.rm.status, r.rm.version + 1,
                                     r.rm.iteration + 1), m, FALSE)
    BY <1>2 DEF RecordEdit
  <2>2. f \in SUBSET Files
    BY DEF FileSets
  <2> QED
    BY <1>0, <2>1, <2>2, LaterIteration
<1>3. ASSUME NEW m \in NewStreams, RecordEditMetadata(m) PROVE IInv'
  <2>1. PICK r \in Latest(tree) :
          /\ Tick
          /\ Begin(recordMetadataNew(record(r) \cap Files, r.rm.state, r.rm.status,
                                     r.rm.version, r.rm.iteration + 1), m, FALSE)
    BY <1>3 DEF RecordEditMetadata
  <2>2. m \in SUBSET Streams /\ record(r) \cap Files \in SUBSET Files
    BY DEF NewStreams
  <2> QED
    BY <1>0, <2>1, <2>2, LaterIteration
<1>4. ASSUME NEW s \in StatusT, NEW m \in SUBSET Streams, RecordSetStatus(s, m)
      PROVE IInv'
  <2>1. PICK r \in Latest(tree) :
          /\ statusChangeIsAllowed(r.rm.status, s)
          /\ record(r) \cap Files # {}
          /\ Tick
          /\ Begin(IF s = "public"
                     THEN recordMetadataNew(record(r) \cap Files, "vetted", s, 1, 1)
                     ELSE recordMetadataNew(record(r) \cap Files, r.rm.state, s,
                                            r.rm.version, r.rm.iteration + 1),
                   m, s # "public")
    BY <1>4 DEF RecordSetStatus
  <2>2. /\ r \in RecordIndex /\ WellFormed(r)
        /\ r.rm.state = "unvetted" => ~HasVettedIndex
    BY LatestIsIndex
  <2>3. CASE s = "public"
    <3> DEFINE rm == recordMetadataNew(record(r) \cap Files, "vetted", s, 1, 1)
    <3>1. r.rm.state = "unvetted"
      BY <2>1, <2>2, <2>3 DEF statusChangeIsAllowed, WellFormed
    <3>2. \A f \in record(r) \cap Files : \E l \in tree : l.data = f /\ l.state = "unvetted"
      BY <3>1, <2>2, ReadHasLeaf DEF IInv, LeavesInv
    <3>3. rm \in RecordMetadata /\ rm.state = "vetted" /\ rm.status = "public"
          /\ rm.iteration = 1 /\ rm.files = record(r) \cap Files
      BY <1>0, <2>1, <2>3 DEF recordMetadataNew, RecordMetadata, StateT, StatusT
    <3>4. WellFormed([rm |-> rm, md |-> m, frozen |-> FALSE])
      BY <3>3 DEF WellFormed
    <3>5. Begin(rm, m, FALSE)
      BY <2>1, <2>3
    <3> HIDE DEF rm
    <3> QED
      BY <2>1, <3>2, <3>3, <3>4, <3>5, BeginStep
  <2>4. CASE s # "public"
    <3>1. s \in {"censored", "archived"}
      BY <2>1, <2>4 DEF statusChangeIsAllowed
    <3> QED
      BY <1>0, <2>1, <2>4, <3>1, LaterIteration
  <2> QED
    BY <2>3, <2>4
<1> QED
  BY <1>1, <1>2, <1>3, <1>4

\* New leaves in the tree or the queue keep the invariants of the leaves, if they
\* commit to new content whose blobs are in the store.
LEMMA NewLeaves ==
  ASSUME IInv, NEW A, tree \subseteq tree', tree' \cup queue' = tree \cup queue \cup A,
         store' = store,
         \A l \in A :
           /\ l \in Leaf
           /\ l.isIndex <=> l.data \in RecordIndex
           /\ l.isIndex => WellFormed(l.data) /\ Contents(l.data) \subseteq Digests(tree)
           /\ l.data \in RecordMetadata => l.state = l.data.state
           /\ l.data \in Files => l.state = "unvetted" \/ HasVettedIndex
           /\ storeKey(l) \in store
           /\ l.data \notin Digests(tree \cup queue)
           /\ \A k \in A : k.data = l.data => k = l
  PROVE  /\ tree' \subseteq Leaf /\ queue' \subseteq Leaf
         /\ \A l \in tree' \cup queue' : l.isIndex <=> l.data \in RecordIndex
         /\ LeavesInv'
         /\ IndexContentPresent'
         /\ LeafHasBlob'
         /\ OneLeafPerContent'
<1>1. HasVettedIndex => HasVettedIndex'
  BY DEF HasVettedIndex
<1>2. RecordIsFrozen => RecordIsFrozen'
  BY DEF RecordIsFrozen
<1>3. Digests(tree) \subseteq Digests(tree')
  BY DigestsMonotone
<1>4. \A l \in tree' \cup queue' : l \in Leaf /\ (l.isIndex <=> l.data \in RecordIndex)
  BY DEF IInv, TypeOK
<1>5. LeavesInv'
  BY <1>1 DEF IInv, LeavesInv
<1>6. IndexContentPresent'
  BY <1>3 DEF IInv, IndexContentPresent, Digests
<1>7. LeafHasBlob'
  BY <1>2 DEF IInv, LeafHasBlob
<1>8. OneLeafPerContent'
  BY DEF IInv, OneLeafPerContent, Digests
<1> QED
  BY <1>4, <1>5, <1>6, <1>7, <1>8

\* An operation that ends, or is cut short, owes nothing any more.
LEMMA ReturnStep ==
  ASSUME IInv, Return, op' = op, clock' = clock, faults' \in 0..MaxFaults,
         tree' \subseteq Leaf, queue' \subseteq Leaf,
         \A l \in tree' \cup queue' : l.isIndex <=> l.data \in RecordIndex
  PROVE  TypeOK' /\ OperationInv' /\ BatchInv' /\ VettedInv' /\ PublishInv'
<1>1. pc' = "idle" /\ cur' = NoIndex /\ batch' = {}
  BY DEF Return
<1>2. NoIndex \in RecordIndex
  BY DEF NoIndex, RecordIndex, RecordMetadata, StateT, StatusT
<1>3. TypeOK'
  BY <1>1, <1>2 DEF IInv, TypeOK
<1>4. OperationInv' /\ BatchInv' /\ VettedInv' /\ PublishInv'
  BY <1>1 DEF OperationInv, BatchInv, VettedInv, PublishInv, Saving
<1> QED
  BY <1>3, <1>4

\* Saving the blobs of new content sets up a batch whose leaves can be appended.
LEMMA SaveBlobsStep == IInv /\ SaveBlobs => IInv'
<1> SUFFICES ASSUME IInv, SaveBlobs PROVE IInv'
  OBVIOUS
<1>1. /\ pc = "save" /\ pc' = "append" /\ NewContents # {}
      /\ batch' = {NewLeaf(c, cur.rm.state, FALSE) : c \in NewContents}
      /\ store' = store \cup {storeKey(l) : l \in batch'}
      /\ exposed' = IF cur.rm.state = "vetted" THEN exposed \cup Contents(cur) ELSE exposed
      /\ UNCHANGED <<tree, queue, cur, op, clock, faults, acked>>
  BY DEF SaveBlobs
<1>2. cur \in RecordIndex /\ op \in Nat
  BY ConstantsAssumption DEF IInv, TypeOK
<1>3. cur.rm.state \in StateT
  BY <1>2 DEF RecordIndex, RecordMetadata
<1>4. /\ NewContents \subseteq Contents(cur)
      /\ NewContents \cap Digests(tree) = {}
      /\ Contents(cur) \subseteq Digests(tree) \cup NewContents
  BY DEF NewContents
<1>5. \A l \in batch' : /\ l.data \in NewContents /\ l.uuid = op /\ ~l.isIndex
                        /\ l.state = cur.rm.state
                        /\ l = NewLeaf(l.data, cur.rm.state, FALSE)
                        /\ storeKey(l) \in store'
  BY <1>1 DEF NewLeaf
<1>6. Digests(batch') = NewContents
  <2>1. \A c \in NewContents : NewLeaf(c, cur.rm.state, FALSE) \in batch'
                               /\ NewLeaf(c, cur.rm.state, FALSE).data = c
    BY <1>1 DEF NewLeaf
  <2> QED
    BY <1>5, <2>1 DEF Digests
<1>7. batch' \subseteq Leaf /\ \A l \in batch' : l.data \notin RecordIndex
  <2> SUFFICES ASSUME NEW l \in batch' PROVE l \in Leaf /\ l.data \notin RecordIndex
    OBVIOUS
  <2>1. PICK c \in NewContents :
          l = [data |-> c, uuid |-> op, state |-> cur.rm.state, isIndex |-> FALSE]
    BY <1>1 DEF NewLeaf
  <2>2. c \in Files \cup Streams \cup RecordMetadata /\ c \notin RecordIndex
    BY <1>2, <1>4, ContentsData
  <2> QED
    BY <1>2, <1>3, <2>1, <2>2 DEF Leaf
<1>8. TypeOK'
  BY <1>1, <1>5, <1>7 DEF IInv, TypeOK
<1>9. cur \notin Digests({l \in tree \cup queue : l.isIndex})
  BY <1>1, <1>4 DEF IInv, IndexContentPresent, Digests
<1>10. OperationInv'
  BY <1>1, <1>4, <1>6, <1>9 DEF OperationInv, Saving
<1>11. BatchInv'
  BY <1>1, <1>4, <1>5 DEF BatchInv
<1>12. LeavesInv'
  BY <1>1 DEF IInv, LeavesInv, HasVettedIndex
<1>13. VettedInv'
  BY <1>1 DEF IInv, VettedInv, Publishing, HasVettedIndex
<1>14. PublishInv'
  <2>1. ASSUME Publishing PROVE cur.rm.files \cap NewContents = {}
    BY <1>1, <1>4, <2>1 DEF IInv, PublishInv, Digests
  <2> QED
    BY <1>1, <1>6, <2>1 DEF IInv, PublishInv, Publishing
<1>15. IndexContentPresent' /\ LeafHasBlob' /\ OneLeafPerContent'
  BY <1>1 DEF IInv, IndexContentPresent, LeafHasBlob, OneLeafPerContent, RecordIsFrozen
<1>16. PlainTextWasExposed'
  <2>1. ASSUME NEW l \in batch', ~storeKey(l).encrypted
        PROVE  storeKey(l).data \in exposed'
    <3>1. cur.rm.state = "vetted" /\ l.data \in Contents(cur)
      BY <1>3, <1>4, <1>5, <2>1 DEF storeKey, Key, StateT
    <3> QED
      BY <1>1, <3>1 DEF storeKey, Key
  <2>2. exposed \subseteq exposed'
    BY <1>1
  <2> QED
    BY <1>1, <2>1, <2>2 DEF IInv, PlainTextWasExposed
<1> QED
  BY <1>8, <1>10, <1>11, <1>12, <1>13, <1>14, <1>15, <1>16 DEF IInv

\* A refused update changes neither the tree nor the store.
LEMMA SaveRefusedStep == IInv /\ SaveRefused => IInv'
<1> SUFFICES ASSUME IInv, SaveRefused PROVE IInv'
  OBVIOUS
<1>1. Return /\ UNCHANGED <<tree, queue, store, op, clock, faults, exposed, acked>>
  BY DEF SaveRefused
<1>2. TypeOK' /\ OperationInv' /\ BatchInv' /\ VettedInv' /\ PublishInv'
  BY <1>1, ReturnStep DEF IInv, TypeOK
<1> QED
  BY <1>1, <1>2 DEF IInv, LeavesInv, HasVettedIndex, IndexContentPresent, LeafHasBlob,
                    RecordIsFrozen, OneLeafPerContent, PlainTextWasExposed

\* The leaves of the batch that trillian does not hold yet may be appended.
LEMMA BatchIsNew ==
  ASSUME IInv, pc = "append", NEW A \in SUBSET batch,
         Digests(A) \cap Digests(tree \cup queue) = {}
  PROVE  \A l \in A :
           /\ l \in Leaf
           /\ l.isIndex <=> l.data \in RecordIndex
           /\ l.isIndex => WellFormed(l.data) /\ Contents(l.data) \subseteq Digests(tree)
           /\ l.data \in RecordMetadata => l.state = l.data.state
           /\ l.data \in Files => l.state = "unvetted" \/ HasVettedIndex
           /\ storeKey(l) \in store
           /\ l.data \notin Digests(tree \cup queue)
           /\ \A k \in A : k.data = l.data => k = l
<1> SUFFICES ASSUME NEW l \in A
             PROVE  /\ l \in Leaf
                    /\ l.isIndex <=> l.data \in RecordIndex
                    /\ l.isIndex => WellFormed(l.data) /\ Contents(l.data) \subseteq Digests(tree)
                    /\ l.data \in RecordMetadata => l.state = l.data.state
                    /\ l.data \in Files => l.state = "unvetted" \/ HasVettedIndex
                    /\ storeKey(l) \in store
                    /\ l.data \notin Digests(tree \cup queue)
                    /\ \A k \in A : k.data = l.data => k = l
  OBVIOUS
<1>1. /\ l \in Leaf /\ (l.isIndex <=> l.data \in RecordIndex) /\ ~l.isIndex
      /\ l.data \in Contents(cur) /\ l.state = cur.rm.state /\ storeKey(l) \in store
      /\ \A k \in A : k.data = l.data => k = l
  BY DEF IInv, TypeOK, BatchInv, Saving
<1>2. cur \in RecordIndex
  BY DEF IInv, TypeOK
<1>3. l.data \in RecordMetadata => l.state = l.data.state
  BY <1>1, <1>2, ContentsData
<1>4. l.data \in Files => l.data \in cur.rm.files
  <2>1. cur.rm \notin Files /\ cur.md \cap Files = {}
    BY <1>2, DataAssumption DEF RecordIndex
  <2> QED
    BY <1>1, <2>1 DEF Contents
<1>5. l.data \in Files => l.state = "unvetted" \/ HasVettedIndex
  <2>1. Publishing => l.data \notin cur.rm.files
    BY DEF IInv, PublishInv, Digests
  <2>2. cur.rm.state \in {"unvetted", "vetted"}
    BY <1>2 DEF RecordIndex, RecordMetadata, StateT
  <2> QED
    BY <1>1, <1>4, <2>1, <2>2 DEF IInv, VettedInv
<1>6. l.data \notin Digests(tree \cup queue)
  BY DEF Digests
<1> QED
  BY <1>1, <1>3, <1>5, <1>6

\* Appending the whole batch gives all content of the new index a leaf.
LEMMA AppendLeavesStep == IInv /\ AppendLeaves => IInv'
<1> SUFFICES ASSUME IInv, AppendLeaves PROVE IInv'
  OBVIOUS
<1>1. /\ pc = "append" /\ tree' = tree \cup batch
      /\ Digests(batch) \cap Digests(tree \cup queue) = {}
      /\ pc' = IF Publishing THEN "resave" ELSE "indexPut"
      /\ UNCHANGED <<cur, batch, queue, store, op, clock, faults, exposed, acked>>
  BY DEF AppendLeaves, Goto
<1>2. /\ tree' \subseteq Leaf /\ queue' \subseteq Leaf
      /\ \A l \in tree' \cup queue' : l.isIndex <=> l.data \in RecordIndex
      /\ LeavesInv' /\ IndexContentPresent' /\ LeafHasBlob' /\ OneLeafPerContent'
  <2>1. tree \subseteq tree' /\ tree' \cup queue' = tree \cup queue \cup batch
    BY <1>1
  <2> QED
    BY <1>1, <2>1, BatchIsNew, NewLeaves
<1>3. TypeOK'
  BY <1>1, <1>2 DEF IInv, TypeOK
<1>4. OperationInv'
  <2>1. Contents(cur) \subseteq Digests(tree')
    BY <1>1 DEF IInv, OperationInv, Digests
  <2>2. {l \in tree' \cup queue' : l.isIndex} = {l \in tree \cup queue : l.isIndex}
    BY <1>1 DEF IInv, BatchInv
  <2> QED
    BY <1>1, <2>1, <2>2 DEF IInv, OperationInv, Saving, Publishing
<1>5. BatchInv'
  BY <1>1 DEF IInv, BatchInv, Saving
<1>6. VettedInv' /\ PublishInv'
  BY <1>1 DEF IInv, VettedInv, PublishInv, Publishing, HasVettedIndex, Saving
<1>7. PlainTextWasExposed'
  BY <1>1 DEF IInv, PlainTextWasExposed
<1> QED
  BY <1>2, <1>3, <1>4, <1>5, <1>6, <1>7 DEF IInv

\* Appending what is new of a batch that holds a duplicate keeps leaves unique.
LEMMA AppendDuplicateStep == IInv /\ AppendDuplicate => IInv'
<1> SUFFICES ASSUME IInv, AppendDuplicate PROVE IInv'
  OBVIOUS
<1> DEFINE A == {l \in batch : l.data \notin Digests(tree)}
<1>1. /\ pc = "append" /\ tree' = tree \cup A
      /\ Digests(batch) \cap Digests(queue) = {}
      /\ Return
      /\ UNCHANGED <<queue, store, op, clock, faults, exposed, acked>>
  BY DEF AppendDuplicate
<1>2. Digests(A) \cap Digests(tree \cup queue) = {}
  BY <1>1 DEF Digests
<1>3. /\ tree' \subseteq Leaf /\ queue' \subseteq Leaf
      /\ \A l \in tree' \cup queue' : l.isIndex <=> l.data \in RecordIndex
      /\ LeavesInv' /\ IndexContentPresent' /\ LeafHasBlob' /\ OneLeafPerContent'
  <2>1. A \in SUBSET batch /\ tree \subseteq tree' /\ tree' \cup queue' = tree \cup queue \cup A
    BY <1>1
  <2> HIDE DEF A
  <2> QED
    BY <1>1, <1>2, <2>1, BatchIsNew, NewLeaves
<1>4. TypeOK' /\ OperationInv' /\ BatchInv' /\ VettedInv' /\ PublishInv'
  BY <1>1, <1>3, ReturnStep DEF IInv, TypeOK
<1>5. PlainTextWasExposed'
  BY <1>1 DEF IInv, PlainTextWasExposed
<1> QED
  BY <1>3, <1>4, <1>5 DEF IInv

\* A publication always finds encrypted content to save again.
LEMMA ResaveLeavesExist ==
  ASSUME IInv, pc = "resave"
  PROVE  ResaveLeaves # {}
<1>0. Publishing
  BY DEF IInv, OperationInv
<1>1. cur \in RecordIndex
  BY DEF IInv, TypeOK
<1>2. PICK f \in cur.rm.files : \E l \in tree : l.data = f /\ l.state = "unvetted"
  BY <1>0 DEF IInv, PublishInv
<1>3. f \in Contents(cur) \ Digests(batch)
  BY <1>0, <1>1, <1>2, ContentsData DEF IInv, PublishInv
<1> QED
  BY <1>2, <1>3 DEF ResaveLeaves

\* Saving content again as plain text exposes published content only.
LEMMA ResaveStep == IInv /\ ResavePlainText => IInv'
<1> SUFFICES ASSUME IInv, ResavePlainText PROVE IInv'
  OBVIOUS
<1>1. /\ pc = "resave"
      /\ store' = store \cup {storeKeyNoPrefix(l) : l \in ResaveLeaves}
      /\ UNCHANGED <<tree, queue, op, clock, faults, exposed, acked>>
      /\ IF ResaveLeaves = {} THEN Return ELSE Goto("indexPut")
  BY DEF ResavePlainText
<1>2. PlainTextWasExposed'
  <2>1. ASSUME NEW l \in ResaveLeaves PROVE storeKeyNoPrefix(l).data \in exposed
    <3>1. cur.rm.state = "vetted"
      BY <1>1 DEF IInv, VettedInv, OperationInv, WellFormed, Publishing
    <3>2. l.data \in Contents(cur)
      BY <2>1 DEF ResaveLeaves
    <3> QED
      BY <1>1, <3>1, <3>2 DEF IInv, VettedInv, Saving, storeKeyNoPrefix, Key
  <2> QED
    BY <1>1, <2>1 DEF IInv, PlainTextWasExposed
<1>3. LeavesInv' /\ IndexContentPresent' /\ LeafHasBlob' /\ OneLeafPerContent'
  BY <1>1 DEF IInv, LeavesInv, HasVettedIndex, IndexContentPresent, LeafHasBlob,
              RecordIsFrozen, OneLeafPerContent
<1>4. CASE ResaveLeaves = {}
  <2>1. TypeOK' /\ OperationInv' /\ BatchInv' /\ VettedInv' /\ PublishInv'
    BY <1>1, <1>4, ReturnStep DEF IInv, TypeOK
  <2> QED
    BY <1>2, <1>3, <2>1 DEF IInv
<1>5. CASE ResaveLeaves # {}
  <2>1. pc' = "indexPut" /\ UNCHANGED <<cur, batch>>
    BY <1>1, <1>5 DEF Goto
  <2>2. TypeOK' /\ OperationInv' /\ BatchInv'
    BY <1>1, <2>1 DEF IInv, TypeOK, OperationInv, BatchInv, Saving
  <2>3. VettedInv' /\ PublishInv'
    BY <1>1, <2>1 DEF IInv, VettedInv, PublishInv, Saving, Publishing, HasVettedIndex
  <2> QED
    BY <1>2, <1>3, <2>2, <2>3 DEF IInv
<1> QED
  BY <1>4, <1>5

\* The index blob is in the store before its leaf is appended.
LEMMA PutIndexStep == IInv /\ PutIndex => IInv'
<1> SUFFICES ASSUME IInv, PutIndex PROVE IInv'
  OBVIOUS
<1>1. /\ pc = "indexPut" /\ pc' = "indexAppend"
      /\ store' = store \cup {storeKey(IndexLeaf)}
      /\ UNCHANGED <<tree, queue, cur, batch, op, clock, faults, exposed, acked>>
  BY DEF PutIndex, Goto
<1>2. TypeOK' /\ OperationInv' /\ BatchInv'
  BY <1>1 DEF IInv, TypeOK, OperationInv, BatchInv, Saving, IndexLeaf, NewLeaf, storeKey
<1>3. VettedInv' /\ PublishInv'
  BY <1>1 DEF IInv, VettedInv, PublishInv, Saving, Publishing, HasVettedIndex
<1>4. LeavesInv' /\ IndexContentPresent' /\ LeafHasBlob' /\ OneLeafPerContent'
  BY <1>1 DEF IInv, LeavesInv, HasVettedIndex, IndexContentPresent, LeafHasBlob,
              RecordIsFrozen, OneLeafPerContent
<1>5. PlainTextWasExposed'
  <2>1. cur \in RecordIndex
    BY DEF IInv, TypeOK
  <2>2. storeKey(IndexLeaf).data = cur
        /\ (~storeKey(IndexLeaf).encrypted => cur.rm.state = "vetted")
    BY <2>1 DEF storeKey, Key, IndexLeaf, NewLeaf, RecordIndex, RecordMetadata, StateT
  <2> QED
    BY <1>1, <2>1, <2>2 DEF IInv, PlainTextWasExposed
<1> QED
  BY <1>2, <1>3, <1>4, <1>5 DEF IInv

\* The index leaf may be appended: no index like it is in the tree or the queue.
LEMMA IndexLeafIsNewLeaf ==
  ASSUME IInv, pc = "indexAppend"
  PROVE  /\ IndexLeaf \in Leaf
         /\ IndexLeaf.isIndex /\ IndexLeaf.data = cur
         /\ cur \in RecordIndex /\ cur \notin RecordMetadata /\ cur \notin Files
         /\ WellFormed(cur) /\ Contents(cur) \subseteq Digests(tree)
         /\ storeKey(IndexLeaf) \in store
         /\ cur \notin Digests(tree \cup queue)
<1>1. cur \in RecordIndex /\ op \in Nat
  BY ConstantsAssumption DEF IInv, TypeOK
<1>2. IndexLeaf \in Leaf /\ IndexLeaf.isIndex /\ IndexLeaf.data = cur
  BY <1>1 DEF IndexLeaf, NewLeaf, Leaf, RecordIndex, RecordMetadata
<1>3. cur \notin RecordMetadata /\ cur \notin Files
  BY <1>1, DataDisjoint, DataAssumption
<1>4. cur \notin Digests(tree \cup queue)
  BY <1>1 DEF IInv, OperationInv, TypeOK, Saving, Digests
<1> QED
  BY <1>1, <1>2, <1>3, <1>4 DEF IInv, OperationInv, VettedInv

\* The index leaf is appended when all its content has leaves and blobs.
LEMMA AppendIndexStep == IInv /\ AppendIndex => IInv'
<1> SUFFICES ASSUME IInv, AppendIndex PROVE IInv'
  OBVIOUS
<1>1. /\ pc = "indexAppend" /\ tree' = tree \cup {IndexLeaf}
      /\ UNCHANGED <<queue, store, op, clock, faults, exposed>>
      /\ IF cur.frozen /\ cur.rm.status = "censored" THEN Goto("delete") ELSE Return
  BY DEF AppendIndex
<1>2. /\ tree' \subseteq Leaf /\ queue' \subseteq Leaf
      /\ \A l \in tree' \cup queue' : l.isIndex <=> l.data \in RecordIndex
      /\ LeavesInv' /\ IndexContentPresent' /\ LeafHasBlob' /\ OneLeafPerContent'
  <2>1. PICK A : A = {IndexLeaf}
    OBVIOUS
  <2>2. tree \subseteq tree' /\ tree' \cup queue' = tree \cup queue \cup A
    BY <1>1, <2>1
  <2>3. \A l \in A : l = IndexLeaf
    BY <2>1
  <2>4. pc = "indexAppend" /\ store' = store
    BY <1>1
  <2>5. \A l \in A :
          /\ l \in Leaf
          /\ l.isIndex <=> l.data \in RecordIndex
          /\ l.isIndex => WellFormed(l.data) /\ Contents(l.data) \subseteq Digests(tree)
          /\ l.data \in RecordMetadata => l.state = l.data.state
          /\ l.data \in Files => l.state = "unvetted" \/ HasVettedIndex
          /\ storeKey(l) \in store
          /\ l.data \notin Digests(tree \cup queue)
          /\ \A k \in A : k.data = l.data => k = l
    BY <2>3, <2>4, IndexLeafIsNewLeaf
  <2> QED
    BY <2>2, <2>4, <2>5, NewLeaves
<1>3. PlainTextWasExposed'
  BY <1>1 DEF IInv, PlainTextWasExposed
<1>4. CASE cur.frozen /\ cur.rm.status = "censored"
  <2>1. pc' = "delete" /\ UNCHANGED <<cur, batch>>
    BY <1>1, <1>4 DEF Goto
  <2>2. RecordIsFrozen'
    BY <1>1, <1>4, <2>1, IndexLeafIsNewLeaf DEF RecordIsFrozen
  <2>3. TypeOK' /\ OperationInv' /\ BatchInv'
    BY <1>1, <1>2, <2>1, <2>2 DEF IInv, TypeOK, OperationInv, BatchInv, Saving
  <2>4. VettedInv' /\ PublishInv'
    BY <1>1, <2>1 DEF IInv, VettedInv, PublishInv, Saving, Publishing, HasVettedIndex
  <2> QED
    BY <1>2, <1>3, <2>3, <2>4 DEF IInv
<1>5. CASE ~(cur.frozen /\ cur.rm.status = "censored")
  <2>1. TypeOK' /\ OperationInv' /\ BatchInv' /\ VettedInv' /\ PublishInv'
    BY <1>1, <1>2, <1>5, ReturnStep DEF IInv, TypeOK
  <2> QED
    BY <1>2, <1>3, <2>1 DEF IInv
<1> QED
  BY <1>4, <1>5

\* Deleting blobs takes away only those of files of a frozen record.
LEMMA RecordDelStep == IInv /\ RecordDel => IInv'
<1> SUFFICES ASSUME IInv, RecordDel PROVE IInv'
  OBVIOUS
<1> DEFINE gone == {storeKey(l) : l \in FileLeaves(tree)}
                   \cup {storeKeyNoPrefix(l) : l \in FileLeaves(tree)}
<1>1. /\ pc = "delete" /\ Return
      /\ store' = store \ gone \/ store' = store
      /\ UNCHANGED <<tree, queue, op, clock, faults, exposed>>
  BY DEF RecordDel
<1>2. \A k \in gone : k.data \in Files
  <2>1. ASSUME NEW l \in FileLeaves(tree) PROVE l.data \in Files
    <3>1. PICK i \in recordIndexes(tree) : l.data \in i.rm.files
      BY DEF FileLeaves
    <3>2. i \in RecordIndex
      BY DEF recordIndexes, IndexesIn, IInv, TypeOK
    <3> QED
      BY <3>1, <3>2, ContentsData
  <2> QED
    BY <2>1 DEF storeKey, storeKeyNoPrefix, Key
<1> HIDE DEF gone
<1>3. LeafHasBlob'
  <2>1. RecordIsFrozen /\ RecordIsFrozen'
    BY <1>1 DEF IInv, OperationInv, RecordIsFrozen
  <2>2. \A l : storeKey(l).data = l.data
    BY DEF storeKey, Key
  <2> QED
    BY <1>1, <1>2, <2>1, <2>2 DEF IInv, LeafHasBlob
<1>4. TypeOK' /\ OperationInv' /\ BatchInv' /\ VettedInv' /\ PublishInv'
  BY <1>1, ReturnStep DEF IInv, TypeOK
<1>5. LeavesInv' /\ IndexContentPresent' /\ OneLeafPerContent' /\ PlainTextWasExposed'
  BY <1>1 DEF IInv, LeavesInv, HasVettedIndex, IndexContentPresent,
              OneLeafPerContent, PlainTextWasExposed
<1> QED
  BY <1>3, <1>4, <1>5 DEF IInv

\* A failure may leave any part of the leaves in flight queued.
LEMMA FailStep == IInv /\ Fail => IInv'
<1> SUFFICES ASSUME IInv, Fail PROVE IInv'
  OBVIOUS
<1>1. PICK q \in SUBSET InFlight : queue' = queue \cup q
  BY DEF Fail
<1>2. /\ Return /\ faults' = faults + 1 /\ faults < MaxFaults
      /\ UNCHANGED <<tree, store, op, clock, exposed, acked>>
  BY DEF Fail
<1>3. /\ tree' \subseteq Leaf /\ queue' \subseteq Leaf
      /\ \A l \in tree' \cup queue' : l.isIndex <=> l.data \in RecordIndex
      /\ LeavesInv' /\ IndexContentPresent' /\ LeafHasBlob' /\ OneLeafPerContent'
  <2>0. tree \subseteq tree' /\ tree' \cup queue' = tree \cup queue \cup q
    BY <1>1, <1>2
  <2>1. CASE pc = "append"
    <3>1. q \in SUBSET batch /\ Digests(q) \cap Digests(tree \cup queue) = {}
      BY <1>1, <2>1 DEF InFlight, Digests
    <3> QED
      BY <1>2, <2>0, <2>1, <3>1, BatchIsNew, NewLeaves
  <2>2. CASE pc = "indexAppend"
    <3>1. \A l \in q : l = IndexLeaf
      BY <1>1, <2>2 DEF InFlight
    <3> QED
      BY <1>2, <2>0, <2>2, <3>1, IndexLeafIsNewLeaf, NewLeaves
  <2>3. CASE pc \notin {"append", "indexAppend"}
    <3>1. \A l \in q : FALSE
      BY <1>1, <2>3 DEF InFlight
    <3> QED
      BY <1>2, <2>0, <3>1, NewLeaves
  <2> QED
    BY <2>1, <2>2, <2>3
<1>4. TypeOK' /\ OperationInv' /\ BatchInv' /\ VettedInv' /\ PublishInv'
  <2>1. faults' \in 0..MaxFaults
    BY <1>2, ConstantsAssumption DEF IInv, TypeOK
  <2> QED
    BY <1>2, <1>3, <2>1, ReturnStep
<1>5. PlainTextWasExposed'
  BY <1>2 DEF IInv, PlainTextWasExposed
<1> QED
  BY <1>3, <1>4, <1>5 DEF IInv

\* A late leaf meets all that is asked of the leaves of the tree.
LEMMA IntegrateStep == IInv /\ Integrate => IInv'
<1> SUFFICES ASSUME IInv, Integrate PROVE IInv'
  OBVIOUS
<1>1. PICK l \in queue :
        /\ queue' = queue \ {l} /\ tree' = tree \cup {l}
        /\ UNCHANGED <<store, pc, cur, batch, op, clock, faults, exposed, acked>>
  BY DEF Integrate
<1>2. tree \subseteq tree' /\ tree' \cup queue' = tree \cup queue
  BY <1>1
<1>3. /\ tree' \subseteq Leaf /\ queue' \subseteq Leaf
      /\ \A k \in tree' \cup queue' : k.isIndex <=> k.data \in RecordIndex
      /\ LeavesInv' /\ IndexContentPresent' /\ LeafHasBlob' /\ OneLeafPerContent'
  <2>1. PICK A : A = {}
    OBVIOUS
  <2>2. tree' \cup queue' = tree \cup queue \cup A /\ \A k \in A : FALSE
    BY <1>2, <2>1
  <2> QED
    BY <1>1, <1>2, <2>2, NewLeaves
<1>4. Digests(tree) \subseteq Digests(tree')
  BY <1>2, DigestsMonotone
<1>5. TypeOK'
  BY <1>1, <1>3 DEF IInv, TypeOK
<1>6. OperationInv'
  <2>1. {k \in tree' \cup queue' : k.isIndex} = {k \in tree \cup queue : k.isIndex}
    BY <1>2
  <2>2. RecordIsFrozen => RecordIsFrozen'
    BY <1>2 DEF RecordIsFrozen
  <2>3. IndexLeaf' = IndexLeaf
    BY <1>1 DEF IndexLeaf, NewLeaf
  <2> QED
    BY <1>1, <1>4, <2>1, <2>2, <2>3 DEF IInv, OperationInv, Saving, Publishing
<1>7. BatchInv'
  BY <1>1 DEF IInv, BatchInv, Saving
<1>8. VettedInv' /\ PublishInv'
  BY <1>1, <1>2 DEF IInv, VettedInv, PublishInv, Saving, Publishing, HasVettedIndex
<1>9. PlainTextWasExposed'
  BY <1>1 DEF IInv, PlainTextWasExposed
<1> QED
  BY <1>3, <1>5, <1>6, <1>7, <1>8, <1>9 DEF IInv

\* The invariant is inductive.
LEMMA NextStep == IInv /\ [Next]_vars => IInv'
<1> SUFFICES ASSUME IInv, [Next]_vars PROVE IInv'
  OBVIOUS
<1>1. CASE UNCHANGED vars
  <2>1. /\ TypeOK' /\ OperationInv' /\ BatchInv' /\ LeavesInv' /\ VettedInv'
        /\ PublishInv'
    BY <1>1 DEF vars, IInv, TypeOK, OperationInv, BatchInv, LeavesInv, VettedInv, PublishInv,
                Saving, Publishing, HasVettedIndex, RecordIsFrozen, IndexLeaf, NewLeaf
  <2>2. IndexContentPresent' /\ LeafHasBlob' /\ OneLeafPerContent' /\ PlainTextWasExposed'
    BY <1>1 DEF vars, IInv, IndexContentPresent, LeafHasBlob, RecordIsFrozen,
                OneLeafPerContent, PlainTextWasExposed
  <2> QED
    BY <2>1, <2>2 DEF IInv
<1>2. CASE Next
  BY <1>1, <1>2, OperationStep, SaveBlobsStep, SaveRefusedStep, AppendLeavesStep,
     AppendDuplicateStep, ResaveStep, PutIndexStep, AppendIndexStep, RecordDelStep,
     FailStep, IntegrateStep
     DEF Next, Waiting
<1> QED
  BY <1>1, <1>2

-----------------------------------------------------------------------------
(* The theorems. *)

\* IInv holds in every reachable state.
THEOREM Invariance == Spec => []IInv
  BY InitInv, NextStep, PTL DEF Spec

\* The tree, the queue and the operation in progress have their types.
THEOREM TypeCorrect == Spec => []TypeOK
<1>1. IInv => TypeOK
  BY DEF IInv
<1> QED
  BY <1>1, Invariance, PTL

\* An index in the tree, or queued for it, finds all its content in the tree:
\* appending the index is the commit point of recordSave, whatever step fails and
\* however late trillian integrates a leaf.
THEOREM IndexesAreComplete == Spec => []IndexContentPresent
<1>1. IInv => IndexContentPresent
  BY DEF IInv
<1> QED
  BY <1>1, Invariance, PTL

\* A leaf has its blob in the store, except file leaves of a frozen record.
THEOREM LeavesHaveBlobs == Spec => []LeafHasBlob
<1>1. IInv => LeafHasBlob
  BY DEF IInv
<1> QED
  BY <1>1, Invariance, PTL

\* The digest identifies a leaf.
THEOREM LeavesAreUnique == Spec => []OneLeafPerContent
<1>1. IInv => OneLeafPerContent
  BY DEF IInv
<1> QED
  BY <1>1, Invariance, PTL

\* Content that never was part of a vetted record is never stored in plain text.
THEOREM UnvettedStaysEncrypted == Spec => []PlainTextWasExposed
<1>1. IInv => PlainTextWasExposed
  BY DEF IInv
<1> QED
  BY <1>1, Invariance, PTL

\* The error of recordSave that "should not happen" does not happen.
THEOREM PublicationResaves == Spec => []ResaveFindsBlobs
<1>1. IInv => ResaveFindsBlobs
  BY ResaveLeavesExist DEF ResaveFindsBlobs
<1> QED
  BY <1>1, Invariance, PTL

\* recordIndexSave never meets a duplicate.
THEOREM IndexLeavesAreNew == Spec => []IndexLeafIsNew
<1>1. IInv => IndexLeafIsNew
  BY IndexLeafIsNewLeaf DEF IndexLeafIsNew
<1> QED
  BY <1>1, Invariance, PTL

\* The record metadata of an index can always be read, so record never
\* dereferences a missing one.
THEOREM MetadataIsReadable == Spec => []RecordMetadataIsReadable
<1>1. ASSUME IInv, NEW i \in recordIndexes(tree) PROVE i.rm \in record(i)
  <2>1. PICK l \in tree : l.isIndex /\ l.data = i
    BY DEF recordIndexes, IndexesIn
  <2>2. i \in RecordIndex /\ Contents(i) \subseteq Digests(tree)
    BY <1>1, <2>1 DEF IInv, TypeOK, IndexContentPresent
  <2>3. i.rm \in Contents(i) /\ i.rm \in RecordMetadata /\ i.rm \notin Files
        /\ i.rm.state \in StateT
    BY <2>2, DataAssumption DEF Contents, RecordIndex, RecordMetadata
  <2>4. PICK k \in tree : k.data = i.rm
    BY <2>2, <2>3 DEF Digests
  <2>5. storeKey(k) \in store /\ k.state = i.rm.state
    BY <1>1, <2>3, <2>4 DEF IInv, LeafHasBlob, LeavesInv
  <2>6. ReadKey(i, k) = storeKey(k)
    BY <2>3, <2>5 DEF ReadKey, storeKey, storeKeyNoPrefix, StateT
  <2> QED
    BY <2>3, <2>4, <2>5, <2>6 DEF record
<1>2. IInv => RecordMetadataIsReadable
  BY <1>1 DEF RecordMetadataIsReadable
<1> QED
  BY <1>2, Invariance, PTL

-----------------------------------------------------------------------------
(* The history of a record, when trillian is timely and a public record is not *)
(* given content that was only unvetted (Timely and not ReAdd).                *)

Indexes == recordIndexes(tree)
Vetted(i) == i.rm.state = "vetted"

\* One index per iteration, versions without a gap, and only the last one is frozen.
IsChain(is) ==
  LET n == Cardinality(is) IN
  /\ IsFiniteSet(is) /\ is \subseteq RecordIndex
  /\ \A i, j \in is : i.rm.iteration = j.rm.iteration => i = j
  /\ \A i \in is : i.rm.iteration \in 1..n
  /\ \A k \in 1..n : \E i \in is : i.rm.iteration = k
  /\ \A i \in is : i.rm.iteration = 1 => i.rm.version = 1
  /\ \A i, j \in is : j.rm.iteration = i.rm.iteration + 1 => j.rm.version \in {i.rm.version, i.rm.version + 1}
  /\ \A i \in is : \A v \in 1..i.rm.version : \E j \in is : j.rm.version = v
  /\ \A i \in is : i.frozen => i.rm.iteration = n
  /\ \A i, j \in is : i.rm.state = j.rm.state
  /\ \A i \in is : i.frozen <=> i.rm.status \in {"censored", "archived"}

LastOf(is) == {i \in is : i.rm.iteration = Cardinality(is)}

\* The index that follows index r.
Follows(i, r) ==
  /\ ~r.frozen
  /\ i.frozen <=> i.rm.status \in {"censored", "archived"}
  /\ \/ /\ i.rm.state = r.rm.state /\ i.rm.status = r.rm.status
        /\ i.rm.iteration = r.rm.iteration + 1
        /\ \/ i.rm.version = r.rm.version + 1 /\ i.rm.files \notin {{}, r.rm.files}
           \/ i.rm.version = r.rm.version /\ i.rm.files = r.rm.files
     \/ /\ i.rm.state = r.rm.state
        /\ i.rm.iteration = r.rm.iteration + 1
        /\ i.rm.version = r.rm.version /\ i.rm.files = r.rm.files
        /\ i.rm.status = "censored" \/ (i.rm.status = "archived" /\ r.rm.status = "public")
     \/ /\ r.rm.status = "unreviewed" /\ i.rm.status = "public" /\ i.rm.state = "vetted"
        /\ i.rm.version = 1 /\ i.rm.iteration = 1 /\ i.rm.files = r.rm.files

IsFirst(i) ==
  /\ i.rm.state = "unvetted" /\ i.rm.status = "unreviewed"
  /\ i.rm.version = 1 /\ i.rm.iteration = 1 /\ i.rm.files # {} /\ ~i.frozen

IsNext(i) ==
  \/ Indexes = {} /\ IsFirst(i)
  \/ \E r \in LastOf(Indexes) : Follows(i, r)

\* Where the tree, the queue and the operation in progress stand in the history.
ChainInv ==
  /\ IsChain(Indexes)
  /\ op = 0 => tree = {} /\ queue = {} /\ pc = "idle"
  /\ RecordIsFrozen => \E r \in LastOf(Indexes) : r.frozen
  /\ pc # "idle" => queue = {}
  /\ \A l \in queue : l.isIndex => queue = {l} /\ IsNext(l.data)
  /\ pc = "save" => IsNext(cur) \/ RecordIsFrozen
  /\ Saving => IsNext(cur)

\* What of a vetted record is in the store in plain text.
IsPlain(i) == \A c \in Contents(i) : \E l \in tree : l.data = c /\ storeKeyNoPrefix(l) \in store
PlainInv ==
  /\ ~RecordIsFrozen => \A l \in tree \cup queue : l.isIndex /\ Vetted(l.data) => IsPlain(l.data)
  /\ pc \in {"indexPut", "indexAppend"} /\ Vetted(cur) => IsPlain(cur)
  /\ pc \in {"save", "append"} /\ Vetted(cur) /\ ~Publishing /\ ~RecordIsFrozen =>
       \A l \in tree : l.data \in Contents(cur) => storeKeyNoPrefix(l) \in store
  /\ pc = "resave" => batch \subseteq tree

\* What was reported as censored is frozen for good, with nothing on its way to the tree.
CensorInv ==
  (\E i \in acked : i.rm.status = "censored") =>
    /\ RecordIsFrozen /\ queue = {} /\ pc \in {"idle", "save"}
    /\ CensoredFilesAreGone

HInv == ChainInv /\ PlainInv /\ CensorInv

LEMMA IndexesType ==
  ASSUME IInv
  PROVE  /\ Indexes \subseteq RecordIndex
         /\ \A i \in Indexes : WellFormed(i) /\ \E l \in tree : l.isIndex /\ l.data = i
         /\ \A i \in Indexes : i.rm.state = "vetted" <=> HasVettedIndex
<1>1. \A i \in Indexes : \E l \in tree : l.isIndex /\ l.data = i
  BY DEF Indexes, recordIndexes, IndexesIn
<1>2. \A l \in tree : l.isIndex => l.data \in RecordIndex /\ WellFormed(l.data)
  BY DEF IInv, TypeOK, LeavesInv
<1>3. \A i \in Indexes : i.rm.state = "vetted" <=> HasVettedIndex
  BY DEF Indexes, recordIndexes, IndexesIn, HasVettedIndex
<1> QED
  BY <1>1, <1>2, <1>3

LEMMA IndexFields ==
  ASSUME NEW i \in RecordIndex
  PROVE  /\ i.rm.iteration \in Nat /\ i.rm.version \in Nat
         /\ i.rm.state \in StateT /\ i.rm.status \in StatusT
         /\ i.rm.files \in SUBSET Files /\ i.md \in SUBSET Streams
BY DEF RecordIndex, RecordMetadata

\* A chain has no more indexes than its last one says.
LEMMA ChainEnds ==
  ASSUME NEW is, IsChain(is)
  PROVE  /\ Cardinality(is) \in Nat
         /\ (is = {} /\ LastOf(is) = {}) \/ \E r \in is : LastOf(is) = {r} /\ r.rm.iteration = Cardinality(is)
         /\ \A i, j \in is : j \in LastOf(is) => i.rm.iteration <= j.rm.iteration
         /\ Sane(is)
<1> DEFINE n == Cardinality(is)
<1>1. n \in Nat /\ (n = 0 <=> is = {})
  BY FS_CardinalityType, FS_EmptySet DEF IsChain
<1>2. \A i \in is : i.rm.iteration \in 1..n /\ i.rm.version \in Nat
  BY IndexFields DEF IsChain
<1>3. CASE is = {}
  BY <1>1, <1>3 DEF LastOf, Sane
<1>4. CASE is # {}
  <2>1. n \in 1..n
    BY <1>1, <1>4
  <2>2. PICK r \in is : r.rm.iteration = n
    BY <2>1 DEF IsChain
  <2>3. LastOf(is) = {r}
    BY <2>2 DEF LastOf, IsChain
  <2>4. \A i, j \in is : j \in LastOf(is) => i.rm.iteration <= j.rm.iteration
    BY <1>1, <1>2, <2>2, <2>3
  <2>5. Sane(is)
    <3>1. \A i, j \in is : j.rm.iteration = i.rm.iteration + 1 => j.rm.version - i.rm.version \in {0, 1}
      BY <1>2 DEF IsChain
    <3> QED
      BY <3>1 DEF Sane, IsChain
  <2> QED
    BY <1>1, <2>2, <2>3, <2>4, <2>5
<1> QED
  BY <1>3, <1>4

LEMMA LatestIsLast ==
  ASSUME IsChain(Indexes)
  PROVE  Latest(tree) = LastOf(Indexes)
<1>1. recordIndexLatest(tree) = {i \in Indexes : \A j \in Indexes : j.rm.iteration <= i.rm.iteration}
  BY DEF recordIndexLatest, recordIndex, Indexes
<1>2. \A i \in Indexes : i.rm.iteration \in Nat
  BY IndexFields DEF IsChain
<1>3. recordIndexLatest(tree) = LastOf(Indexes)
  <2>1. CASE Indexes = {}
    BY <1>1, <2>1 DEF LastOf
  <2>2. ASSUME NEW r \in Indexes, LastOf(Indexes) = {r}
        PROVE  recordIndexLatest(tree) = {r}
    <3>1. \A j \in Indexes : j.rm.iteration <= r.rm.iteration
      BY <2>2, ChainEnds
    <3>2. \A i \in Indexes : r.rm.iteration <= i.rm.iteration => i = r
      BY <1>2, <3>1 DEF IsChain
    <3> QED
      BY <1>1, <3>1, <3>2
  <2> QED
    BY <2>1, <2>2, ChainEnds
<1> QED
  BY <1>3, ChainEnds DEF Latest, Indexes

\* The first index, and the index of a publication.
LEMMA ChainStarts ==
  ASSUME NEW i \in RecordIndex, i.rm.iteration = 1, i.rm.version = 1,
         i.frozen <=> i.rm.status \in {"censored", "archived"}
  PROVE  IsChain({i}) /\ LastOf({i}) = {i}
<1>1. IsFiniteSet({i}) /\ Cardinality({i}) = 1
  BY FS_Singleton
<1> QED
  BY <1>1 DEF IsChain, LastOf

LEMMA ChainGrows ==
  ASSUME NEW is, IsChain(is), NEW r \in LastOf(is), NEW i \in RecordIndex, ~r.frozen,
         i.rm.iteration = r.rm.iteration + 1, i.rm.version \in {r.rm.version, r.rm.version + 1},
         i.rm.state = r.rm.state, i.frozen <=> i.rm.status \in {"censored", "archived"}
  PROVE  IsChain(is \cup {i}) /\ LastOf(is \cup {i}) = {i}
<1> DEFINE n == Cardinality(is)
           js == is \cup {i}
<1>1. /\ n \in Nat /\ r \in is /\ r.rm.iteration = n /\ i.rm.iteration = n + 1
      /\ \A j \in is : j.rm.iteration \in 1..n /\ j.rm.version \in Nat
  BY ChainEnds, IndexFields DEF LastOf, IsChain
<1>2. i \notin is
  BY <1>1
<1>3. IsFiniteSet(js) /\ Cardinality(js) = n + 1
  BY <1>2, FS_AddElement DEF IsChain
<1>4. \A j \in is : j.rm.iteration # n + 1
  BY <1>1
<1>5. LastOf(js) = {i}
  BY <1>1, <1>3, <1>4 DEF LastOf
<1>6. \A j, k \in js : j.rm.iteration = k.rm.iteration => j = k
  BY <1>1, <1>4 DEF IsChain
<1>7. \A j \in js : j.rm.iteration \in 1..(n + 1)
  BY <1>1
<1>8. \A k \in 1..(n + 1) : \E j \in js : j.rm.iteration = k
  <2>1. \A k \in 1..n : \E j \in is : j.rm.iteration = k
    BY DEF IsChain
  <2> QED
    BY <1>1, <2>1
<1>9. \A j \in js : j.rm.iteration = 1 => j.rm.version = 1
  BY <1>1 DEF IsChain
<1>10. \A j, k \in js : k.rm.iteration = j.rm.iteration + 1 => k.rm.version \in {j.rm.version, j.rm.version + 1}
  <2> SUFFICES ASSUME NEW j \in js, NEW k \in js, k.rm.iteration = j.rm.iteration + 1
               PROVE  k.rm.version \in {j.rm.version, j.rm.version + 1}
    OBVIOUS
  <2>1. CASE j \in is /\ k \in is
    BY <2>1 DEF IsChain
  <2>2. CASE k = i
    <3>1. j \in is /\ j.rm.iteration = n
      BY <1>1, <2>2
    <3>2. j = r
      BY <1>1, <3>1 DEF IsChain
    <3> QED
      BY <2>2, <3>2
  <2>3. CASE j = i /\ k \in is
    BY <1>1, <2>3
  <2> QED
    BY <2>1, <2>2, <2>3
<1>11. \A j \in js : \A v \in 1..j.rm.version : \E k \in js : k.rm.version = v
  <2> SUFFICES ASSUME NEW j \in js, NEW v \in 1..j.rm.version
               PROVE  \E k \in js : k.rm.version = v
    OBVIOUS
  <2>1. CASE \E k \in is : v \in 1..k.rm.version
    BY <2>1 DEF IsChain
  <2>2. CASE v = i.rm.version
    BY <2>2
  <2>3. (\E k \in is : v \in 1..k.rm.version) \/ v = i.rm.version
    BY <1>1
  <2> QED
    BY <2>1, <2>2, <2>3
<1>12. \A j \in js : j.frozen => j.rm.iteration = n + 1
  <2>1. \A j \in is : ~j.frozen
    BY <1>1 DEF IsChain
  <2> QED
    BY <1>1, <2>1
<1>13. (\A j, k \in js : j.rm.state = k.rm.state) /\ js \subseteq RecordIndex
  BY <1>1 DEF IsChain
<1>14. \A j \in js : j.frozen <=> j.rm.status \in {"censored", "archived"}
  BY DEF IsChain
<1> HIDE DEF n, js
<1>15. IsChain(js)
  BY <1>3, <1>6, <1>7, <1>8, <1>9, <1>10, <1>11, <1>12, <1>13, <1>14 DEF IsChain
<1> QED
  BY <1>5, <1>15 DEF js

\* Content leaves do not change the history.
LEMMA SameHistory ==
  ASSUME tree \subseteq tree', \A l \in tree' : l \in tree \/ ~l.isIndex
  PROVE  /\ Indexes' = Indexes
         /\ RecordIsFrozen' <=> RecordIsFrozen
         /\ \A i : IsNext(i)' <=> IsNext(i)
<1>1. IndexesIn(tree') = IndexesIn(tree)
  BY DEF IndexesIn
<1>2. Indexes' = Indexes
  BY <1>1 DEF Indexes, recordIndexes
<1>3. RecordIsFrozen' <=> RecordIsFrozen
  BY DEF RecordIsFrozen
<1>4. \A i : IsNext(i)' <=> IsNext(i)
  BY <1>2 DEF IsNext
<1> QED
  BY <1>2, <1>3, <1>4

\* The leaf of the next index.
LEMMA NextIndex ==
  ASSUME IInv, ChainInv, NEW l, l.isIndex, l.data \in RecordIndex, WellFormed(l.data),
         IsNext(l.data), tree' = tree \cup {l}
  PROVE  /\ IsChain(Indexes') /\ LastOf(Indexes') = {l.data}
         /\ ~RecordIsFrozen /\ (RecordIsFrozen' <=> l.data.frozen)
<1> DEFINE i == l.data
<1>1. IndexesIn(tree') = IndexesIn(tree) \cup {i}
  BY DEF IndexesIn
<1>2. ~RecordIsFrozen
  <2>1. CASE Indexes = {}
    BY <2>1 DEF ChainInv, LastOf
  <2>2. CASE Indexes # {}
    <3>1. PICK r \in LastOf(Indexes) : ~r.frozen
      BY <2>2 DEF IsNext, Follows
    <3> QED
      BY <3>1, ChainEnds DEF ChainInv
  <2> QED
    BY <2>1, <2>2
<1>3. RecordIsFrozen' <=> i.frozen
  BY <1>2 DEF RecordIsFrozen
<1>4. HasVettedIndex <=> \E j \in IndexesIn(tree) : j.rm.state = "vetted"
  BY DEF HasVettedIndex, IndexesIn
<1>5. IsChain(Indexes') /\ LastOf(Indexes') = {i}
  <2>1. CASE Indexes = {} /\ IsFirst(i)
    <3>1. IndexesIn(tree) = {}
      BY <2>1 DEF Indexes, recordIndexes
    <3>2. Indexes' = {i}
      BY <1>1, <2>1, <3>1 DEF Indexes, recordIndexes, IsFirst
    <3> QED
      BY <2>1, <3>2, ChainStarts DEF IsFirst
  <2>2. ASSUME NEW r \in LastOf(Indexes), Follows(i, r)
        PROVE  IsChain(Indexes') /\ LastOf(Indexes') = {i}
    <3>1. r \in Indexes /\ r.rm.state \in StateT /\ (r.rm.state = "vetted" <=> HasVettedIndex)
      BY IndexesType, IndexFields DEF LastOf
    <3>2. CASE i.rm.state = r.rm.state
      <4>1. Indexes' = Indexes \cup {i}
        <5>1. CASE r.rm.state = "vetted"
          <6>1. Indexes = {j \in IndexesIn(tree) : j.rm.state = "vetted"}
            BY <1>4, <3>1, <5>1 DEF Indexes, recordIndexes
          <6>2. Indexes' = {j \in IndexesIn(tree) \cup {i} : j.rm.state = "vetted"}
            BY <1>1, <3>2, <5>1 DEF Indexes, recordIndexes
          <6> QED
            BY <3>2, <5>1, <6>1, <6>2
        <5>2. CASE r.rm.state # "vetted"
          <6>1. Indexes = IndexesIn(tree) /\ \A j \in IndexesIn(tree) : j.rm.state # "vetted"
            BY <1>4, <3>1, <5>2 DEF Indexes, recordIndexes
          <6> QED
            BY <1>1, <3>2, <5>2, <6>1 DEF Indexes, recordIndexes
        <5> QED
          BY <5>1, <5>2
      <4>2. i.rm.iteration = r.rm.iteration + 1 /\ i.rm.version \in {r.rm.version, r.rm.version + 1}
        <5>1. WellFormed(r)
          BY <3>1, IndexesType
        <5> QED
          BY <2>2, <3>2, <5>1 DEF Follows, WellFormed
      <4> QED
        BY <2>2, <3>2, <4>1, <4>2, ChainGrows DEF ChainInv, Follows
    <3>3. CASE i.rm.state # r.rm.state
      <4>1. /\ r.rm.status = "unreviewed" /\ i.rm.state = "vetted"
            /\ i.rm.version = 1 /\ i.rm.iteration = 1
        BY <2>2, <3>3 DEF Follows
      <4>2. r.rm.state = "unvetted"
        BY <3>1, <4>1, IndexesType DEF WellFormed
      <4>3. Indexes' = {i}
        BY <1>1, <1>4, <3>1, <4>1, <4>2 DEF Indexes, recordIndexes
      <4> QED
        BY <2>2, <4>1, <4>3, ChainStarts DEF Follows
    <3> QED
      BY <3>2, <3>3
  <2> QED
    BY <2>1, <2>2 DEF IsNext
<1> QED
  BY <1>2, <1>3, <1>5

-----------------------------------------------------------------------------
(* Operations begin with the next index. *)

\* While the record is not frozen all of it can be read.
LEMMA RecordIsWhole ==
  ASSUME IInv, PlainInv, ~RecordIsFrozen, NEW i \in Indexes
  PROVE  record(i) = Contents(i) /\ record(i) \cap Files = i.rm.files
<1>1. PICK l \in tree : l.isIndex /\ l.data = i
  BY IndexesType
<1>2. i \in RecordIndex /\ Contents(i) \subseteq Digests(tree)
  BY <1>1, IndexesType DEF IInv, IndexContentPresent
<1>3. ASSUME NEW c \in Contents(i)
      PROVE  \E k \in tree : k.data = c /\ ReadKey(i, k) \in store
  <2>1. CASE i.rm.state = "vetted"
    BY <1>1, <1>3, <2>1 DEF PlainInv, Vetted, IsPlain, ReadKey
  <2>2. CASE i.rm.state # "vetted"
    <3>1. PICK k \in tree : k.data = c
      BY <1>2, <1>3 DEF Digests
    <3>2. storeKey(k) \in store
      BY DEF IInv, LeafHasBlob
    <3> QED
      BY <2>2, <3>1, <3>2 DEF ReadKey
  <2> QED
    BY <2>1, <2>2
<1>4. record(i) = Contents(i)
  BY <1>3 DEF record
<1>5. Contents(i) \cap Files = i.rm.files
  BY <1>2, ContentsData, DataAssumption, IndexFields DEF Contents
<1> QED
  BY <1>4, <1>5

\* An operation on the latest index r keeps plain text what it keeps of the record.
IsKept(c) == \A l \in tree : l.data = c => storeKeyNoPrefix(l) \in store

LEMMA HistoryBegins ==
  ASSUME IInv, HInv, Timely, NEW rm \in RecordMetadata, NEW md \in SUBSET Streams,
         NEW frozen \in BOOLEAN, Begin(rm, md, frozen),
         ~RecordIsFrozen =>
           /\ \A i \in RecordIndex : i.rm = rm /\ i.frozen = frozen => IsNext(i)
           /\ rm.state = "vetted" /\ ~(rm.status = "public" /\ rm.iteration = 1) =>
                \A c \in rm.files \cup md : IsKept(c)
  PROVE  HInv'
<1> DEFINE i == [rm |-> rm, md |-> md, frozen |-> frozen]
<1>1. /\ pc = "idle" /\ pc' = "save" /\ cur' = i /\ op' = op + 1 /\ queue = {}
      /\ UNCHANGED <<tree, queue, store, acked>>
  BY DEF Begin
<1>2. i \in RecordIndex /\ i.rm = rm /\ i.md = md /\ i.frozen = frozen
  BY DEF RecordIndex
<1> HIDE DEF i
<1>3. /\ Indexes' = Indexes /\ (RecordIsFrozen' <=> RecordIsFrozen)
      /\ \A j : IsNext(j)' <=> IsNext(j)
  BY <1>1, SameHistory
<1>4. ChainInv'
  <2>1. op' # 0 /\ op' \in Nat
    BY <1>1, ConstantsAssumption DEF IInv, TypeOK
  <2>2. pc' = "save" => IsNext(cur)' \/ RecordIsFrozen'
    <3>1. ~RecordIsFrozen => IsNext(i)
      BY <1>2
    <3> QED
      BY <1>1, <1>3, <3>1 DEF IsNext
  <2> QED
    BY <1>1, <1>3, <2>1, <2>2 DEF HInv, ChainInv, Saving
<1>5. PlainInv'
  <2>1. ~RecordIsFrozen' => \A l \in tree' \cup queue' : l.isIndex /\ Vetted(l.data) => IsPlain(l.data)'
    BY <1>1, <1>3 DEF HInv, PlainInv, IsPlain
  <2>2. ASSUME Vetted(i), ~(rm.status = "public" /\ rm.iteration = 1), ~RecordIsFrozen,
               NEW l \in tree, l.data \in Contents(i)
        PROVE  storeKeyNoPrefix(l) \in store
    <3>1. CASE l.data = rm
      <4>1. l.state = "vetted" /\ storeKey(l) \in store
        BY <1>2, <2>2, <3>1 DEF IInv, LeavesInv, LeafHasBlob, Vetted
      <4> QED
        BY <4>1 DEF storeKey, storeKeyNoPrefix
    <3>2. CASE l.data \in rm.files \cup md
      BY <1>2, <2>2, <3>2 DEF IsKept, Vetted
    <3> QED
      BY <1>2, <2>2, <3>1, <3>2 DEF Contents
  <2> QED
    BY <1>1, <1>2, <1>3, <2>1, <2>2 DEF PlainInv, Publishing
<1>6. CensorInv'
  <2>1. CensoredFilesAreGone' <=> CensoredFilesAreGone
    BY <1>1, <1>3 DEF CensoredFilesAreGone, Indexes
  <2> QED
    BY <1>1, <1>3, <2>1 DEF HInv, CensorInv
<1> QED
  BY <1>4, <1>5, <1>6 DEF HInv

\* The latest index of a record that is not frozen.
LEMMA LatestFacts ==
  ASSUME IInv, HInv, NEW r \in Latest(tree)
  PROVE  /\ r \in LastOf(Indexes) /\ r \in Indexes /\ r \in RecordIndex /\ WellFormed(r)
         /\ ~RecordIsFrozen => /\ ~r.frozen /\ r.rm.status \notin {"censored", "archived"}
                               /\ record(r) \cap Files = r.rm.files
<1>1. r \in LastOf(Indexes) /\ r \in Indexes
  BY LatestIsLast DEF HInv, ChainInv, LastOf
<1>2. r \in RecordIndex /\ WellFormed(r) /\ \E l \in tree : l.isIndex /\ l.data = r
  BY <1>1, IndexesType
<1>3. ~RecordIsFrozen => ~r.frozen
  BY <1>2 DEF RecordIsFrozen
<1>4. r.frozen <=> r.rm.status \in {"censored", "archived"}
  BY <1>1 DEF HInv, ChainInv, IsChain
<1>5. ~RecordIsFrozen => record(r) \cap Files = r.rm.files
  BY <1>1, RecordIsWhole DEF HInv
<1> QED
  BY <1>1, <1>2, <1>3, <1>4, <1>5

\* What is read of a vetted record is in plain text.
LEMMA ReadIsKept ==
  ASSUME IInv, NEW r, r.rm.state = "vetted", NEW c \in record(r)
  PROVE  IsKept(c)
BY DEF IInv, OneLeafPerContent, record, ReadKey, IsKept

LEMMA NotUnvettedOnly ==
  ASSUME NEW S, S \cap UnvettedOnly = {}, NEW c \in S
  PROVE  IsKept(c)
BY DEF UnvettedOnly, IsKept

LEMMA HistoryOperations ==
  ASSUME IInv, HInv, Timely, ~ReAdd,
         \/ \E f \in FileSets, m \in NewStreams : RecordNew(f, m)
         \/ \E f \in FileSets, m \in SUBSET Streams : RecordEdit(f, m)
         \/ \E m \in NewStreams : RecordEditMetadata(m)
         \/ \E s \in StatusT, m \in SUBSET Streams : RecordSetStatus(s, m)
  PROVE  HInv'
<1>0. Tick => clock' \in Nat
  BY DEF Tick, IInv, TypeOK
<1>1. ASSUME NEW f \in FileSets, NEW m \in NewStreams, RecordNew(f, m) PROVE HInv'
  <2> DEFINE rm == recordMetadataNew(f, "unvetted", "unreviewed", 1, 1)
  <2>1. /\ rm \in RecordMetadata /\ rm.state = "unvetted" /\ rm.status = "unreviewed"
        /\ rm.iteration = 1 /\ rm.version = 1 /\ rm.files = f /\ f # {}
    BY <1>0, <1>1 DEF RecordNew, FileSets, recordMetadataNew, RecordMetadata, StateT, StatusT
  <2>2. Begin(rm, m, FALSE) /\ m \in SUBSET Streams /\ op = 0
    BY <1>1 DEF RecordNew, NewStreams
  <2> HIDE DEF rm
  <2>3. Indexes = {}
    <3>1. tree = {}
      BY <2>2 DEF HInv, ChainInv
    <3> QED
      BY <3>1 DEF Indexes, recordIndexes, IndexesIn
  <2>4. \A i \in RecordIndex : i.rm = rm /\ i.frozen = FALSE => IsNext(i)
    BY <2>1, <2>3 DEF IsNext, IsFirst
  <2> QED
    BY <2>1, <2>2, <2>4, HistoryBegins
<1>2. ASSUME NEW f \in FileSets, NEW m \in SUBSET Streams, RecordEdit(f, m) PROVE HInv'
  <2>1. PICK r \in Latest(tree) :
          /\ f # r.rm.files /\ Tick
          /\ r.rm.state = "vetted" => (f \cup m) \cap UnvettedOnly = {}
          /\ Begin(recordMetadataNew(f, r.rm.state, r.rm.status, r.rm.version + 1,
                                     r.rm.iteration + 1), m, FALSE)
    BY <1>2 DEF RecordEdit
  <2> DEFINE rm == recordMetadataNew(f, r.rm.state, r.rm.status, r.rm.version + 1, r.rm.iteration + 1)
  <2>2. r \in RecordIndex /\ r \in LastOf(Indexes)
    BY LatestFacts
  <2>3. /\ rm \in RecordMetadata /\ rm.state = r.rm.state /\ rm.status = r.rm.status
        /\ rm.iteration = r.rm.iteration + 1 /\ rm.version = r.rm.version + 1
        /\ rm.files = f /\ f \notin {{}, r.rm.files}
    BY <1>0, <2>1, <2>2, IndexFields DEF FileSets, recordMetadataNew, RecordMetadata
  <2>4. Begin(rm, m, FALSE)
    BY <2>1
  <2> HIDE DEF rm
  <2>5. ~RecordIsFrozen => \A i \in RecordIndex : i.rm = rm /\ i.frozen = FALSE => IsNext(i)
    BY <2>2, <2>3, LatestFacts DEF IsNext, Follows
  <2>6. rm.state = "vetted" => \A c \in rm.files \cup m : IsKept(c)
    BY <2>1, <2>3, NotUnvettedOnly
  <2> QED
    BY <2>3, <2>4, <2>5, <2>6, HistoryBegins
<1>3. ASSUME NEW m \in NewStreams, RecordEditMetadata(m) PROVE HInv'
  <2>1. PICK r \in Latest(tree) :
          /\ Tick
          /\ r.rm.state = "vetted" => m \cap UnvettedOnly = {}
          /\ Begin(recordMetadataNew(record(r) \cap Files, r.rm.state, r.rm.status,
                                     r.rm.version, r.rm.iteration + 1), m, FALSE)
    BY <1>3 DEF RecordEditMetadata
  <2> DEFINE rm == recordMetadataNew(record(r) \cap Files, r.rm.state, r.rm.status,
                                     r.rm.version, r.rm.iteration + 1)
  <2>2. r \in RecordIndex /\ r \in LastOf(Indexes) /\ m \in SUBSET Streams
    BY LatestFacts DEF NewStreams
  <2>3. /\ rm \in RecordMetadata /\ rm.state = r.rm.state /\ rm.status = r.rm.status
        /\ rm.iteration = r.rm.iteration + 1 /\ rm.version = r.rm.version
        /\ rm.files = record(r) \cap Files
    BY <1>0, <2>1, <2>2, IndexFields DEF recordMetadataNew, RecordMetadata
  <2>4. Begin(rm, m, FALSE)
    BY <2>1
  <2> HIDE DEF rm
  <2>5. ~RecordIsFrozen => \A i \in RecordIndex : i.rm = rm /\ i.frozen = FALSE => IsNext(i)
    BY <2>2, <2>3, LatestFacts DEF IsNext, Follows
  <2>6. rm.state = "vetted" => \A c \in rm.files \cup m : IsKept(c)
    BY <2>1, <2>3, NotUnvettedOnly, ReadIsKept
  <2> QED
    BY <2>2, <2>3, <2>4, <2>5, <2>6, HistoryBegins
<1>4. ASSUME NEW s \in StatusT, NEW m \in SUBSET Streams, RecordSetStatus(s, m)
      PROVE HInv'
  <2>1. PICK r \in Latest(tree) :
          /\ statusChangeIsAllowed(r.rm.status, s) /\ Tick
          /\ r.rm.state = "vetted" => m \cap UnvettedOnly = {}
          /\ Begin(IF s = "public"
                     THEN recordMetadataNew(record(r) \cap Files, "vetted", s, 1, 1)
                     ELSE recordMetadataNew(record(r) \cap Files, r.rm.state, s,
                                            r.rm.version, r.rm.iteration + 1),
                   m, s # "public")
    BY <1>4 DEF RecordSetStatus
  <2>2. r \in RecordIndex /\ r \in LastOf(Indexes) /\ WellFormed(r)
    BY LatestFacts
  <2>3. CASE s = "public"
    <3> DEFINE rm == recordMetadataNew(record(r) \cap Files, "vetted", s, 1, 1)
    <3>1. r.rm.status = "unreviewed" /\ Begin(rm, m, FALSE)
      BY <2>1, <2>3 DEF statusChangeIsAllowed
    <3>2. /\ rm \in RecordMetadata /\ rm.state = "vetted" /\ rm.status = "public"
          /\ rm.iteration = 1 /\ rm.version = 1 /\ rm.files = record(r) \cap Files
      BY <1>0, <2>1, <2>3 DEF recordMetadataNew, RecordMetadata, StateT, StatusT
    <3> HIDE DEF rm
    <3>3. ~RecordIsFrozen => \A i \in RecordIndex : i.rm = rm /\ i.frozen = FALSE => IsNext(i)
      BY <2>2, <3>1, <3>2, LatestFacts DEF IsNext, Follows
    <3> QED
      BY <3>1, <3>2, <3>3, HistoryBegins
  <2>4. CASE s # "public"
    <3> DEFINE rm == recordMetadataNew(record(r) \cap Files, r.rm.state, s,
                                       r.rm.version, r.rm.iteration + 1)
    <3>1. Begin(rm, m, TRUE) /\ (s = "censored" \/ (s = "archived" /\ r.rm.status = "public"))
      BY <2>1, <2>4 DEF statusChangeIsAllowed
    <3>2. /\ rm \in RecordMetadata /\ rm.state = r.rm.state /\ rm.status = s
          /\ rm.iteration = r.rm.iteration + 1 /\ rm.version = r.rm.version
          /\ rm.files = record(r) \cap Files
      BY <1>0, <2>1, <2>2, IndexFields DEF recordMetadataNew, RecordMetadata
    <3> HIDE DEF rm
    <3>3. ~RecordIsFrozen => \A i \in RecordIndex : i.rm = rm /\ i.frozen = TRUE => IsNext(i)
      BY <2>2, <3>1, <3>2, LatestFacts DEF IsNext, Follows
    <3>4. rm.state = "vetted" => \A c \in rm.files \cup m : IsKept(c)
      BY <2>1, <3>2, NotUnvettedOnly, ReadIsKept
    <3> QED
      BY <3>1, <3>2, <3>3, <3>4, HistoryBegins
  <2> QED
    BY <2>3, <2>4
<1> QED
  BY <1>1, <1>2, <1>3, <1>4

-----------------------------------------------------------------------------
(* Every step of an operation keeps the history. *)

\* Plain text stays while leaves and blobs are added.
LEMMA PlainGrows ==
  ASSUME tree \subseteq tree', store \subseteq store'
  PROVE  \A i : IsPlain(i) => IsPlain(i)'
BY DEF IsPlain

\* An operation in progress has nothing queued, no earlier operation was reported as
\* censored, and it saves the next index.
LEMMA OperationFacts ==
  ASSUME IInv, HInv, pc # "idle"
  PROVE  /\ queue = {} /\ op # 0
         /\ pc # "save" => \A i \in acked : i.rm.status # "censored"
         /\ Saving => ~RecordIsFrozen /\ IsNext(cur)
<1>1. ~RecordIsFrozen \/ ~IsNext(cur)
  <2>1. CASE Indexes = {}
    BY <2>1 DEF HInv, ChainInv, LastOf
  <2>2. CASE Indexes # {}
    BY <2>2, ChainEnds DEF HInv, ChainInv, IsNext, Follows
  <2> QED
    BY <2>1, <2>2
<1> QED
  BY <1>1 DEF HInv, ChainInv, CensorInv

\* The operation ends, having added no index.
LEMMA HistoryReturns ==
  ASSUME IInv, HInv, pc # "idle", Return, tree \subseteq tree', \A l \in tree' : l \in tree \/ ~l.isIndex,
         store \subseteq store', UNCHANGED <<queue, op>>, UNCHANGED acked,
         pc = "save" => UNCHANGED <<tree, store>>
  PROVE  HInv'
<1>1. /\ Indexes' = Indexes /\ (RecordIsFrozen' <=> RecordIsFrozen)
      /\ \A i : IsNext(i)' <=> IsNext(i)
  BY SameHistory
<1>2. pc' = "idle" /\ queue' = {} /\ op' # 0 /\ queue = {}
  BY OperationFacts DEF Return
<1>3. ChainInv'
  BY <1>1, <1>2 DEF HInv, ChainInv, Saving
<1>4. PlainInv'
  <2>1. ASSUME ~RecordIsFrozen', NEW l \in tree', l.isIndex, Vetted(l.data) PROVE IsPlain(l.data)'
    <3>1. IsPlain(l.data)
      BY <1>1, <2>1 DEF HInv, PlainInv
    <3> QED
      BY <3>1, PlainGrows
  <2> QED
    BY <1>2, <2>1 DEF PlainInv
<1>5. CensorInv'
  <2>1. CASE pc = "save"
    <3>1. CensoredFilesAreGone' <=> CensoredFilesAreGone
      BY <1>1, <2>1 DEF CensoredFilesAreGone, Indexes
    <3> QED
      BY <1>1, <1>2, <3>1 DEF HInv, CensorInv
  <2>2. CASE pc # "save"
    BY <2>2, OperationFacts DEF CensorInv
  <2> QED
    BY <2>1, <2>2
<1> QED
  BY <1>3, <1>4, <1>5 DEF HInv

\* The operation goes on, having added no index.
LEMMA HistoryGoesOn ==
  ASSUME IInv, HInv, tree \subseteq tree', \A l \in tree' : l \in tree \/ ~l.isIndex,
         store \subseteq store', UNCHANGED <<queue, op, cur>>, UNCHANGED acked, pc # "idle",
         ~RecordIsFrozen, IsNext(cur), pc' \in {"append", "resave", "indexPut", "indexAppend"},
         \A i \in acked : i.rm.status # "censored",
         pc' \in {"indexPut", "indexAppend"} /\ Vetted(cur) => IsPlain(cur)',
         pc' = "append" => /\ pc = "save" /\ UNCHANGED tree,
         pc' = "resave" => batch' \subseteq tree'
  PROVE  HInv'
<1>1. /\ Indexes' = Indexes /\ (RecordIsFrozen' <=> RecordIsFrozen)
      /\ \A i : IsNext(i)' <=> IsNext(i)
  BY SameHistory
<1>2. queue' = {} /\ op' # 0 /\ queue = {}
  BY OperationFacts
<1>3. ChainInv'
  <2>1. IsNext(cur)'
    BY <1>1 DEF IsNext
  <2> QED
    BY <1>1, <1>2, <2>1 DEF HInv, ChainInv, Saving
<1>4. PlainInv'
  <2>1. ASSUME NEW l \in tree', l.isIndex, Vetted(l.data) PROVE IsPlain(l.data)'
    <3>1. IsPlain(l.data)
      BY <1>1, <2>1 DEF HInv, PlainInv
    <3> QED
      BY <3>1, PlainGrows
  <2>2. pc' = "append" /\ Vetted(cur) /\ ~Publishing =>
          \A l \in tree' : l.data \in Contents(cur) => storeKeyNoPrefix(l) \in store'
    BY DEF HInv, PlainInv
  <2>3. (Publishing' <=> Publishing) /\ cur' = cur
    BY DEF Publishing
  <2> QED
    BY <1>2, <2>1, <2>2, <2>3 DEF PlainInv, Vetted
<1>5. CensorInv'
  BY DEF CensorInv
<1> QED
  BY <1>3, <1>4, <1>5 DEF HInv

LEMMA HistorySaveBlobs == IInv /\ HInv /\ SaveBlobs => HInv'
<1> SUFFICES ASSUME IInv, HInv, SaveBlobs PROVE HInv'
  OBVIOUS
<1>1. ~RecordIsFrozen
  BY LatestIsLast DEF HInv, ChainInv, SaveBlobs
<1>2. IsNext(cur) /\ \A i \in acked : i.rm.status # "censored"
  BY <1>1 DEF HInv, ChainInv, CensorInv, SaveBlobs
<1>3. /\ pc = "save" /\ pc' = "append" /\ store \subseteq store'
      /\ UNCHANGED <<tree, queue, op, cur>> /\ UNCHANGED acked
  BY DEF SaveBlobs
<1> QED
  BY <1>1, <1>2, <1>3, HistoryGoesOn

LEMMA HistorySaveRefused == IInv /\ HInv /\ SaveRefused => HInv'
BY HistoryReturns DEF SaveRefused

\* After the content of an update of a public record is in the tree, all of it can be
\* read in plain text.
LEMMA HistoryAppendLeaves == IInv /\ HInv /\ AppendLeaves => HInv'
<1> SUFFICES ASSUME IInv, HInv, AppendLeaves PROVE HInv'
  OBVIOUS
<1>1. /\ pc = "append" /\ tree' = tree \cup batch /\ UNCHANGED <<queue, op, cur, batch, store>>
      /\ pc' = IF Publishing THEN "resave" ELSE "indexPut"
      /\ UNCHANGED acked
  BY DEF AppendLeaves, Goto
<1>2. \A l \in batch : ~l.isIndex /\ l.state = cur.rm.state /\ storeKey(l) \in store
  BY <1>1 DEF IInv, BatchInv, Saving
<1>3. ~RecordIsFrozen /\ IsNext(cur) /\ \A i \in acked : i.rm.status # "censored"
  BY <1>1, OperationFacts DEF Saving
<1>4. ASSUME Vetted(cur), ~Publishing, NEW c \in Contents(cur)
      PROVE  \E l \in tree' : l.data = c /\ storeKeyNoPrefix(l) \in store'
  <2>1. PICK l \in tree \cup batch : l.data = c
    BY <1>1, <1>4 DEF IInv, OperationInv, Digests
  <2>2. CASE l \in tree
    BY <1>1, <1>3, <1>4, <2>1, <2>2 DEF HInv, PlainInv
  <2>3. CASE l \in batch
    <3>1. storeKey(l) = storeKeyNoPrefix(l)
      BY <1>2, <1>4, <2>3 DEF Vetted, storeKey, storeKeyNoPrefix
    <3> QED
      BY <1>1, <1>2, <2>1, <2>3, <3>1
  <2> QED
    BY <2>1, <2>2, <2>3
<1>5. pc' = "indexPut" /\ Vetted(cur) => IsPlain(cur)'
  BY <1>1, <1>4 DEF IsPlain
<1> QED
  BY <1>1, <1>2, <1>3, <1>5, HistoryGoesOn

LEMMA HistoryAppendDuplicate == IInv /\ HInv /\ AppendDuplicate => HInv'
<1> SUFFICES ASSUME IInv, HInv, AppendDuplicate PROVE HInv'
  OBVIOUS
<1>1. /\ pc = "append" /\ tree' \subseteq tree \cup batch /\ tree \subseteq tree' /\ Return
      /\ UNCHANGED <<queue, op>> /\ UNCHANGED acked /\ UNCHANGED store
  BY DEF AppendDuplicate
<1>2. \A l \in batch : ~l.isIndex
  BY DEF IInv, BatchInv
<1> QED
  BY <1>1, <1>2, HistoryReturns

\* A publication leaves nothing of the record that is only stored encrypted.
LEMMA HistoryResave == IInv /\ HInv /\ ResavePlainText => HInv'
<1> SUFFICES ASSUME IInv, HInv, ResavePlainText PROVE HInv'
  OBVIOUS
<1>1. /\ pc = "resave" /\ store' = store \cup {storeKeyNoPrefix(l) : l \in ResaveLeaves}
      /\ UNCHANGED <<queue, op, tree>> /\ UNCHANGED acked
  BY DEF ResavePlainText
<1>2. CASE ResaveLeaves = {}
  BY <1>1, <1>2, HistoryReturns DEF ResavePlainText
<1>3. CASE ResaveLeaves # {}
  <2>1. pc' = "indexPut" /\ UNCHANGED cur
    BY <1>3 DEF ResavePlainText, Goto
  <2>2. ~RecordIsFrozen /\ IsNext(cur) /\ \A i \in acked : i.rm.status # "censored"
    BY <1>1, OperationFacts DEF Saving
  <2>3. cur.rm.state = "vetted"
    BY <1>1 DEF IInv, OperationInv, VettedInv, WellFormed, Publishing
  <2>4. ASSUME NEW c \in Contents(cur)
        PROVE  \E l \in tree : l.data = c /\ storeKeyNoPrefix(l) \in store'
    <3>1. PICK l \in tree : l.data = c
      BY <1>1 DEF IInv, OperationInv, Digests
    <3>2. CASE c \in Digests(batch)
      <4>1. PICK k \in batch : k.data = c
        BY <3>2 DEF Digests
      <4>2. k \in tree /\ k.state = "vetted" /\ storeKey(k) \in store
        BY <1>1, <2>3, <4>1 DEF HInv, PlainInv, IInv, BatchInv, Saving
      <4>3. storeKey(k) = storeKeyNoPrefix(k)
        BY <4>2 DEF storeKey, storeKeyNoPrefix
      <4> QED
        BY <1>1, <4>1, <4>2, <4>3
    <3>3. CASE c \notin Digests(batch) /\ l.state = "unvetted"
      BY <1>1, <3>1, <3>3 DEF ResaveLeaves
    <3>4. CASE l.state = "vetted"
      <4>1. storeKey(l) \in store
        BY <2>2, <3>1 DEF IInv, LeafHasBlob
      <4>2. storeKey(l) = storeKeyNoPrefix(l)
        BY <3>4 DEF storeKey, storeKeyNoPrefix
      <4> QED
        BY <1>1, <3>1, <4>1, <4>2
    <3>5. l.state \in StateT
      BY <3>1 DEF IInv, TypeOK, Leaf
    <3> QED
      BY <3>2, <3>3, <3>4, <3>5 DEF StateT
  <2>5. IsPlain(cur)'
    BY <1>1, <2>1, <2>4 DEF IsPlain
  <2> QED
    BY <1>1, <2>1, <2>2, <2>5, HistoryGoesOn
<1> QED
  BY <1>2, <1>3

LEMMA HistoryPutIndex == IInv /\ HInv /\ PutIndex => HInv'
<1> SUFFICES ASSUME IInv, HInv, PutIndex PROVE HInv'
  OBVIOUS
<1>1. /\ pc = "indexPut" /\ pc' = "indexAppend" /\ store \subseteq store'
      /\ UNCHANGED <<queue, op, tree, cur>> /\ UNCHANGED acked
  BY DEF PutIndex, Goto
<1>2. ~RecordIsFrozen /\ IsNext(cur) /\ \A i \in acked : i.rm.status # "censored"
  BY <1>1, OperationFacts DEF Saving
<1>3. Vetted(cur) => IsPlain(cur)'
  <2>1. Vetted(cur) => IsPlain(cur)
    BY <1>1 DEF HInv, PlainInv
  <2> QED
    BY <1>1, <2>1 DEF IsPlain
<1> QED
  BY <1>1, <1>2, <1>3, HistoryGoesOn

\* The index that gets into the tree is the next one, and if it is public all of it can be
\* read in plain text.
LEMMA HistoryGainsIndex ==
  ASSUME IInv, HInv, NEW l, l.isIndex, l.data \in RecordIndex, WellFormed(l.data),
         IsNext(l.data), tree' = tree \cup {l}, UNCHANGED <<store, op>>, queue' = {}, op # 0,
         pc' \in {"idle", "delete"},
         Vetted(l.data) => IsPlain(l.data),
         \A i \in acked' : i.rm.status # "censored"
  PROVE  HInv'
<1>1. /\ IsChain(Indexes') /\ LastOf(Indexes') = {l.data}
      /\ ~RecordIsFrozen /\ (RecordIsFrozen' <=> l.data.frozen)
  BY NextIndex DEF HInv
<1>2. ChainInv'
  BY <1>1 DEF ChainInv, Saving
<1>3. PlainInv'
  <2>1. ASSUME NEW k \in tree', k.isIndex, Vetted(k.data) PROVE IsPlain(k.data)'
    <3>1. IsPlain(k.data)
      BY <1>1, <2>1 DEF HInv, PlainInv
    <3> QED
      BY <3>1, PlainGrows
  <2> QED
    BY <2>1 DEF PlainInv
<1>4. CensorInv'
  BY DEF CensorInv
<1> QED
  BY <1>2, <1>3, <1>4 DEF HInv

LEMMA HistoryAppendIndex == IInv /\ HInv /\ AppendIndex => HInv'
<1> SUFFICES ASSUME IInv, HInv, AppendIndex PROVE HInv'
  OBVIOUS
<1> DEFINE l == IndexLeaf
<1>1. /\ pc = "indexAppend" /\ tree' = tree \cup {l} /\ UNCHANGED <<queue, op, store>>
      /\ pc' \in {"idle", "delete"}
      /\ UNCHANGED acked \/ (~(cur.frozen /\ cur.rm.status = "censored") /\ acked' = acked \cup {cur})
  BY DEF AppendIndex, Goto, Return
<1>2. l.isIndex /\ l.data = cur
  BY DEF IndexLeaf, NewLeaf
<1>3. cur \in RecordIndex /\ WellFormed(cur)
  BY <1>1 DEF IInv, TypeOK, VettedInv
<1>4. IsNext(cur) /\ queue' = {} /\ op # 0 /\ \A i \in acked : i.rm.status # "censored"
  BY <1>1, OperationFacts DEF Saving
<1>5. cur.frozen <=> cur.rm.status \in {"censored", "archived"}
  BY <1>4 DEF IsNext, IsFirst, Follows
<1>6. \A i \in acked' : i.rm.status # "censored"
  BY <1>1, <1>4, <1>5
<1>7. Vetted(l.data) => IsPlain(l.data)
  BY <1>1, <1>2 DEF HInv, PlainInv
<1> HIDE DEF l
<1> QED
  BY <1>1, <1>2, <1>3, <1>4, <1>6, <1>7, HistoryGainsIndex

\* RecordDel deletes the files of every index of the history that can be read.
LEMMA HistoryRecordDel == IInv /\ HInv /\ RecordDel => HInv'
<1> SUFFICES ASSUME IInv, HInv, RecordDel PROVE HInv'
  OBVIOUS
<1>1. pc = "delete" /\ pc' = "idle" /\ UNCHANGED <<tree, queue, op>> /\ queue = {} /\ op # 0
  BY OperationFacts DEF RecordDel, Return
<1>2. RecordIsFrozen /\ RecordIsFrozen'
  BY <1>1 DEF IInv, OperationInv, RecordIsFrozen
<1>3. Indexes' = Indexes
  BY <1>1 DEF Indexes
<1>4. ChainInv'
  BY <1>1, <1>2, <1>3 DEF HInv, ChainInv, Saving
<1>5. PlainInv'
  BY <1>1, <1>2 DEF PlainInv
<1>6. CensorInv'
  <2>1. \A l \in FileLeaves(tree) : storeKey(l) \notin store' /\ storeKeyNoPrefix(l) \notin store'
    <3>1. \E r \in Latest(tree) : r.frozen
      BY <1>2, LatestIsLast DEF HInv, ChainInv
    <3> QED
      BY <3>1 DEF RecordDel
  <2>2. \A i \in Indexes : \A l \in tree : l.data \in i.rm.files => l \in FileLeaves(tree)
    BY DEF FileLeaves, Indexes
  <2>3. CensoredFilesAreGone'
    BY <1>1, <1>3, <2>1, <2>2 DEF CensoredFilesAreGone, Indexes
  <2> QED
    BY <1>1, <1>2, <2>3 DEF CensorInv
<1> QED
  BY <1>4, <1>5, <1>6 DEF HInv

\* What a failed operation leaves behind is content, or the next index.
LEMMA HistoryFail == IInv /\ HInv /\ Fail => HInv'
<1> SUFFICES ASSUME IInv, HInv, Fail PROVE HInv'
  OBVIOUS
<1>1. /\ pc # "idle" /\ pc' = "idle" /\ UNCHANGED <<tree, store, op, acked>>
      /\ queue = {} /\ op # 0
  BY OperationFacts DEF Fail, Return
<1>2. queue' \subseteq InFlight
  BY <1>1 DEF Fail
<1>3. /\ Indexes' = Indexes /\ (RecordIsFrozen' <=> RecordIsFrozen)
      /\ \A i : IsNext(i)' <=> IsNext(i)
  BY <1>1, SameHistory
<1>4. ASSUME NEW l \in queue', l.isIndex
      PROVE  queue' = {l} /\ IsNext(l.data) /\ (Vetted(l.data) => IsPlain(l.data))
  <2>1. pc = "indexAppend"
    BY <1>2, <1>4 DEF InFlight, IInv, BatchInv
  <2>2. l = IndexLeaf /\ queue' = {l}
    BY <1>2, <1>4, <2>1 DEF InFlight
  <2>3. l.data = cur
    BY <2>2 DEF IndexLeaf, NewLeaf
  <2> QED
    BY <2>1, <2>2, <2>3 DEF HInv, ChainInv, PlainInv, Saving
<1>5. ChainInv'
  <2>1. \A l \in queue' : l.isIndex => queue' = {l} /\ IsNext(l.data)'
    BY <1>3, <1>4
  <2> QED
    BY <1>1, <1>3, <2>1 DEF HInv, ChainInv, Saving
<1>6. PlainInv'
  <2>1. ASSUME ~RecordIsFrozen, NEW l \in tree' \cup queue', l.isIndex, Vetted(l.data) PROVE IsPlain(l.data)'
    <3>1. IsPlain(l.data)
      BY <1>1, <1>4, <2>1 DEF HInv, PlainInv
    <3> QED
      BY <1>1, <3>1, PlainGrows
  <2> QED
    BY <1>1, <1>3, <2>1 DEF PlainInv
<1>7. CensorInv'
  <2>1. CASE pc = "save"
    <3>1. queue' = {}
      BY <1>2, <2>1 DEF InFlight
    <3>2. CensoredFilesAreGone' <=> CensoredFilesAreGone
      BY <1>1, <1>3 DEF CensoredFilesAreGone, Indexes
    <3> QED
      BY <1>1, <1>3, <3>1, <3>2 DEF HInv, CensorInv
  <2>2. CASE pc # "save"
    BY <1>1, <2>2, OperationFacts DEF CensorInv
  <2> QED
    BY <2>1, <2>2
<1> QED
  BY <1>5, <1>6, <1>7 DEF HInv

\* A late leaf is content that no index needs yet, or completes the update that failed.
LEMMA HistoryIntegrate == IInv /\ HInv /\ Integrate => HInv'
<1> SUFFICES ASSUME IInv, HInv, Integrate PROVE HInv'
  OBVIOUS
<1>1. PICK l \in queue : queue' = queue \ {l} /\ tree' = tree \cup {l}
                         /\ UNCHANGED <<store, pc, cur, batch, op, clock, faults, exposed, acked>>
  BY DEF Integrate
<1>2. pc = "idle" /\ op # 0 /\ \A i \in acked : i.rm.status # "censored"
  BY <1>1 DEF HInv, ChainInv, CensorInv
<1>3. CASE l.isIndex
  <2>1. queue' = {} /\ IsNext(l.data)
    BY <1>1, <1>3 DEF HInv, ChainInv
  <2>2. l.data \in RecordIndex /\ WellFormed(l.data)
    BY <1>3 DEF IInv, TypeOK, LeavesInv
  <2>3. ~RecordIsFrozen
    BY <2>1, <2>2, <1>1, <1>3, NextIndex DEF HInv
  <2>4. Vetted(l.data) => IsPlain(l.data)
    BY <1>3, <2>3 DEF HInv, PlainInv
  <2> QED
    BY <1>1, <1>2, <1>3, <2>1, <2>2, <2>4, HistoryGainsIndex
<1>4. CASE ~l.isIndex
  <2>1. /\ Indexes' = Indexes /\ (RecordIsFrozen' <=> RecordIsFrozen)
        /\ \A i : IsNext(i)' <=> IsNext(i)
    BY <1>1, <1>4, SameHistory
  <2>2. \A k \in queue : ~k.isIndex
    BY <1>1, <1>4 DEF HInv, ChainInv
  <2>3. ChainInv'
    BY <1>1, <1>2, <2>1, <2>2 DEF HInv, ChainInv, Saving
  <2>4. PlainInv'
    <3>1. ASSUME ~RecordIsFrozen, NEW k \in tree' \cup queue', k.isIndex, Vetted(k.data) PROVE IsPlain(k.data)'
      <4>1. IsPlain(k.data)
        BY <1>1, <3>1 DEF HInv, PlainInv
      <4> QED
        BY <1>1, <4>1, PlainGrows
    <3> QED
      BY <1>1, <1>2, <2>1, <3>1 DEF PlainInv
  <2>5. CensorInv'
    BY <1>1, <1>2 DEF CensorInv
  <2> QED
    BY <2>3, <2>4, <2>5 DEF HInv
<1> QED
  BY <1>3, <1>4

\* The empty tree is the beginning of the history.
LEMMA HistoryInit == Init => HInv
<1> SUFFICES ASSUME Init PROVE HInv
  OBVIOUS
<1>1. Indexes = {}
  BY DEF Init, Indexes, recordIndexes, IndexesIn
<1>2. IsChain({})
  <2>1. IsFiniteSet({})
    BY FS_EmptySet
  <2>2. Cardinality({}) = 0
    BY FS_EmptySet
  <2> QED
    BY <2>1, <2>2 DEF IsChain
<1>3. ChainInv
  BY <1>1, <1>2 DEF Init, ChainInv, Saving, RecordIsFrozen
<1> QED
  BY <1>3 DEF Init, HInv, PlainInv, CensorInv

LEMMA HistoryStep ==
  ASSUME Timely, ~ReAdd, IInv, HInv, [Next]_vars
  PROVE  HInv'
<1>1. CASE Next /\ ~Waiting
  BY <1>1, HistoryOperations, HistorySaveBlobs, HistorySaveRefused, HistoryAppendLeaves,
     HistoryAppendDuplicate, HistoryResave, HistoryPutIndex, HistoryAppendIndex,
     HistoryRecordDel, HistoryFail, HistoryIntegrate DEF Next
<1>2. CASE UNCHANGED vars \/ Waiting
  <2>1. UNCHANGED vars
    BY <1>2 DEF Waiting
  <2>2. /\ Indexes' = Indexes /\ (RecordIsFrozen' <=> RecordIsFrozen)
        /\ \A i : IsNext(i)' <=> IsNext(i)
    BY <2>1, SameHistory DEF vars
  <2>3. ChainInv'
    BY <2>1, <2>2 DEF vars, HInv, ChainInv, Saving
  <2>4. \A i : IsPlain(i)' <=> IsPlain(i)
    BY <2>1 DEF vars, IsPlain
  <2>5. PlainInv'
    BY <2>1, <2>2, <2>4 DEF vars, HInv, PlainInv, Publishing
  <2>6. CensoredFilesAreGone' <=> CensoredFilesAreGone
    BY <2>1, <2>2 DEF vars, CensoredFilesAreGone, Indexes
  <2>7. CensorInv'
    BY <2>1, <2>2, <2>6 DEF vars, HInv, CensorInv
  <2> QED
    BY <2>3, <2>5, <2>7 DEF HInv
<1> QED
  BY <1>1, <1>2

\* A bounded set of numbers has a greatest element.
LEMMA Greatest ==
  ASSUME NEW k \in Nat, NEW S, S \subseteq 0..k, S # {}
  PROVE  \E n \in S : \A m \in S : m <= n
<1> DEFINE T == {k - n : n \in S}
<1>1. T \subseteq Nat /\ T # {}
  <2>1. \A n \in S : k - n \in Nat
    OBVIOUS
  <2> QED
    BY <2>1
<1>2. PICK x \in T : \A y \in T : ~ (<<y, x>> \in OpToRel(<, Nat))
  BY <1>1, NatLessThanWellFounded, WFMin
<1>3. \A y \in T : x <= y
  <2> TAKE y \in T
  <2>1. y \in Nat /\ x \in Nat
    BY <1>1
  <2>2. y < x => <<y, x>> \in OpToRel(<, Nat)
    BY <2>1, Zenon DEF OpToRel
  <2>3. <<y, x>> \notin OpToRel(<, Nat)
    BY <1>2
  <2>4. ~(y < x)
    BY <2>2, <2>3
  <2> QED
    BY <2>1, <2>4
<1>4. PICK n \in S : x = k - n
  OBVIOUS
<1>5. \A m \in S : k - m \in T
  OBVIOUS
<1> HIDE DEF T
<1>6. \A m \in S : m <= n
  BY <1>3, <1>4, <1>5
<1> QED
  BY <1>6

\* A record has one history whatever steps fail, when trillian is timely and a public
\* record is not given content that was only unvetted.
THEOREM HistoryIsSound == Timely /\ ~ReAdd => (Spec => [](IInv /\ HInv))
<1> SUFFICES ASSUME Timely, ~ReAdd PROVE Spec => [](IInv /\ HInv)
  OBVIOUS
<1>1. IInv /\ HInv /\ [Next]_vars => (IInv /\ HInv)'
  BY NextStep, HistoryStep
<1>2. Init => IInv /\ HInv
  BY InitInv, HistoryInit
<1> QED
  BY <1>1, <1>2, PTL DEF Spec

\* All of the history can be read: its iterations and versions pass the sanity check, and
\* no index of a record that is not frozen lacks content.
THEOREM RecordsAreComplete == Timely /\ ~ReAdd => (Spec => []RecordIsComplete)
<1> SUFFICES ASSUME Timely, ~ReAdd PROVE Spec => []RecordIsComplete
  OBVIOUS
<1>1. ASSUME IInv, HInv PROVE RecordIsComplete
  <2>1. IsChain(Indexes) /\ Sane(Indexes)
    BY <1>1, ChainEnds DEF HInv, ChainInv
  <2>2. ASSUME NEW i \in Indexes, NEW v \in 1..i.rm.version
        PROVE  recordIndex(tree, v) # {}
    <3> DEFINE match == {j \in Indexes : v \in {0, j.rm.version}}
               its == {j.rm.iteration : j \in match}
    <3>1. i.rm.version \in Nat
      BY <2>1, IndexFields DEF IsChain
    <3>2. \E j \in match : TRUE
      <4>1. PICK j \in Indexes : j.rm.version = v
        BY <2>1 DEF IsChain
      <4> QED
        BY <4>1
    <3>3. its # {} /\ its \subseteq 0..Cardinality(Indexes) /\ Cardinality(Indexes) \in Nat
      BY <2>1, <3>2, ChainEnds DEF IsChain
    <3>4. PICK n \in its : \A k \in its : k <= n
      BY <3>3, Greatest
    <3>5. \E j \in match : \A k \in match : k.rm.iteration <= j.rm.iteration
      BY <3>4
    <3> QED
      BY <3>5 DEF recordIndex, Indexes
  <2>3. ~RecordIsFrozen => \A i \in Indexes : record(i) = Contents(i)
    BY <1>1, RecordIsWhole DEF HInv
  <2> QED
    BY <2>1, <2>2, <2>3 DEF RecordIsComplete, Indexes
<1>2. IInv /\ HInv => RecordIsComplete
  BY <1>1
<1> QED
  BY <1>2, HistoryIsSound, PTL

\* The files of a record that was reported as censored are gone for good.
THEOREM CensoredFilesGone == Timely /\ ~ReAdd => (Spec => []CensoredFilesAreGone)
<1> SUFFICES ASSUME Timely, ~ReAdd PROVE Spec => []CensoredFilesAreGone
  OBVIOUS
<1>1. IInv /\ HInv => CensoredFilesAreGone
  BY DEF HInv, CensorInv, CensoredFilesAreGone
<1> QED
  BY <1>1, HistoryIsSound, PTL

-----------------------------------------------------------------------------
(* The record store implements the abstract record. *)

\* A step leaves the history alone or adds the next index to it.
LEMMA HistorySteps ==
  ASSUME IInv, HInv, [Next]_vars
  PROVE  \/ Indexes' = Indexes
         \/ \E i \in RecordIndex : IsNext(i) /\ LastOf(Indexes') = {i}
<1>1. CASE UNCHANGED tree
  BY <1>1 DEF Indexes
<1>2. CASE AppendLeaves \/ AppendDuplicate
  <2>1. tree \subseteq tree' /\ \A l \in tree' : l \in tree \/ l \in batch
    BY <1>2 DEF AppendLeaves, AppendDuplicate
  <2>2. \A l \in tree' : l \in tree \/ ~l.isIndex
    BY <2>1 DEF IInv, BatchInv
  <2> QED
    BY <2>1, <2>2, SameHistory
<1>3. CASE AppendIndex
  <2>1. pc = "indexAppend" /\ tree' = tree \cup {IndexLeaf}
    BY <1>3 DEF AppendIndex
  <2>2. IndexLeaf.isIndex /\ IndexLeaf.data = cur
    BY DEF IndexLeaf, NewLeaf
  <2>3. cur \in RecordIndex /\ WellFormed(cur) /\ IsNext(cur)
    BY <2>1, OperationFacts DEF IInv, TypeOK, VettedInv, Saving
  <2> QED
    BY <2>1, <2>2, <2>3, NextIndex DEF HInv
<1>4. CASE Integrate
  <2>1. PICK l \in queue : tree' = tree \cup {l}
    BY <1>4 DEF Integrate
  <2>2. CASE l.isIndex
    <3>1. l.data \in RecordIndex /\ WellFormed(l.data) /\ IsNext(l.data)
      BY <2>2 DEF IInv, TypeOK, LeavesInv, HInv, ChainInv
    <3> QED
      BY <2>1, <2>2, <3>1, NextIndex DEF HInv
  <2>3. CASE ~l.isIndex
    BY <2>1, <2>3, SameHistory
  <2> QED
    BY <2>2, <2>3
<1> QED
  BY <1>1, <1>2, <1>3, <1>4 DEF Next, vars, RecordNew, RecordEdit, RecordEditMetadata,
     RecordSetStatus, Begin, SaveBlobs, SaveRefused, ResavePlainText, PutIndex, RecordDel,
     Fail, Waiting

\* What the abstract record holds.
AbstractT ==
  [state : StateT, status : StatusT, version : Nat, iteration : Nat,
   files : SUBSET Files, md : SUBSET Streams]

LEMMA AbstractFields ==
  ASSUME NEW i \in RecordIndex
  PROVE  /\ Abstract(i) \in AbstractT
         /\ Abstract(i).state = i.rm.state /\ Abstract(i).status = i.rm.status
         /\ Abstract(i).version = i.rm.version /\ Abstract(i).iteration = i.rm.iteration
         /\ Abstract(i).files = i.rm.files /\ Abstract(i).md = i.md
BY IndexFields DEF Abstract, AbstractT

\* The updates of the abstract record, from a to b.
LEMMA Updates ==
  ASSUME NEW a \in AbstractT, NEW b \in AbstractT,
         {Abstract(i) : i \in Latest(tree)} = {a},
         {Abstract(i) : i \in Latest(tree)}' = {b}
  PROVE  /\ /\ a.status \in {"unreviewed", "public"} /\ b.state = a.state /\ b.status = a.status
            /\ b.iteration = a.iteration + 1
            /\ b.version = a.version + 1 /\ b.files \notin {{}, a.files}
            => History!Edit
         /\ /\ a.status \in {"unreviewed", "public"} /\ b.state = a.state /\ b.status = a.status
            /\ b.iteration = a.iteration + 1 /\ b.version = a.version /\ b.files = a.files
            => History!EditMetadata
         /\ /\ a.status \in {"unreviewed", "public"} /\ b.state = a.state /\ b.status = "censored"
            /\ b.iteration = a.iteration + 1 /\ b.version = a.version /\ b.files = a.files
            => History!Censor
         /\ /\ a.status = "public" /\ b.state = a.state /\ b.status = "archived"
            /\ b.iteration = a.iteration + 1 /\ b.version = a.version /\ b.files = a.files
            => History!Archive
         /\ /\ a.status = "unreviewed" /\ b.state = "vetted" /\ b.status = "public"
            /\ b.iteration = 1 /\ b.version = 1 /\ b.files = a.files
            => History!MakePublic
<1>0. b.files \in SUBSET Files /\ b.md \in SUBSET Streams
  BY DEF AbstractT
<1>1. ASSUME a.status \in {"unreviewed", "public"}, b.state = a.state, b.status = a.status,
             b.iteration = a.iteration + 1, b.version = a.version + 1, b.files \notin {{}, a.files}
      PROVE  History!Edit
  <2>1. [a EXCEPT !.version = @ + 1, !.iteration = @ + 1, !.files = b.files, !.md = b.md] = b
    BY <1>1 DEF AbstractT
  <2>2. /\ a \in {Abstract(i) : i \in Latest(tree)}
        /\ {Abstract(i) : i \in Latest(tree)}' = {[a EXCEPT !.version = @ + 1, !.iteration = @ + 1, !.files = b.files, !.md = b.md]}
    BY <2>1
  <2> QED
    BY <1>0, <1>1, <2>2, ZenonT(60) DEF History!Edit, History!Editable
<1>2. ASSUME a.status \in {"unreviewed", "public"}, b.state = a.state, b.status = a.status,
             b.iteration = a.iteration + 1, b.version = a.version, b.files = a.files
      PROVE  History!EditMetadata
  <2>1. [a EXCEPT !.iteration = @ + 1, !.md = b.md] = b
    BY <1>2 DEF AbstractT
  <2>2. /\ a \in {Abstract(i) : i \in Latest(tree)}
        /\ {Abstract(i) : i \in Latest(tree)}' = {[a EXCEPT !.iteration = @ + 1, !.md = b.md]}
    BY <2>1
  <2> QED
    BY <1>0, <1>2, <2>2, Zenon DEF History!EditMetadata, History!Editable
<1>3. ASSUME a.status \in {"unreviewed", "public"}, b.state = a.state, b.status = "censored",
             b.iteration = a.iteration + 1, b.version = a.version, b.files = a.files
      PROVE  History!Censor
  <2>1. [a EXCEPT !.status = "censored", !.iteration = @ + 1, !.md = b.md] = b
    BY <1>3 DEF AbstractT
  <2>2. /\ a \in {Abstract(i) : i \in Latest(tree)}
        /\ {Abstract(i) : i \in Latest(tree)}' = {[a EXCEPT !.status = "censored", !.iteration = @ + 1, !.md = b.md]}
    BY <2>1
  <2> QED
    BY <1>0, <1>3, <2>2, Zenon DEF History!Censor, History!Editable
<1>4. ASSUME a.status = "public", b.state = a.state, b.status = "archived",
             b.iteration = a.iteration + 1, b.version = a.version, b.files = a.files
      PROVE  History!Archive
  <2>1. [a EXCEPT !.status = "archived", !.iteration = @ + 1, !.md = b.md] = b
    BY <1>4 DEF AbstractT
  <2>2. /\ a \in {Abstract(i) : i \in Latest(tree)}
        /\ {Abstract(i) : i \in Latest(tree)}' = {[a EXCEPT !.status = "archived", !.iteration = @ + 1, !.md = b.md]}
    BY <2>1
  <2> QED
    BY <1>0, <1>4, <2>2, Zenon DEF History!Archive
<1>5. ASSUME a.status = "unreviewed", b.state = "vetted", b.status = "public",
             b.iteration = 1, b.version = 1, b.files = a.files
      PROVE  History!MakePublic
  <2>1. [a EXCEPT !.state = "vetted", !.status = "public", !.version = 1, !.iteration = 1,
                  !.md = b.md] = b
    BY <1>5 DEF AbstractT
  <2>2. /\ a \in {Abstract(i) : i \in Latest(tree)}
        /\ {Abstract(i) : i \in Latest(tree)}' = {[a EXCEPT !.state = "vetted", !.status = "public", !.version = 1, !.iteration = 1,
                  !.md = b.md]}
    BY <2>1
  <2> QED
    BY <1>0, <1>5, <2>2, Zenon DEF History!MakePublic
<1> QED
  BY <1>1, <1>2, <1>3, <1>4, <1>5

\* The next index is one update of the abstract record.
LEMMA NextUpdates ==
  ASSUME IInv, HInv, NEW r \in LastOf(Indexes), NEW i \in RecordIndex, Follows(i, r),
         {Abstract(j) : j \in Latest(tree)} = {Abstract(r)},
         {Abstract(j) : j \in Latest(tree)}' = {Abstract(i)}
  PROVE  History!Next
<1> DEFINE a == Abstract(r)
           b == Abstract(i)
<1>1. r \in RecordIndex /\ r.rm.status \in StatusT
  BY IndexFields, IndexesType DEF LastOf
<1>2. /\ a \in AbstractT
      /\ a.state = r.rm.state /\ a.status = r.rm.status /\ a.version = r.rm.version
      /\ a.iteration = r.rm.iteration /\ a.files = r.rm.files
  BY <1>1, AbstractFields
<1>3. /\ b \in AbstractT
      /\ b.state = i.rm.state /\ b.status = i.rm.status /\ b.version = i.rm.version
      /\ b.iteration = i.rm.iteration /\ b.files = i.rm.files
  BY AbstractFields
<1>4. r.rm.status \in {"unreviewed", "public"}
  <2>1. r.frozen <=> r.rm.status \in {"censored", "archived"}
    BY DEF HInv, ChainInv, IsChain, LastOf
  <2> QED
    BY <1>1, <2>1 DEF Follows, StatusT
<1> HIDE DEF a, b
<1>5. \/ History!Edit \/ History!EditMetadata \/ History!Censor \/ History!Archive
      \/ History!MakePublic
  <2>1. {Abstract(j) : j \in Latest(tree)} = {a} /\ {Abstract(j) : j \in Latest(tree)}' = {b}
    BY DEF a, b
  <2>2. \/ /\ a.status \in {"unreviewed", "public"} /\ b.state = a.state /\ b.status = a.status
           /\ b.iteration = a.iteration + 1
           /\ b.version = a.version + 1 /\ b.files \notin {{}, a.files}
        \/ /\ a.status \in {"unreviewed", "public"} /\ b.state = a.state /\ b.status = a.status
           /\ b.iteration = a.iteration + 1 /\ b.version = a.version /\ b.files = a.files
        \/ /\ a.status \in {"unreviewed", "public"} /\ b.state = a.state /\ b.status = "censored"
           /\ b.iteration = a.iteration + 1 /\ b.version = a.version /\ b.files = a.files
        \/ /\ a.status = "public" /\ b.state = a.state /\ b.status = "archived"
           /\ b.iteration = a.iteration + 1 /\ b.version = a.version /\ b.files = a.files
        \/ /\ a.status = "unreviewed" /\ b.state = "vetted" /\ b.status = "public"
           /\ b.iteration = 1 /\ b.version = 1 /\ b.files = a.files
    BY <1>2, <1>3, <1>4 DEF Follows
  <2> QED
    BY <1>2, <1>3, <2>1, <2>2, Updates
<1> QED
  BY <1>5 DEF History!Next

\* The latest index of the tree is the last one of the history.
LEMMA HistoryLatest == HInv => Latest(tree) = LastOf(Indexes)
BY LatestIsLast DEF HInv, ChainInv

LEMMA HistoryRefines ==
  ASSUME IInv, HInv, HInv', [Next]_vars
  PROVE  History!Next \/ UNCHANGED {Abstract(i) : i \in Latest(tree)}
<1>1. Latest(tree) = LastOf(Indexes) /\ Latest(tree)' = LastOf(Indexes)'
  <2>1. (Latest(tree) = LastOf(Indexes))'
    BY HistoryLatest, PTL
  <2> QED
    BY <2>1, HistoryLatest
<1>2. CASE Indexes' = Indexes
  BY <1>1, <1>2 DEF LastOf
<1>3. ASSUME NEW i \in RecordIndex, IsNext(i), LastOf(Indexes') = {i}
      PROVE  History!Next
  <2>1. {Abstract(j) : j \in Latest(tree)}' = {Abstract(i)}
    BY <1>1, <1>3 DEF LastOf
  <2>2. CASE Indexes = {} /\ IsFirst(i)
    <3>1. {Abstract(j) : j \in Latest(tree)} = {}
      BY <1>1, <2>2 DEF LastOf
    <3>2. i.md \in SUBSET Streams /\ i.rm.files \in SUBSET Files
      BY IndexFields
    <3>3. Abstract(i) = [state |-> "unvetted", status |-> "unreviewed", version |-> 1,
                         iteration |-> 1, files |-> i.rm.files, md |-> i.md]
      BY <2>2 DEF Abstract, IsFirst
    <3>4. i.rm.files # {}
      BY <2>2 DEF IsFirst
    <3>5. History!New
      BY <2>1, <3>1, <3>2, <3>3, <3>4 DEF History!New
    <3> QED
      BY <3>5 DEF History!Next
  <2>3. ASSUME NEW r \in LastOf(Indexes), Follows(i, r) PROVE History!Next
    <3>1. LastOf(Indexes) = {r}
      BY <2>3, ChainEnds DEF HInv, ChainInv
    <3>2. {Abstract(j) : j \in Latest(tree)} = {Abstract(r)}
      BY <1>1, <3>1
    <3> QED
      BY <1>3, <2>1, <2>3, <3>2, NextUpdates
  <2> QED
    BY <1>3, <2>2, <2>3 DEF IsNext
<1> QED
  BY <1>2, <1>3, HistorySteps

\* Every update of a record is atomic and legal, whatever step fails: the record store
\* implements the abstract record.
THEOREM RefinesHistory == Timely /\ ~ReAdd => (Spec => ImplementsHistory)
<1> SUFFICES ASSUME Timely, ~ReAdd PROVE Spec => ImplementsHistory
  OBVIOUS
<1>1. Init => History!Init
  <2>1. Init => Latest(tree) = {}
    BY DEF Init, Latest, recordIndexLatest, recordIndex, recordIndexes, IndexesIn
  <2> QED
    BY <2>1 DEF History!Init
<1>2. IInv /\ HInv /\ HInv' /\ [Next]_vars => [History!Next]_({Abstract(i) : i \in Latest(tree)})
  BY HistoryRefines
<1> QED
  BY <1>1, <1>2, HistoryIsSound, PTL DEF Spec, ImplementsHistory, History!Spec

=============================================================================
