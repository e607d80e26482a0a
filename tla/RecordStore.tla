---------------------------- MODULE RecordStore ----------------------------
(***************************************************************************)
(* One record of the tstore backend (politeiad/backendv2/tstorebe): the     *)
(* trillian tree of the record, the key-value store that holds its blobs,   *)
(* and the write operations of the backend that update both.                *)
(*                                                                          *)
(* A record update saves the content blobs, appends one leaf per new blob,  *)
(* and finally saves and appends a record index that names the content.     *)
(* Nothing is unwound when a step fails, and a leaf that trillian has       *)
(* accepted can be integrated long after the request that queued it gave    *)
(* up waiting.  The operations are serialised by the record lock.           *)
(***************************************************************************)
EXTENDS Naturals, FiniteSets

CONSTANTS
  Files,       \* the file contents users submit
  Streams,     \* the payloads of the record's metadata stream
  MaxOps,      \* bound: the number of write operations
  MaxFaults,   \* bound: the number of operations cut short by an error or a crash
  Timely,      \* TRUE: trillian integrates all queued leaves between two operations
  ReAdd        \* TRUE: a public record may be given content that was only unvetted

ASSUME ConstantsAssumption ==
  /\ MaxOps \in Nat
  /\ MaxFaults \in Nat
  /\ Timely \in BOOLEAN
  /\ ReAdd \in BOOLEAN

VARIABLES
  tree,     \* the integrated leaves of the trillian tree
  queue,    \* leaves that trillian accepted but has not integrated
  store,    \* the keys present in the key-value store
  pc,       \* the next step of the write operation that holds the record lock
  cur,      \* the record index that this operation saves
  batch,    \* the content leaves that this operation appends
  op,       \* number of operations started; also the source of fresh store keys
  clock,    \* the unix time, in seconds, that record metadata is stamped with
  faults,   \* number of operations cut short so far
  exposed,  \* history: content that some operation saved as part of a vetted record
  acked     \* history: the indexes whose operation returned without an error

vars == <<tree, queue, store, pc, cur, batch, op, clock, faults, exposed, acked>>

-----------------------------------------------------------------------------
(* Data. *)

StateT == {"unvetted", "vetted"}
StatusT == {"unreviewed", "public", "censored", "archived"}

RecordMetadata ==
  [state : StateT, status : StatusT, version : Nat, iteration : Nat,
   files : SUBSET Files, timestamp : Nat]

\* The index names its content; state, version and iteration are read off the
\* record metadata they are copied from.
RecordIndex == [rm : RecordMetadata, md : SUBSET Streams, frozen : BOOLEAN]

\* Files, metadata streams, record metadata and record indexes encode differently.
ASSUME DataAssumption ==
  /\ Files \cap Streams = {}
  /\ \A c \in Files \cup Streams : c \notin RecordMetadata /\ c \notin RecordIndex

Contents(i) == {i.rm} \cup i.md \cup i.rm.files

\* A leaf: the content it commits to, and its extra data.  The store key is
\* fresh per operation and content, so the operation number stands for the uuid.
Leaf == [data : Files \cup Streams \cup RecordMetadata \cup RecordIndex,
         uuid : Nat, state : StateT, isIndex : BOOLEAN]

Key(d, n, e) == [data |-> d, uuid |-> n, encrypted |-> e]
storeKey(l) == Key(l.data, l.uuid, l.state = "unvetted")
storeKeyNoPrefix(l) == Key(l.data, l.uuid, FALSE)

NewLeaf(d, s, isIdx) == [data |-> d, uuid |-> op, state |-> s, isIndex |-> isIdx]

Digests(leaves) == {l.data : l \in leaves}

-----------------------------------------------------------------------------
(* Reading the tree. *)

IndexesIn(leaves) == {l.data : l \in {k \in leaves : k.isIndex}}

\* Once a vetted index exists the unvetted ones are ignored.
recordIndexes(leaves) ==
  LET all    == IndexesIn(leaves)
      vetted == {i \in all : i.rm.state = "vetted"}
  IN  IF vetted # {} THEN vetted ELSE all

\* The sanity check: iterations run 1, 2, 3, ... and versions grow by at most one.
Sane(is) ==
  /\ \A i, j \in is : i.rm.iteration = j.rm.iteration => i = j
  /\ \A i \in is : i.rm.iteration \in 1..Cardinality(is)
  /\ \A i \in is : i.rm.iteration = 1 => i.rm.version \in {0, 1}
  /\ \A i, j \in is : j.rm.iteration = i.rm.iteration + 1
                        => j.rm.version - i.rm.version \in {0, 1}

\* The most recent iteration of a version, version 0 standing for any.  The set is
\* empty when the version does not exist.
recordIndex(leaves, version) ==
  LET match == {i \in recordIndexes(leaves) : version \in {0, i.rm.version}}
  IN  {i \in match : \A j \in match : j.rm.iteration <= i.rm.iteration}

recordIndexLatest(leaves) == recordIndex(leaves, 0)

\* The index that a request finds: none if there is no record, or if the sanity
\* check fails.
Latest(leaves) == {i \in recordIndexLatest(leaves) : Sane(recordIndexes(leaves))}

\* What a read of index i returns of its content: a blob that is not in the
\* store is left out without an error.
ReadKey(i, l) == IF i.rm.state = "vetted" THEN storeKeyNoPrefix(l) ELSE storeKey(l)
record(i) == {c \in Contents(i) :
                \E l \in tree : l.data = c /\ ReadKey(i, l) \in store}

-----------------------------------------------------------------------------
(* The write operations, up to the point where RecordSave is called. *)

NoIndex == [rm |-> [state |-> "unvetted", status |-> "unreviewed", version |-> 0,
                    iteration |-> 0, files |-> {}, timestamp |-> 0],
            md |-> {}, frozen |-> FALSE]

Init ==
  /\ tree = {} /\ queue = {} /\ store = {}
  /\ pc = "idle" /\ cur = NoIndex /\ batch = {}
  /\ op = 0 /\ clock = 1 /\ faults = 0
  /\ exposed = {} /\ acked = {}

recordMetadataNew(files, state, status, version, iteration) ==
  [state |-> state, status |-> status, version |-> version,
   iteration |-> iteration, files |-> files, timestamp |-> clock']

\* An operation takes the record lock with its new index worked out.
Begin(rm, md, frozen) ==
  /\ pc = "idle" /\ op < MaxOps
  /\ Timely => queue = {}
  /\ pc' = "save"
  /\ op' = op + 1
  /\ cur' = [rm |-> rm, md |-> md, frozen |-> frozen]
  /\ UNCHANGED <<tree, queue, store, batch, faults, exposed, acked>>

Tick == clock' \in {clock, clock + 1}

\* The new metadata: the streams as they were read, or a new payload.
metadataStreamsUpdate(read) == {read} \cup {{s} : s \in Streams}

\* Content whose leaf was appended while the record was unvetted and that no
\* publication saved again as plain text.
UnvettedOnly == {l.data : l \in {k \in tree : storeKeyNoPrefix(k) \notin store}}

\* The tree is created by the same call; nobody else knows the token yet.
RecordNew(files, md) ==
  /\ op = 0
  /\ Tick
  /\ Begin(recordMetadataNew(files, "unvetted", "unreviewed", 1, 1), md, FALSE)

RecordEdit(files, md) ==
  \E r \in Latest(tree) :
     /\ files # r.rm.files
     /\ md \in metadataStreamsUpdate(record(r) \cap Streams)
     /\ (r.rm.state = "vetted" /\ ~ReAdd) => (files \cup md) \cap UnvettedOnly = {}
     /\ Tick
     /\ Begin(recordMetadataNew(files, r.rm.state, r.rm.status, r.rm.version + 1,
                                r.rm.iteration + 1), md, FALSE)

\* The merkle root of no files does not exist: an operation that finds none of
\* the record's files fails before it saves anything.
RecordEditMetadata(md) ==
  \E r \in Latest(tree) :
     /\ record(r) \cap Files # {}
     /\ (r.rm.state = "vetted" /\ ~ReAdd) => md \cap UnvettedOnly = {}
     /\ Tick
     /\ Begin(recordMetadataNew(record(r) \cap Files, r.rm.state, r.rm.status,
                                r.rm.version, r.rm.iteration + 1), md, FALSE)

\* Mutant: a public record can be published again.
statusChangeToPublic(from, to) ==
  \/ from \in {"unreviewed", "public"} /\ to = "public"
  \/ from \in {"unreviewed", "public"} /\ to = "censored"

statusChangeIsAllowed(from, to) ==
  <<from, to>> \in {<<"unreviewed", "public">>, <<"unreviewed", "censored">>,
                    <<"public", "censored">>, <<"public", "archived">>}

\* Publication restarts the history; archiving and censoring freeze the record.
RecordSetStatus(status, md) ==
  \E r \in Latest(tree) : LET files == record(r) \cap Files IN
     /\ statusChangeIsAllowed(r.rm.status, status)
     /\ files # {}
     /\ md \in metadataStreamsUpdate(record(r) \cap Streams)
     /\ (r.rm.state = "vetted" /\ ~ReAdd) => md \cap UnvettedOnly = {}
     /\ Tick
     /\ Begin(IF status = "public"
                THEN recordMetadataNew(files, "vetted", status, 1, 1)
                ELSE recordMetadataNew(files, r.rm.state, status, r.rm.version,
                                       r.rm.iteration + 1),
              md, status # "public")

-----------------------------------------------------------------------------
(* The steps of recordSave, recordIndexSave and RecordDel. *)

\* The operation goes on, or ends and releases the record lock.
Goto(step) == pc' = step /\ UNCHANGED <<cur, batch>>
Return == pc' = "idle" /\ cur' = NoIndex /\ batch' = {}

\* Mutant: a leaf that is only queued counts as saved.
NewContentsQueued == Contents(cur) \ Digests(tree \cup queue)

\* Content that no leaf of the tree commits to yet.
NewContents == Contents(cur) \ Digests(tree)

\* recordSave: read the leaves again, refuse a frozen record, and save the blobs
\* of the new content.
SaveBlobs ==
  /\ pc = "save"
  /\ Sane(recordIndexes(tree))
  /\ \A r \in Latest(tree) : ~r.frozen
  /\ NewContents # {}
  /\ batch' = {NewLeaf(c, cur.rm.state, FALSE) : c \in NewContents}
  /\ store' = store \cup {storeKey(l) : l \in batch'}
  /\ exposed' = IF cur.rm.state = "vetted" THEN exposed \cup Contents(cur)
                                           ELSE exposed
  /\ pc' = "append"
  /\ UNCHANGED <<tree, queue, cur, op, clock, faults, acked>>

\* An unreadable or frozen record, or no new content: the operation returns an error.
SaveRefused ==
  /\ pc = "save"
  /\ \/ ~Sane(recordIndexes(tree))
     \/ \E r \in Latest(tree) : r.frozen
     \/ NewContents = {}
  /\ Return
  /\ UNCHANGED <<tree, queue, store, op, clock, faults, exposed, acked>>

Publishing == cur.rm.status = "public" /\ cur.rm.iteration = 1

\* LeavesAppend: all leaves are new to trillian and all are included in time.
AppendLeaves ==
  /\ pc = "append"
  /\ Digests(batch) \cap Digests(tree \cup queue) = {}
  /\ tree' = tree \cup batch
  /\ Goto(IF Publishing THEN "resave" ELSE "indexPut")
  /\ UNCHANGED <<queue, store, op, clock, faults, exposed, acked>>

\* A leaf queued by an earlier operation was not integrated when the leaves were
\* read: trillian reports it as a duplicate once all leaves are included.
AppendDuplicate ==
  /\ pc = "append"
  /\ Digests(batch) \cap Digests(queue) = {}
  /\ Digests(batch) \cap Digests(tree) # {}
  /\ tree' = tree \cup {l \in batch : l.data \notin Digests(tree)}
  /\ Return
  /\ UNCHANGED <<queue, store, op, clock, faults, exposed, acked>>

\* Mutants: every encrypted blob of the tree is saved again; only files are; only
\* what an earlier attempt has not saved again is.
ResaveLeavesAll == {l \in tree : l.state = "unvetted"}
ResaveLeavesFiles == {l \in tree : /\ l.data \in cur.rm.files \ Digests(batch)
                                   /\ l.state = "unvetted"}
ResaveLeavesMissing == {l \in tree : /\ l.data \in Contents(cur) \ Digests(batch)
                                     /\ l.state = "unvetted"
                                     /\ storeKeyNoPrefix(l) \notin store}

\* Content that existed before the publication and is only stored encrypted.
ResaveLeaves == {l \in tree : /\ l.data \in Contents(cur) \ Digests(batch)
                              /\ l.state = "unvetted"}

ResavePlainText ==
  /\ pc = "resave"
  /\ store' = store \cup {storeKeyNoPrefix(l) : l \in ResaveLeaves}
  /\ IF ResaveLeaves = {} THEN Return ELSE Goto("indexPut")
  /\ UNCHANGED <<tree, queue, op, clock, faults, exposed, acked>>

\* Mutant: the index leaf is given the descriptor of content.
IndexLeafAsContent == NewLeaf(cur, cur.rm.state, FALSE)

IndexLeaf == NewLeaf(cur, cur.rm.state, TRUE)

PutIndex ==
  /\ pc = "indexPut"
  /\ store' = store \cup {storeKey(IndexLeaf)}
  /\ Goto("indexAppend")
  /\ UNCHANGED <<tree, queue, op, clock, faults, exposed, acked>>

\* Appending the index leaf is the commit point of the update.
AppendIndex ==
  /\ pc = "indexAppend"
  /\ tree' = tree \cup {IndexLeaf}
  /\ IF cur.frozen /\ cur.rm.status = "censored"
       THEN Goto("delete") /\ UNCHANGED acked
       ELSE Return /\ acked' = acked \cup {cur}
  /\ UNCHANGED <<queue, store, op, clock, faults, exposed>>

\* Mutants: the files of the latest index only; streams too; all content.
FileLeavesLatest(leaves) ==
  {l \in leaves : \E i \in recordIndexLatest(leaves) : l.data \in i.rm.files}
FileLeavesAndStreams(leaves) ==
  {l \in leaves : \E i \in recordIndexes(leaves) : l.data \in i.rm.files \cup i.md}
FileLeavesAll(leaves) ==
  {l \in leaves : \E i \in recordIndexes(leaves) : l.data \in Contents(i)}

\* The leaves of the files of every index that recordIndexes returns.
FileLeaves(leaves) ==
  {l \in leaves : \E i \in recordIndexes(leaves) : l.data \in i.rm.files}

RecordDel ==
  /\ pc = "delete"
  /\ Return
  /\ IF \E r \in Latest(tree) : r.frozen
       THEN /\ store' = store \ ({storeKey(l) : l \in FileLeaves(tree)}
                                 \cup {storeKeyNoPrefix(l) : l \in FileLeaves(tree)})
            /\ acked' = acked \cup {cur}
       ELSE UNCHANGED <<store, acked>>
  /\ UNCHANGED <<tree, queue, op, clock, faults, exposed>>

-----------------------------------------------------------------------------
(* The environment. *)

\* Leaves that the step in progress may already have handed to trillian.
InFlight ==
  CASE pc = "append"      -> {l \in batch : l.data \notin Digests(tree \cup queue)}
    [] pc = "indexAppend" -> {IndexLeaf}
    [] OTHER              -> {}

\* A step fails or politeiad stops: the operation ends where it is.  Leaves
\* queued before the failure stay queued; a timed out wait leaves all of them.
Fail ==
  /\ pc # "idle" /\ faults < MaxFaults
  /\ \E q \in SUBSET InFlight : queue' = queue \cup q
  /\ Return
  /\ faults' = faults + 1
  /\ UNCHANGED <<tree, store, op, clock, exposed, acked>>

\* The trillian signer integrates a queued leaf.
Integrate ==
  \E l \in queue :
    /\ queue' = queue \ {l}
    /\ tree' = tree \cup {l}
    /\ UNCHANGED <<store, pc, cur, batch, op, clock, faults, exposed, acked>>

\* No request holds the lock: the server waits for the next one.
Waiting == pc = "idle" /\ UNCHANGED vars

FileSets == (SUBSET Files) \ {{}}
NewStreams == {{s} : s \in Streams}

Next ==
  \/ \E f \in FileSets, m \in NewStreams : RecordNew(f, m)
  \/ \E f \in FileSets, m \in SUBSET Streams : RecordEdit(f, m)
  \/ \E m \in NewStreams : RecordEditMetadata(m)
  \/ \E s \in StatusT, m \in SUBSET Streams : RecordSetStatus(s, m)
  \/ SaveBlobs
  \/ SaveRefused
  \/ AppendLeaves
  \/ AppendDuplicate
  \/ ResavePlainText
  \/ PutIndex
  \/ AppendIndex
  \/ RecordDel
  \/ Fail
  \/ Integrate
  \/ Waiting

Spec == Init /\ [][Next]_vars

-----------------------------------------------------------------------------
(* Properties. *)

\* Type correctness of the tree, the queue and the operation in progress
\* (record.go, recordindex.go).
TypeOK ==
  /\ tree \subseteq Leaf /\ queue \subseteq Leaf /\ batch \subseteq Leaf
  /\ \A l \in tree \cup queue \cup batch : l.isIndex <=> l.data \in RecordIndex
  /\ cur \in RecordIndex
  /\ pc \in {"idle", "save", "append", "resave", "indexPut", "indexAppend", "delete"}
  /\ op \in 0..MaxOps /\ faults \in 0..MaxFaults /\ clock \in Nat

\* "If a recordIndex exists in the tree then the update is considered
\* successful" (recordindex.go:43-46): whatever fails or comes late, every index
\* that is or may get into the tree finds a leaf in the tree for all its content.
IndexContentPresent ==
  \A l \in tree \cup queue : l.isIndex => Contents(l.data) \subseteq Digests(tree)

\* A leaf commits to a blob that can be fetched: blobs are saved before leaves
\* are appended, and only RecordDel, on a frozen record, takes file blobs away.
RecordIsFrozen == \E l \in tree : l.isIndex /\ l.data.frozen
LeafHasBlob ==
  \A l \in tree \cup queue :
    storeKey(l) \in store \/ (l.data \in Files /\ RecordIsFrozen)

\* recordSave uses the digest to find duplicates, record and RecordDel use it to
\* find leaves: no two leaves, integrated or queued, commit to the same content.
OneLeafPerContent ==
  \A k, l \in tree \cup queue : k.data = l.data => k = l

\* "Only vetted data should be saved plain text" (record.go:240): content in the
\* store in plain text was part of a vetted record that an operation saved.  What
\* was replaced before the record was made public stays encrypted.
PlainTextWasExposed ==
  \A k \in store : ~k.encrypted =>
    k.data \in exposed \/ (k.data \in RecordIndex /\ k.data.rm.state = "vetted")

\* "This should not happen" (record.go:424-427): a publication always finds
\* encrypted content to save again, also after earlier publications failed.
ResaveFindsBlobs == pc = "resave" => ResaveLeaves # {}

\* recordIndexSave never meets a duplicate index leaf, also when the index of an
\* earlier attempt is still queued.
IndexLeafIsNew == pc = "indexAppend" => cur \notin Digests(tree \cup queue)

\* The history of a record can always be read: its iterations and versions pass the
\* sanity check of recordIndexes (recordindex.go:240-260), every version is there, and
\* none of them lacks content unless the record is frozen (record.go:697-702: blobs
\* may be missing only for a censored record).
RecordIsComplete ==
  /\ Sane(recordIndexes(tree))
  /\ \A i \in recordIndexes(tree) : \A v \in 1..i.rm.version : recordIndex(tree, v) # {}
  /\ ~RecordIsFrozen => \A i \in recordIndexes(tree) : record(i) = Contents(i)

\* A read always finds the record metadata, which record dereferences without a
\* check (record.go:783), also of a censored record.
RecordMetadataIsReadable ==
  \A i \in recordIndexes(tree) : i.rm \in record(i)

\* Once RecordSetStatus has reported a record as censored, no file of the history
\* that recordIndexes returns is in the store, encrypted or not, ever again.
CensoredFilesAreGone ==
  (\E i \in acked : i.rm.status = "censored") =>
    \A i \in recordIndexes(tree) : \A l \in tree : l.data \in i.rm.files =>
      storeKey(l) \notin store /\ storeKeyNoPrefix(l) \notin store

\* The abstract record: what the latest index says.
Abstract(i) == [state |-> i.rm.state, status |-> i.rm.status, version |-> i.rm.version,
                iteration |-> i.rm.iteration, files |-> i.rm.files, md |-> i.md]
History == INSTANCE RecordHistory
  WITH rec <- {Abstract(i) : i \in Latest(tree)}

\* Every update of the record is atomic and legal, whatever step fails.
ImplementsHistory == History!Spec

=============================================================================
