----------------------------- MODULE Inventory -----------------------------
(***************************************************************************)
(* The record inventory of the tstore backend (tstorebe/inventory.go): two  *)
(* json files that list the tokens of the unvetted and of the vetted        *)
(* records.  The files are a cache.  They are updated after the record has  *)
(* been saved, one file at a time, by requests on different records that    *)
(* run concurrently, and they are only rebuilt from the records when        *)
(* politeiad is started with the fsck option.  A request may fail after its *)
(* save took effect, or a save that timed out may take effect later: then   *)
(* nobody updates the files.                                                *)
(***************************************************************************)
EXTENDS InventoryFiles

CONSTANTS
  FsckOptions,  \* the settings of the fsck option that the operator uses
  MaxOps,       \* bound: record saves
  MaxCrashes    \* bound: crashes of politeiad and failed requests

ASSUME ConstantsAssumption ==
  /\ IsFiniteSet(Tokens)
  /\ FsckOptions \subseteq BOOLEAN
  /\ Uint \in Nat \ {0} /\ MaxOps \in Nat /\ MaxCrashes \in Nat

VARIABLES
  todo,     \* the records that the fsck has still to add
  clock,    \* the number of saves, as time stamp
  crashes

vars == <<records, inv, op, phase, todo, clock, crashes, dirty>>

\* There is no tree, or a tree that nothing was saved to.
NoTree == [state |-> "none", status |-> "none", time |-> 0]
EmptyTree == [NoTree EXCEPT !.state = "empty"]

\* A missing file reads as an empty inventory.
NoFile == [valid |-> TRUE, entries |-> << >>]

Init ==
  /\ records = [t \in Tokens |-> NoTree]
  /\ inv = [s \in States |-> NoFile]
  /\ op = [t \in Tokens |-> "idle"]
  /\ phase = "up"
  /\ todo = << >>
  /\ clock = 0 /\ crashes = 0
  /\ dirty = FALSE

-----------------------------------------------------------------------------
(* Writing the inventory files. *)

\* One write of a file: the entry of the token is deleted from it, or a new entry
\* with the given status is put in front, or both.
Write(file, del, status) == [file |-> file, del |-> del, status |-> status]

\* Mutant: the entry stays in the unvetted file.
invMoveKeeps(status) == << Write("vetted", FALSE, status) >>

invAdd(state, status) == << Write(state, FALSE, status) >>
invUpdate(state, status) == << Write(state, TRUE, status) >>
invMoveToVetted(status) ==
  << Write("unvetted", TRUE, "none"), Write("vetted", FALSE, status) >>

\* The first entry of the token is removed.
entryDel(entries, t) ==
  RemoveAt(entries, CHOOSE i \in DOMAIN entries :
                      entries[i].token = t /\ \A k \in 1..(i - 1) : entries[k].token # t)

\* The file cannot be decoded, or entryDel finds no entry.
CanWrite(i, w, t) == i[w.file].valid /\ (w.del => Has(i[w.file].entries, t))

invSave(i, w, t) ==
  LET old == IF w.del THEN entryDel(i[w.file].entries, t) ELSE i[w.file].entries
      new == IF w.status = "none" THEN old
             ELSE << [token |-> t, status |-> w.status] >> \o old
  IN  [i EXCEPT ![w.file].entries = new]

\* The files after the first n writes, which stop at the first error.
AfterWrites(i, ws, t) ==
  LET after[n \in 0..Len(ws)] ==
        IF n = 0 THEN [inv |-> i, ok |-> TRUE]
        ELSE IF after[n - 1].ok /\ CanWrite(after[n - 1].inv, ws[n], t)
             THEN [inv |-> invSave(after[n - 1].inv, ws[n], t), ok |-> TRUE]
             ELSE [after[n - 1] EXCEPT !.ok = FALSE]
  IN  after

\* What a crash can leave: some of the writes, the last of them perhaps torn.
Interrupted(i, ws, t) ==
  LET after == AfterWrites(i, ws, t)
      done == {n \in DOMAIN after : after[n].ok}
  IN  {after[n].inv : n \in done}
      \cup {[after[n].inv EXCEPT ![ws[n].file].valid = FALSE] : n \in done \ {0}}

-----------------------------------------------------------------------------
(* Requests.  Each holds the lock of its record; a client learns the token of a  *)
(* new record from the reply.                                                    *)

Free(t) == phase = "up" /\ op[t] = "idle"
Save(t, state, status) ==
  /\ clock < MaxOps
  /\ clock' = clock + 1
  /\ records' = [records EXCEPT ![t] =
                   [state |-> state, status |-> status, time |-> clock + 1]]

\* The tree is created before the record is saved to it.
TreeNew(t) ==
  /\ Free(t) /\ records[t] = NoTree
  /\ records' = [records EXCEPT ![t] = EmptyTree]
  /\ op' = [op EXCEPT ![t] = "new"]
  /\ UNCHANGED <<inv, phase, todo, clock, crashes, dirty>>

RecordNew(t) ==
  /\ phase = "up" /\ op[t] = "new"
  /\ Save(t, "unvetted", "unreviewed")
  /\ op' = [op EXCEPT ![t] = "add"]
  /\ UNCHANGED <<inv, phase, todo, crashes, dirty>>

\* RecordSave fails: the tree stays empty.
RecordNewError(t) ==
  /\ phase = "up" /\ op[t] = "new" /\ crashes < MaxCrashes
  /\ op' = [op EXCEPT ![t] = "idle"]
  /\ crashes' = crashes + 1
  /\ UNCHANGED <<records, inv, phase, todo, clock, dirty>>

\* RecordEdit and RecordEditMetadata give the record a new time stamp and leave the
\* inventory alone.
RecordEdit(t) ==
  /\ Free(t) /\ Exists(t) /\ records[t].status \in {"unreviewed", "public"}
  /\ Save(t, records[t].state, records[t].status)
  /\ UNCHANGED <<inv, op, phase, todo, crashes, dirty>>

statusChangeIsAllowed(from, to) ==
  \/ from = "unreviewed" /\ to \in {"public", "censored"}
  \/ from = "public" /\ to \in {"archived", "censored"}

RecordSetStatus(t, status) ==
  /\ Free(t) /\ Exists(t) /\ statusChangeIsAllowed(records[t].status, status)
  /\ Save(t, IF status = "public" THEN "vetted" ELSE records[t].state, status)
  /\ op' = [op EXCEPT ![t] = IF status = "public" THEN "move" ELSE "update"]
  /\ UNCHANGED <<inv, phase, todo, crashes, dirty>>

\* The save takes effect and the files are not updated: the request fails after it
\* (RecordDel after the freeze), or the append of the index leaf times out and the
\* leaf is integrated at once or at a time when no request works on the record.
SaveUnlisted(t, state, status) ==
  /\ phase # "fsck" /\ crashes < MaxCrashes
  /\ Save(t, state, status)
  /\ op' = [op EXCEPT ![t] = "idle"]
  /\ dirty' = TRUE
  /\ crashes' = crashes + 1
  /\ UNCHANGED <<inv, phase, todo>>

RecordNewUnlisted(t) ==
  /\ records[t] = EmptyTree
  /\ SaveUnlisted(t, "unvetted", "unreviewed")

RecordSetStatusUnlisted(t, status) ==
  /\ op[t] = "idle" /\ Exists(t) /\ statusChangeIsAllowed(records[t].status, status)
  /\ SaveUnlisted(t, IF status = "public" THEN "vetted" ELSE records[t].state, status)

Updating == {"add", "move", "update"}
CacheWrites(t) ==
  CASE op[t] = "add" -> invAdd("unvetted", "unreviewed")
    [] op[t] = "move" -> invMoveToVetted(records[t].status)
    [] op[t] = "update" -> invUpdate(records[t].state, records[t].status)

\* The request updates the cache, under the lock of the files, and returns.  An
\* error is a panic, which the http middleware recovers from.
CacheUpdate(t) ==
  /\ phase = "up" /\ op[t] \in Updating
  /\ LET ws == CacheWrites(t)
         result == AfterWrites(inv, ws, t)[Len(ws)]
     IN  /\ inv' = result.inv
         /\ dirty' = (dirty \/ ~result.ok)
  /\ op' = [op EXCEPT ![t] = "idle"]
  /\ UNCHANGED <<records, phase, todo, clock, crashes>>

\* A request that reads the inventory under the read lock, or a record.
Read == phase = "up" /\ UNCHANGED vars

-----------------------------------------------------------------------------
(* Crashes and the fsck. *)

\* The writes by which the fsck adds a record.
FsckWrites(t) ==
  IF records[t].state = "vetted"
    THEN invAdd("unvetted", "unreviewed") \o invMoveToVetted(records[t].status)
    ELSE invAdd("unvetted", records[t].status)

\* The writes that are under way.
Interruptible ==
  CASE phase = "up" -> {<<t, CacheWrites(t)>> : t \in {u \in Tokens : op[u] \in Updating}}
    [] phase = "fsck" -> {<<t, FsckWrites(t)>> : t \in {todo[i] : i \in 1..Len(todo) \cap {1}}}
    [] OTHER -> {}

Crash ==
  /\ phase # "down" /\ crashes < MaxCrashes
  /\ inv' \in {inv} \cup UNION {Interrupted(inv, w[2], w[1]) : w \in Interruptible}
  /\ op' = [t \in Tokens |-> "idle"]
  /\ phase' = "down"
  /\ todo' = << >>
  /\ dirty' = TRUE
  /\ crashes' = crashes + 1
  /\ UNCHANGED <<records, clock>>

Start ==
  /\ phase = "down" /\ FALSE \in FsckOptions
  /\ phase' = "up"
  /\ UNCHANGED <<records, inv, op, todo, clock, crashes, dirty>>

\* The vetted records and then the unvetted ones, from oldest to newest.
Before(a, b) ==
  \/ records[a].state = "vetted" /\ records[b].state = "unvetted"
  \/ records[a].state = records[b].state /\ records[a].time <= records[b].time
FsckOrders ==
  {order \in UNION {[1..n -> {t \in Tokens : Exists(t)}] : n \in 0..Cardinality(Tokens)} :
     /\ \A t \in Tokens : Exists(t) => \E i \in DOMAIN order : order[i] = t
     /\ \A i, k \in DOMAIN order : i < k => order[i] # order[k] /\ Before(order[i], order[k])}

\* The files are removed and built anew.  The fsck reads the record of every tree
\* first: an empty tree is an error, and politeiad exits.
FsckStart ==
  /\ phase = "down" /\ TRUE \in FsckOptions
  /\ \A t \in Tokens : records[t].state # "empty"
  /\ inv' = [s \in States |-> NoFile]
  /\ todo' \in FsckOrders
  /\ phase' = "fsck"
  /\ UNCHANGED <<records, op, clock, crashes, dirty>>

FsckError ==
  /\ phase = "down" /\ TRUE \in FsckOptions
  /\ \E t \in Tokens : records[t].state = "empty"
  /\ UNCHANGED vars

FsckAdd ==
  /\ phase = "fsck" /\ todo # << >>
  /\ LET ws == FsckWrites(Head(todo)) IN
     inv' = AfterWrites(inv, ws, Head(todo))[Len(ws)].inv
  /\ todo' = Tail(todo)
  /\ UNCHANGED <<records, op, phase, clock, crashes, dirty>>

FsckDone ==
  /\ phase = "fsck" /\ todo = << >>
  /\ phase' = "up"
  /\ dirty' = FALSE
  /\ UNCHANGED <<records, inv, op, todo, clock, crashes>>

Next ==
  \/ \E t \in Tokens : TreeNew(t) \/ RecordNew(t) \/ RecordNewError(t) \/ RecordNewUnlisted(t)
                       \/ RecordEdit(t)
  \/ \E t \in Tokens, s \in Statuses : RecordSetStatus(t, s) \/ RecordSetStatusUnlisted(t, s)
  \/ \E t \in Tokens : CacheUpdate(t)
  \/ Read
  \/ Crash
  \/ Start \/ FsckStart \/ FsckError \/ FsckAdd \/ FsckDone

\* The operator restarts politeiad, and the fsck is not interrupted for ever.
Fairness == WF_vars(Start \/ FsckStart \/ FsckAdd \/ FsckDone)

Spec == Init /\ [][Next]_vars /\ Fairness

=============================================================================
