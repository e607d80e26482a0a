--------------------------- MODULE InventoryFiles ---------------------------
(***************************************************************************)
(* What politeiad reads from the inventory files, and what the files        *)
(* promise about the records.  How they are kept is in module Inventory.    *)
(***************************************************************************)
EXTENDS Naturals, Sequences, FiniteSets, SequencesExt

CONSTANTS
  Tokens,  \* the records
  Uint     \* the number of values of a uint32, reduced

VARIABLES
  records,  \* the latest record of each tree: state, status and time stamp
  inv,      \* the two inventory files
  op,       \* the request on each record: what it still has to do
  phase,    \* of politeiad: "up", "down" or running the "fsck"
  dirty     \* whether a cache update was lost since the files were last rebuilt

States == {"unvetted", "vetted"}
Statuses == {"unreviewed", "public", "archived", "censored"}

Has(entries, t) == \E i \in DOMAIN entries : entries[i].token = t

Exists(t) == records[t].state \in States

-----------------------------------------------------------------------------
(* Reading the inventory. *)

\* The first countPerPage tokens with status s from match number startAt on: the
\* loop counts matches until it is at the page and then collects until it is full.
Collected(entries, s, countPerPage, startAt) ==
  LET scan[n \in 0..Len(entries)] ==
        IF n = 0 THEN [found |-> 0, tokens |-> << >>]
        ELSE LET acc == scan[n - 1]
             IN  IF entries[n].status # s \/ Len(acc.tokens) = countPerPage THEN acc
                 ELSE [found |-> acc.found + 1,
                       tokens |-> IF acc.found < startAt THEN acc.tokens
                                  ELSE Append(acc.tokens, entries[n].token)]
  IN  scan[Len(entries)].tokens

\* Mutant: the first match of the page is skipped.
tokensParseLate(entries, s, countPerPage, page) ==
  Collected(entries, s, countPerPage, (((page - 1) * countPerPage) % Uint) + 1)

\* A page of the tokens with status s.
tokensParse(entries, s, countPerPage, page) ==
  IF countPerPage = 0 \/ page = 0 THEN << >>
  ELSE Collected(entries, s, countPerPage, ((page - 1) * countPerPage) % Uint)

-----------------------------------------------------------------------------
(* Properties. *)

Entry(t) == [token |-> t, status |-> records[t].status]
In(e, s) == \E i \in DOMAIN inv[s].entries : inv[s].entries[i] = e

\* Unless a cache update was lost (with a stopped process, or with a request that failed
\* or timed out although its save took effect), a record that no request works on is
\* listed with its status in the file of its state, and other tokens are not listed at all
\* (the wrappers inventoryAdd, inventoryUpdate and inventoryMoveToVetted panic
\* because otherwise "the cache is no longer coherent").
CacheIsCoherent ==
  ~dirty /\ phase = "up" => \A t \in Tokens : op[t] = "idle" =>
    \A s \in States :
      IF Exists(t) /\ s = records[t].state THEN In(Entry(t), s)
      ELSE ~Has(inv[s].entries, t)

\* The tokens with a status, in order.
Matching(entries, s) ==
  LET match[n \in 0..Len(entries)] ==
        IF n = 0 THEN << >>
        ELSE IF entries[n].status = s THEN Append(match[n - 1], entries[n].token)
        ELSE match[n - 1]
  IN  match[Len(entries)]

\* Consecutive pages of a status show every token with that status once, in order.
PagesAreComplete ==
  \A file \in States, s \in Statuses : \A size \in 1..Cardinality(Tokens) :
    LET entries == inv[file].entries
        pages == [n \in 1..Cardinality(Tokens) |-> tokensParse(entries, s, size, n)]
    IN  FlattenSeq(pages) = Matching(entries, s)

=============================================================================
