--------------------------- MODULE RecordHistory ---------------------------
(***************************************************************************)
(* What the tstore backend promises about one record: it is created once,  *)
(* each update replaces it as a whole, versions and iterations grow by one,*)
(* publication restarts the history, and an archived or censored record    *)
(* never changes again.                                                     *)
(***************************************************************************)
EXTENDS Naturals

CONSTANTS Files, Streams

VARIABLE rec   \* the empty set, or the set that holds the current record

New ==
  /\ rec = {}
  /\ \E f \in (SUBSET Files) \ {{}}, m \in SUBSET Streams :
       rec' = {[state |-> "unvetted", status |-> "unreviewed", version |-> 1,
                iteration |-> 1, files |-> f, md |-> m]}

Editable(r) == r.status \in {"unreviewed", "public"}

Edit ==
  \E r \in rec, f \in (SUBSET Files) \ {{}}, m \in SUBSET Streams :
    /\ Editable(r)
    /\ f # r.files
    /\ rec' = {[r EXCEPT !.version = @ + 1, !.iteration = @ + 1,
                         !.files = f, !.md = m]}

\* The files and the version stay.
EditMetadata ==
  \E r \in rec, m \in SUBSET Streams :
    /\ Editable(r)
    /\ rec' = {[r EXCEPT !.iteration = @ + 1, !.md = m]}

MakePublic ==
  \E r \in rec, m \in SUBSET Streams :
    /\ r.status = "unreviewed"
    /\ rec' = {[r EXCEPT !.state = "vetted", !.status = "public",
                         !.version = 1, !.iteration = 1, !.md = m]}

Censor ==
  \E r \in rec, m \in SUBSET Streams :
    /\ Editable(r)
    /\ rec' = {[r EXCEPT !.status = "censored", !.iteration = @ + 1, !.md = m]}

Archive ==
  \E r \in rec, m \in SUBSET Streams :
    /\ r.status = "public"
    /\ rec' = {[r EXCEPT !.status = "archived", !.iteration = @ + 1, !.md = m]}

Init == rec = {}
Next == New \/ Edit \/ EditMetadata \/ MakePublic \/ Censor \/ Archive
Spec == Init /\ [][Next]_rec

=============================================================================
