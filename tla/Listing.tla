------------------------------- MODULE Listing --------------------------------
(***************************************************************************)
(* What SyncEngine takes as one call and is not: lists that are read page  *)
(* by page, and labels that are looked up, created and attached one        *)
(* request at a time, while other clients of the same Vikunja create and   *)
(* delete tasks and labels.  Two operations of the engine are modelled:    *)
(* the reconciliation of the rows with the task list, and the labels of    *)
(* SyncEngine._patch_task for one task.                                    *)
(*                                                                         *)
(* Vikunja lists in the order of the ids, and an id is not used twice.     *)
(***************************************************************************)
EXTENDS Naturals, FiniteSets

CONSTANTS
  PageSize,       \* max_items_per_page
  MaxTasks,       \* bound: task ids
  MaxLabels,      \* bound: label ids
  InitTasks,      \* the project's tasks at first
  Mapped,         \* the tasks that the rows map
  Mine,           \* the one whose labels are patched
  Wanted,         \* titles of _extra_labels
  Obsolete,       \* "edupage", the legacy anchor, "subject:..."
  Human,          \* any other title
  InitTitle,      \* the labels at first
  MaxOthers,      \* bound: what other clients do
  MaxFaults       \* bound: calls that fail

Title == Wanted \cup Obsolete \cup Human
TaskId == 1 .. MaxTasks
LabelId == 1 .. MaxLabels
NoTitle == "none"
NoLabel == 0

ASSUME ListingAssumption ==
  /\ PageSize \in Nat \ {0} /\ MaxTasks \in Nat /\ MaxLabels \in Nat \ {0}
  /\ InitTasks \subseteq TaskId /\ Mapped \subseteq InitTasks /\ Mine \in Mapped
  /\ NoTitle \notin Title /\ InitTitle \in [LabelId -> Title \cup {NoTitle}]
  /\ MaxOthers \in Nat /\ MaxFaults \in Nat

VARIABLES
  live, nextTask,      \* the project's tasks
  labels, title, nextLabel,   \* the account's labels; an id keeps its title
  on,                  \* the labels on the task Mine
  rows,                \* the tasks that rows map
  pc, page,
  got,                 \* ids on the pages read so far
  held,                \* existing_labels: the labels of Mine, as they were listed
  ids,                 \* label_ids
  label,               \* the label that ensure_label returned
  left,                \* titles that are still to be ensured
  deleted, raced,      \* history: a task or a label was deleted during the operation;
                       \* a label came or went during a lookup, now or ever
  meddled,             \* history: others touched labels or Mine since the patch began
  others, faults

server == <<live, nextTask, labels, title, nextLabel, on>>
memory == <<pc, page, got, held, ids, label, left>>
history == <<deleted, raced, meddled>>
vars == <<server, rows, memory, history, others, faults>>

Looking == {"labels", "found"}
PC == {"idle", "tasks", "mine", "prune", "ensure", "attach", "replace", "done"}
      \cup Looking

Pages(n) == (n + PageSize - 1) \div PageSize

\* No list is read beyond the pages that it can have.
TypeOK ==
  /\ live \subseteq TaskId /\ nextTask \in 1 .. MaxTasks + 1
  /\ labels \subseteq LabelId /\ title \in [LabelId -> Title \cup {NoTitle}]
  /\ nextLabel \in 1 .. MaxLabels + 1 /\ on \subseteq labels
  /\ rows \subseteq Mapped
  /\ pc \in PC /\ page \in 1 .. Pages(IF pc = "labels" THEN MaxLabels ELSE MaxTasks)
  /\ got \subseteq TaskId \cup LabelId /\ held \subseteq LabelId /\ ids \subseteq LabelId
  /\ label \in LabelId \cup {NoLabel} /\ left \subseteq Wanted
  /\ deleted \in BOOLEAN /\ raced \in BOOLEAN /\ meddled \in BOOLEAN
  /\ others \in 0 .. MaxOthers /\ faults \in 0 .. MaxFaults

Init ==
  /\ live = InitTasks /\ nextTask = CHOOSE n \in 1 .. MaxTasks + 1 : \A t \in live : t < n
  /\ title = InitTitle /\ labels = {l \in LabelId : title[l] # NoTitle}
  /\ nextLabel = CHOOSE n \in 1 .. MaxLabels + 1 : \A l \in labels : l < n
  /\ on \in SUBSET {l \in labels : title[l] \notin Wanted}
  /\ rows = Mapped
  /\ pc = "idle" /\ page = 1 /\ got = {} /\ held = {} /\ ids = {}
  /\ label = NoLabel /\ left = {}
  /\ deleted = FALSE /\ raced = FALSE /\ meddled = FALSE /\ others = 0 /\ faults = 0

---------------------------------------------------------------------------
(* The other clients.                                                      *)

Other == others < MaxOthers /\ others' = others + 1

OtherCreatesTask ==
  /\ Other /\ nextTask <= MaxTasks
  /\ live' = live \cup {nextTask} /\ nextTask' = nextTask + 1
  /\ UNCHANGED <<labels, title, nextLabel, on, rows, memory, history, faults>>

OtherDeletesTask(t) ==
  /\ Other /\ t \in live /\ live' = live \ {t}
  /\ on' = IF t = Mine THEN {} ELSE on
  /\ deleted' = TRUE /\ meddled' = (meddled \/ t = Mine)
  /\ UNCHANGED <<nextTask, labels, title, nextLabel, rows, memory, raced, faults>>

\* A person attaches a label to the task Mine, or detaches one.
OtherLabels(attached) ==
  /\ Other /\ Mine \in live /\ attached # on /\ on' = attached
  /\ meddled' = TRUE
  /\ UNCHANGED <<live, nextTask, labels, title, nextLabel, rows, memory, deleted, raced,
                 faults>>

\* Another account's sync wants the same label; it too looks before it creates.
OtherCreatesLabel(w) ==
  /\ Other /\ nextLabel <= MaxLabels
  /\ \A l \in labels : title[l] # w
  /\ labels' = labels \cup {nextLabel} /\ title' = [title EXCEPT ![nextLabel] = w]
  /\ nextLabel' = nextLabel + 1
  /\ raced' = (raced \/ pc \in Looking)
  /\ UNCHANGED <<live, nextTask, on, rows, memory, deleted, meddled, faults>>

OtherDeletesLabel(l) ==
  /\ Other /\ labels' = labels \ {l} /\ on' = on \ {l}
  /\ deleted' = TRUE /\ raced' = (raced \/ pc \in Looking) /\ meddled' = TRUE
  /\ UNCHANGED <<live, nextTask, title, nextLabel, rows, memory, faults>>

---------------------------------------------------------------------------
(* Pages.                                                                  *)

\* The k-th page of the things S, in the order of their ids, and how many there are.
PageOf(S, k) == {x \in S : 1 + Cardinality({y \in S : y < x}) \div PageSize = k}
TotalPages(S) == Pages(Cardinality(S))

\* Mutated forms: the loop stops before the last page; it goes on to an empty page.
LastPageEarly(S) == page + 1 >= TotalPages(S)
LastPageEmpty(S) == page > TotalPages(S)

\* The total is that of the page at hand, not of the first one.
LastPage(S) == page >= TotalPages(S)

\* One request of a list; `next` is what follows the last page.
ReadPage(S, next) ==
  /\ got' = got \cup PageOf(S, page)
  /\ IF LastPage(S) THEN pc' = next /\ page' = 1 ELSE page' = page + 1 /\ UNCHANGED pc

---------------------------------------------------------------------------
(* Reconciliation: the task list against the rows.                         *)

Begin(place) ==
  /\ pc = "idle" /\ pc' = place /\ deleted' = FALSE /\ meddled' = FALSE
  /\ UNCHANGED <<server, rows, page, got, held, ids, label, left, raced, others, faults>>

\* The operation is over, and its local variables are gone.
Forget ==
  /\ pc' = "idle" /\ page' = 1 /\ got' = {} /\ held' = {} /\ ids' = {}
  /\ label' = NoLabel /\ left' = {}

StartReconcile == rows # {} /\ Begin("tasks")

ListTasks ==
  /\ pc = "tasks" /\ ReadPage(live, "prune")
  /\ UNCHANGED <<server, rows, held, ids, label, left, history, others, faults>>

\* The rows whose tasks were not listed.
Prune ==
  /\ pc = "prune" /\ rows' = rows \cap got /\ Forget
  /\ UNCHANGED <<server, history, others, faults>>

---------------------------------------------------------------------------
(* The labels of a patch.                                                  *)

StartPatch == Mine \in rows /\ Begin("mine")

\* Mutated form: a replacement starts from the wanted labels alone.
KeptNothing(existing) == {}

\* label_ids at first: all but the technical labels.
Kept(existing) == {l \in existing : title[l] \notin Obsolete}

\* _patch_task lists the project to see the labels of its one task.
ListMine ==
  /\ pc = "mine" /\ ReadPage(live, "ensure")
  /\ held' = IF Mine \in PageOf(live, page) THEN on ELSE held
  /\ ids' = Kept(held') /\ left' = Wanted
  /\ UNCHANGED <<server, rows, label, history, others, faults>>

\* removing_obsolete
Removing == \E l \in held : title[l] \in Obsolete

\* ensure_label looks for the next title, in the titles' order.
Ensure ==
  /\ pc = "ensure" /\ left # {}
  /\ pc' = "labels" /\ got' = {} /\ page' = 1
  /\ UNCHANGED <<server, rows, held, ids, label, left, history, others, faults>>

TitleAtHand == CHOOSE w \in left : TRUE

ListLabels ==
  /\ pc = "labels" /\ ReadPage(labels, "found")
  /\ UNCHANGED <<server, rows, held, ids, label, left, history, others, faults>>

\* Mutated form: only the labels of the task are looked at.
FoundOnTask == {l \in got \cap held : title[l] = TitleAtHand}

Found == {l \in got : title[l] = TitleAtHand}

\* Mutated form: a label that is to come with the replacement is forgotten.
EnsuredUnlessRemoving(l) ==
  /\ left' = left \ {TitleAtHand} /\ label' = l
  /\ ids' = IF Removing THEN ids ELSE ids \cup {l}
  /\ pc' = IF l \in ids \/ Removing THEN "ensure" ELSE "attach"

\* The label is one of the ids; unless they are to replace the task's, it is attached.
Ensured(l) ==
  /\ left' = left \ {TitleAtHand} /\ label' = l /\ ids' = ids \cup {l}
  /\ pc' = IF l \in ids \/ Removing THEN "ensure" ELSE "attach"

UseFound ==
  /\ pc = "found"
  /\ \E l \in Found : (\A m \in Found : l <= m) /\ Ensured(l)
  /\ UNCHANGED <<server, rows, page, got, held, history, others, faults>>

\* The server's part of a request.
Effect ==
  /\ pc = "found" => nextLabel <= MaxLabels /\ Found = {}
  /\ labels' = IF pc = "found" THEN labels \cup {nextLabel} ELSE labels
  /\ title' = IF pc = "found" THEN [title EXCEPT ![nextLabel] = TitleAtHand] ELSE title
  /\ nextLabel' = IF pc = "found" THEN nextLabel + 1 ELSE nextLabel
  /\ on' = CASE pc = "attach" -> on \cup {label}
             [] pc = "replace" -> ids
             [] OTHER -> on
  /\ UNCHANGED <<live, nextTask>>

CreateLabel ==
  /\ pc = "found" /\ Effect /\ Ensured(nextLabel)
  /\ UNCHANGED <<rows, page, got, held, history, others, faults>>

\* All titles are ensured.
LabelsKnown ==
  /\ pc = "ensure" /\ left = {}
  /\ pc' = IF Removing THEN "replace" ELSE "done"
  /\ UNCHANGED <<server, rows, page, got, held, ids, label, left, history, others, faults>>

\* The task and the labels of attach_label or replace_labels are there.
Accepted == Mine \in live /\ (IF pc = "attach" THEN {label} ELSE ids) \subseteq labels

SetLabels ==
  /\ pc \in {"attach", "replace"} /\ Accepted /\ Effect
  /\ pc' = IF pc = "attach" THEN "ensure" ELSE "done"
  /\ UNCHANGED <<rows, page, got, held, ids, label, left, history, others, faults>>

\* A 404, about the task or about a label: the engine takes the task for gone
\* (_handle_gone).
TaskGone ==
  /\ pc \in {"attach", "replace"} /\ ~Accepted
  /\ rows' = rows \ {Mine} /\ Forget
  /\ UNCHANGED <<server, history, others, faults>>

Finish ==
  /\ pc = "done" /\ Forget
  /\ UNCHANGED <<server, rows, history, others, faults>>

\* A call fails, with its effect or without; the operation starts over, or is dropped.
CallFails ==
  /\ pc \notin {"idle", "prune", "ensure", "done"} /\ faults < MaxFaults /\ faults' = faults + 1
  /\ \/ UNCHANGED server
     \/ pc \in {"attach", "replace"} /\ Accepted /\ Effect
     \/ pc = "found" /\ Effect
  /\ Forget
  /\ UNCHANGED <<rows, history, others>>

---------------------------------------------------------------------------
(* The specification.                                                      *)

Others ==
  \/ OtherCreatesTask \/ \E t \in live : OtherDeletesTask(t)
  \/ \E l \in labels : OtherLabels(on \cup {l}) \/ OtherLabels(on \ {l})
  \/ \E w \in Wanted : OtherCreatesLabel(w)
  \/ \E l \in labels : OtherDeletesLabel(l)

Next ==
  \/ Others
  \/ StartReconcile \/ ListTasks \/ Prune
  \/ StartPatch \/ ListMine \/ Ensure \/ ListLabels \/ UseFound \/ CreateLabel
  \/ LabelsKnown \/ SetLabels \/ TaskGone \/ Finish \/ CallFails

Spec == Init /\ [][Next]_vars

---------------------------------------------------------------------------
(* Properties.                                                             *)

\* A row lets go of a living task only when another client deleted something while the
\* engine looked: a task, which moved the others across a page boundary, or the label of
\* a request, whose 404 is taken for the task's.  Creations never do it.
LetsGoAfterDeletion == [][\A t \in rows \ rows' : t \in live => deleted]_vars

\* Whatever the engine does to the labels, one that was on the task when its page was
\* read and is not technical stays ("unrelated human labels are kept").
HumanLabelsKept ==
  [][others' = others =>
       \A l \in on \ on' : title[l] \in Obsolete \/ l \notin held]_vars

\* A patch that went through undisturbed leaves all wanted labels on the task, attached
\* one by one or as part of the replacement.
WantedAttached ==
  pc = "done" /\ ~meddled => \A w \in Wanted : \E l \in on : title[l] = w

\* The engine alone, whatever fails and is tried again, creates no label twice; only a
\* client that came between its look and its POST, or moved the pages, makes it.
OneLabelPerTitle ==
  ~raced => \A l, m \in labels : title[l] = title[m] /\ title[l] \in Wanted => l = m
===============================================================================
