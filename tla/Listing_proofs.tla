---------------------------- MODULE Listing_proofs ----------------------------
(***************************************************************************)
(* For any pages, labels and other clients: what a patch of the labels     *)
(* leaves on the task and never takes from it, and that a list which is    *)
(* read page by page is complete while nothing is deleted.                 *)
(***************************************************************************)
EXTENDS Listing, FiniteSetTheorems, TLAPS

Known == 1 .. nextLabel - 1

\* The places of a patch from the first label on.
Later == {"ensure", "labels", "found", "attach", "replace", "done"}

\* A label that exists, is attached or is remembered has an id that was given out, which
\* keeps its title; `title` and the counts are what they should be.
GivenOut ==
  /\ nextLabel \in 1 .. MaxLabels + 1 /\ title \in [LabelId -> Title \cup {NoTitle}]
  /\ labels \subseteq Known /\ on \subseteq Known /\ held \subseteq Known
  /\ ids \subseteq Known /\ pc \in PC /\ others \in Nat
  /\ pc = "labels" => got \subseteq Known
  /\ pc = "found" => got \subseteq Known
  /\ pc = "attach" => label \in ids

\* The ids of a patch: those to keep, and one for each title that has been ensured.
IdsComplete ==
  /\ left \subseteq Wanted
  /\ pc \in Looking => left # {}
  /\ pc \in {"replace", "done"} => left = {}
  /\ pc \in {"idle", "tasks", "prune"} => held = {} /\ ids = {}
  /\ pc = "mine" => ids = Kept(held)
  /\ pc \in Later => /\ Kept(held) \subseteq ids
                     /\ \A w \in Wanted \ left : \E l \in ids : title[l] = w

\* In a patch that nobody disturbs the ids are on the task, but for the one at hand, or
\* will replace its labels.
OnTask ==
  /\ ~meddled /\ pc = "mine" => held \subseteq on
  /\ ~meddled /\ pc \in Later /\ (~Removing \/ pc = "done") =>
       \A l \in ids : l \in on \/ (pc = "attach" /\ l = label)

ListInv == GivenOut /\ IdsComplete /\ OnTask

---------------------------------------------------------------------------
(* Labels and their ids.                                                   *)

LEMMA InitListing ==
  ASSUME Init
  PROVE  ListInv
<1>1. labels \subseteq LabelId /\ \E n \in 1 .. MaxLabels + 1 : \A l \in labels : l < n
  <2>1. labels \subseteq LabelId
    BY DEF Init
  <2>2. MaxLabels + 1 \in 1 .. MaxLabels + 1 /\ \A l \in labels : l < MaxLabels + 1
    BY <2>1, ListingAssumption DEF LabelId
  <2> QED
    BY <2>1, <2>2
<1>2. nextLabel \in 1 .. MaxLabels + 1 /\ \A l \in labels : l < nextLabel
  BY <1>1 DEF Init
<1>3. labels \subseteq Known
  BY <1>1, <1>2, ListingAssumption DEF LabelId, Known
<1>4. GivenOut
  BY <1>2, <1>3, ListingAssumption DEF Init, GivenOut, PC
<1> QED
  BY <1>4 DEF Init, ListInv, IdsComplete, OnTask, Later, Looking

\* A title that is given to a new id changes nothing for the ids that were given out.
LEMMA NewTitle ==
  ASSUME GivenOut, nextLabel <= MaxLabels, NEW w \in Title,
         title' = [title EXCEPT ![nextLabel] = w], nextLabel' = nextLabel + 1
  PROVE  /\ title' \in [LabelId -> Title \cup {NoTitle}] /\ nextLabel' \in 1 .. MaxLabels + 1
         /\ Known \subseteq Known' /\ nextLabel \in Known' /\ title'[nextLabel] = w
         /\ \A l \in Known : title'[l] = title[l]
<1>1. nextLabel \in LabelId /\ Known \subseteq LabelId
  BY ListingAssumption DEF GivenOut, Known, LabelId
<1> QED
  BY <1>1, ListingAssumption DEF GivenOut, Known

\* A page is one of the list's things.
LEMMA PageIsListed ==
  ASSUME NEW S, NEW k
  PROVE  PageOf(S, k) \subseteq S
  BY DEF PageOf

\* With the same titles for the ids that are held, the same ones are kept or obsolete.
LEMMA SameKept ==
  ASSUME held' = held, \A l \in held : title'[l] = title[l]
  PROVE  Kept(held)' = Kept(held) /\ Removing' = Removing
  BY DEF Kept, Removing

---------------------------------------------------------------------------
(* The steps.                                                              *)

\* Nothing of a patch is remembered between two operations.
LEMMA IdleKeeps ==
  ASSUME GivenOut', pc' = "idle", held' = {}, ids' = {}, left' = {}
  PROVE  ListInv'
<1>1. IdsComplete'
  BY DEF IdsComplete, Looking, Later
<1>2. OnTask'
  BY DEF OnTask, Later
<1> QED
  BY <1>1, <1>2 DEF ListInv

LEMMA OthersKeep ==
  ASSUME ListInv, Others
  PROVE  ListInv'
<1> USE DEF ListInv
<1>1. ASSUME UNCHANGED <<title, nextLabel, memory>>, labels' \subseteq labels,
             on' \subseteq Known, others' \in Nat, on' = on \/ meddled',
             ~meddled' => ~meddled
      PROVE  ListInv'
  <2>1. GivenOut'
    BY <1>1 DEF GivenOut, Known, memory
  <2>2. IdsComplete' /\ OnTask'
    BY <1>1 DEF IdsComplete, OnTask, memory, Kept, Removing
  <2> QED
    BY <2>1, <2>2
<1>2. others' \in Nat
  BY ListingAssumption DEF Others, GivenOut, OtherCreatesTask, OtherDeletesTask, OtherLabels,
     OtherCreatesLabel, OtherDeletesLabel, Other
<1>3. CASE OtherCreatesTask \/ \E t \in live : OtherDeletesTask(t)
  <2>1. CASE OtherCreatesTask
    BY <1>1, <1>2, <2>1 DEF OtherCreatesTask, history, GivenOut
  <2>2. ASSUME NEW t \in live, OtherDeletesTask(t)
        PROVE  ListInv'
    <3>1. /\ UNCHANGED <<title, nextLabel, memory, labels>> /\ on' \in {on, {}}
          /\ meddled' = (meddled \/ t = Mine) /\ (t = Mine \/ on' = on)
      BY <2>2 DEF OtherDeletesTask
    <3> QED
      BY <1>1, <1>2, <3>1 DEF GivenOut
  <2> QED
    BY <1>3, <2>1, <2>2
<1>4. CASE \E l \in labels : OtherLabels(on \cup {l}) \/ OtherLabels(on \ {l})
  BY <1>1, <1>2, <1>4 DEF OtherLabels, GivenOut
<1>5. CASE \E l \in labels : OtherDeletesLabel(l)
  BY <1>1, <1>2, <1>5 DEF OtherDeletesLabel, GivenOut
<1>6. ASSUME NEW w \in Wanted, OtherCreatesLabel(w)
      PROVE  ListInv'
  <2>1. /\ labels' = labels \cup {nextLabel} /\ title' = [title EXCEPT ![nextLabel] = w]
        /\ nextLabel' = nextLabel + 1 /\ nextLabel <= MaxLabels
        /\ UNCHANGED <<on, memory, meddled>>
    BY <1>6 DEF OtherCreatesLabel
  <2>2. w \in Title
    BY DEF Title
  <2>3. /\ title' \in [LabelId -> Title \cup {NoTitle}] /\ nextLabel' \in 1 .. MaxLabels + 1
        /\ Known \subseteq Known' /\ nextLabel \in Known'
        /\ \A l \in Known : title'[l] = title[l]
    BY <2>1, <2>2, NewTitle
  <2>4. GivenOut'
    BY <1>2, <2>1, <2>3 DEF GivenOut, memory
  <2>5. Kept(held)' = Kept(held) /\ Removing' = Removing
    BY <2>1, <2>3, SameKept DEF GivenOut, memory
  <2>6. IdsComplete'
    BY <2>1, <2>3, <2>5 DEF IdsComplete, GivenOut, memory
  <2>7. OnTask'
    BY <2>1, <2>5 DEF OnTask, memory
  <2> QED
    BY <2>4, <2>6, <2>7
<1> QED
  BY <1>3, <1>4, <1>5, <1>6 DEF Others

\* The lists: what is read of them has been given out.
LEMMA ReadsKeep ==
  ASSUME ListInv, StartReconcile \/ ListTasks \/ Prune \/ StartPatch \/ Ensure \/ ListLabels
  PROVE  ListInv'
<1> USE DEF ListInv
<1>1. UNCHANGED <<server, others>> /\ left' \in {left, {}}
  BY DEF StartReconcile, ListTasks, Prune, StartPatch, Ensure, ListLabels, Begin, Forget
<1>2. CASE StartReconcile \/ StartPatch \/ ListTasks
  <2>1. UNCHANGED <<held, ids, label, left>>
    BY <1>2 DEF StartReconcile, StartPatch, ListTasks, Begin
  <2>2. /\ pc \in {"idle", "tasks"} /\ pc' \in {"tasks", "prune", "mine"}
    BY <1>2 DEF StartReconcile, StartPatch, ListTasks, Begin, ReadPage
  <2>3. GivenOut'
    BY <1>1, <2>1, <2>2 DEF GivenOut, server, Known, PC
  <2>4. IdsComplete'
    BY <1>1, <2>1, <2>2 DEF IdsComplete, Later, Looking, Kept
  <2>5. OnTask'
    BY <1>1, <2>1, <2>2 DEF OnTask, IdsComplete, Later
  <2> QED
    BY <2>3, <2>4, <2>5
<1>3. CASE Prune
  <2>1. GivenOut'
    BY <1>1, <1>3 DEF Prune, Forget, GivenOut, server, Known, PC
  <2> QED
    BY <1>3, <2>1, IdleKeeps DEF Prune, Forget
<1>4. CASE Ensure \/ ListLabels
  <2>1. UNCHANGED <<held, ids, label, left, meddled>>
    BY <1>4 DEF Ensure, ListLabels, history
  <2>2. /\ pc \in {"ensure", "labels"} /\ pc' \in Looking /\ left # {} /\ got' \subseteq Known
    <3>1. CASE Ensure
      BY <3>1 DEF Ensure, Looking
    <3>2. CASE ListLabels
      BY <3>2, PageIsListed DEF ListLabels, ReadPage, Looking, GivenOut, IdsComplete
    <3> QED
      BY <1>4, <3>1, <3>2
  <2>3. GivenOut'
    BY <1>1, <2>1, <2>2 DEF GivenOut, server, Known, PC, Looking
  <2>4. Kept(held)' = Kept(held) /\ Removing' = Removing
    BY <1>1, <2>1, SameKept DEF server
  <2>5. IdsComplete'
    BY <1>1, <2>1, <2>2, <2>4 DEF IdsComplete, Later, Looking, server
  <2>6. OnTask'
    BY <1>1, <2>1, <2>2, <2>4 DEF OnTask, Later, Looking, server
  <2> QED
    BY <2>3, <2>5, <2>6
<1> QED
  BY <1>2, <1>3, <1>4

\* The labels that the task has on its page are held, and all but the technical kept.
LEMMA MineKeeps ==
  ASSUME ListInv, ListMine
  PROVE  ListInv'
<1> USE DEF ListInv
<1>1. /\ pc = "mine" /\ pc' \in {"mine", "ensure"}
      /\ held' \in {held, on} /\ ids' = Kept(held') /\ left' = Wanted
      /\ UNCHANGED <<server, label, meddled, others>>
  BY DEF ListMine, ReadPage, history
<1>2. Kept(held)' = ids' /\ ids' \subseteq held'
  BY <1>1 DEF Kept, server
<1>3. GivenOut'
  BY <1>1, <1>2 DEF GivenOut, server, Known, PC
<1>4. IdsComplete'
  BY <1>1, <1>2 DEF IdsComplete, Later, Looking
<1>5. OnTask'
  BY <1>1, <1>2 DEF OnTask, Later, server
<1> QED
  BY <1>3, <1>4, <1>5

\* A title is ensured, by a label that was found or that is new.
LEMMA EnsuredKeeps ==
  ASSUME ListInv, GivenOut', pc = "found", NEW l \in Known', title'[l] = TitleAtHand,
         Ensured(l), \A m \in Known : title'[m] = title[m],
         UNCHANGED <<on, held, meddled>>
  PROVE  ListInv'
<1> USE DEF ListInv
<1>1. /\ left' = left \ {TitleAtHand} /\ label' = l /\ ids' = ids \cup {l}
      /\ pc' = IF l \in ids \/ Removing THEN "ensure" ELSE "attach"
  BY DEF Ensured
<1>2. Kept(held)' = Kept(held) /\ Removing' = Removing
  BY SameKept DEF GivenOut
<1>3. IdsComplete'
  <2>1. Kept(held) \subseteq ids /\ left \subseteq Wanted
        /\ \A w \in Wanted \ left : \E m \in ids : title[m] = w
    BY DEF IdsComplete, Later
  <2>2. \A w \in Wanted \ left' : \E m \in ids' : title'[m] = w
    BY <1>1, <2>1 DEF GivenOut
  <2> QED
    BY <1>1, <1>2, <2>1, <2>2 DEF IdsComplete, Later, Looking
<1>4. OnTask'
  BY <1>1, <1>2 DEF OnTask, Later
<1> QED
  BY <1>3, <1>4

LEMMA LookupKeeps ==
  ASSUME ListInv, UseFound \/ CreateLabel
  PROVE  ListInv'
<1> USE DEF ListInv
<1>1. TitleAtHand \in left /\ TitleAtHand \in Title
  <2>1. pc = "found"
    BY DEF UseFound, CreateLabel
  <2>2. left # {} /\ left \subseteq Wanted
    BY <2>1 DEF IdsComplete, Looking
  <2> QED
    BY <2>2 DEF TitleAtHand, Title
<1>2. CASE UseFound
  <2>1. PICK l \in Found : Ensured(l)
    BY <1>2 DEF UseFound
  <2>2. pc = "found" /\ l \in Known /\ title[l] = TitleAtHand
        /\ UNCHANGED <<server, held, meddled, others>>
    BY <1>2 DEF UseFound, Found, GivenOut, history
  <2>3. ids' = ids \cup {l} /\ label' = l /\ pc' \in {"ensure", "attach"}
    BY <2>1 DEF Ensured
  <2>4. GivenOut'
    BY <2>2, <2>3 DEF GivenOut, server, Known, PC
  <2> QED
    BY <2>1, <2>2, <2>4, EnsuredKeeps DEF server, Known
<1>3. CASE CreateLabel
  <2>1. /\ pc = "found" /\ nextLabel <= MaxLabels
        /\ labels' = labels \cup {nextLabel} /\ nextLabel' = nextLabel + 1
        /\ title' = [title EXCEPT ![nextLabel] = TitleAtHand]
        /\ on' = on /\ Ensured(nextLabel) /\ UNCHANGED <<held, meddled, others>>
    BY <1>3 DEF CreateLabel, Effect, history
  <2>2. /\ title' \in [LabelId -> Title \cup {NoTitle}] /\ nextLabel' \in 1 .. MaxLabels + 1
        /\ Known \subseteq Known' /\ nextLabel \in Known' /\ title'[nextLabel] = TitleAtHand
        /\ \A l \in Known : title'[l] = title[l]
    BY <1>1, <2>1, NewTitle
  <2>3. ids' = ids \cup {nextLabel} /\ label' = nextLabel /\ pc' \in {"ensure", "attach"}
    BY <2>1 DEF Ensured
  <2>4. GivenOut'
    BY <2>1, <2>2, <2>3 DEF GivenOut, PC
  <2> QED
    BY <2>1, <2>2, <2>4, EnsuredKeeps
<1> QED
  BY <1>2, <1>3

\* The last label is attached, or all are set at once.
LEMMA SettingKeeps ==
  ASSUME ListInv, LabelsKnown \/ SetLabels
  PROVE  ListInv'
<1> USE DEF ListInv
<1>1. CASE LabelsKnown
  <2>1. /\ pc = "ensure" /\ left = {} /\ pc' = IF Removing THEN "replace" ELSE "done"
        /\ UNCHANGED <<server, held, ids, label, left, meddled, others>>
    BY <1>1 DEF LabelsKnown, history
  <2>2. Kept(held)' = Kept(held) /\ Removing' = Removing
    BY <2>1, SameKept DEF server
  <2>3. GivenOut'
    BY <2>1 DEF GivenOut, server, Known, PC
  <2>4. IdsComplete'
    BY <2>1, <2>2 DEF IdsComplete, Later, Looking, server
  <2>5. OnTask'
    BY <2>1, <2>2 DEF OnTask, Later, server
  <2> QED
    BY <2>3, <2>4, <2>5
<1>2. CASE SetLabels
  <2>1. /\ pc \in {"attach", "replace"} /\ pc' = IF pc = "attach" THEN "ensure" ELSE "done"
        /\ on' = IF pc = "attach" THEN on \cup {label} ELSE ids
        /\ UNCHANGED <<labels, title, nextLabel, held, ids, label, left, meddled, others>>
    BY <1>2 DEF SetLabels, Effect, history
  <2>2. Kept(held)' = Kept(held) /\ Removing' = Removing
    BY <2>1, SameKept
  <2>3. GivenOut'
    BY <2>1 DEF GivenOut, Known, PC
  <2>4. IdsComplete'
    BY <2>1, <2>2 DEF IdsComplete, Later, Looking
  <2>5. OnTask'
    BY <2>1, <2>2 DEF OnTask, Later
  <2> QED
    BY <2>3, <2>4, <2>5
<1> QED
  BY <1>1, <1>2

\* The operation ends, in whatever way.
LEMMA EndingKeeps ==
  ASSUME ListInv, TaskGone \/ Finish \/ CallFails
  PROVE  ListInv'
<1> USE DEF ListInv
<1>1. Forget /\ UNCHANGED others
  BY DEF TaskGone, Finish, CallFails
<1>2. CASE UNCHANGED server
  <2>1. GivenOut'
    BY <1>1, <1>2 DEF Forget, GivenOut, server, Known, PC
  <2> QED
    BY <1>1, <2>1, IdleKeeps DEF Forget
<1>3. CASE pc \in {"attach", "replace"} /\ Effect
  <2>1. UNCHANGED <<labels, title, nextLabel>> /\ on' \subseteq Known
    BY <1>3 DEF Effect, GivenOut
  <2>2. GivenOut'
    BY <1>1, <2>1 DEF Forget, GivenOut, Known, PC
  <2> QED
    BY <1>1, <2>2, IdleKeeps DEF Forget
<1>4. CASE pc = "found" /\ Effect
  <2>1. /\ nextLabel <= MaxLabels /\ on' = on
        /\ labels' = labels \cup {nextLabel} /\ nextLabel' = nextLabel + 1
        /\ title' = [title EXCEPT ![nextLabel] = TitleAtHand]
    BY <1>4 DEF Effect
  <2>2. TitleAtHand \in Title
    BY <1>4 DEF IdsComplete, Looking, TitleAtHand, Title
  <2>3. /\ title' \in [LabelId -> Title \cup {NoTitle}] /\ nextLabel' \in 1 .. MaxLabels + 1
        /\ Known \subseteq Known' /\ nextLabel \in Known'
    BY <2>1, <2>2, NewTitle
  <2>4. GivenOut'
    BY <1>1, <2>1, <2>3 DEF Forget, GivenOut, PC
  <2> QED
    BY <1>1, <2>4, IdleKeeps DEF Forget
<1> QED
  BY <1>2, <1>3, <1>4 DEF TaskGone, Finish, CallFails

LEMMA NextListing ==
  ASSUME ListInv, [Next]_vars
  PROVE  ListInv'
<1>1. CASE UNCHANGED vars
  BY <1>1
  DEF vars, server, memory, history, ListInv, GivenOut, IdsComplete, OnTask, Known, Kept,
      Removing
<1> QED
  BY <1>1, OthersKeep, ReadsKeep, MineKeeps, LookupKeeps, SettingKeeps, EndingKeeps DEF Next

---------------------------------------------------------------------------
(* Pages and what has been read of them.                                   *)

\* The page on which a list shows the thing x.
PageNo(S, x) == 1 + Cardinality({y \in S : y < x}) \div PageSize

\* The things of S that the reader has passed are remembered.
PassedRead(S, list) == \A x \in S : PageNo(list, x) < page => x \in got

\* What was not deleted or raced since the operation began is what was read: the mapped
\* tasks, whose ids other clients' creations follow, and all the labels.
ReadSoFar ==
  /\ live \subseteq 1 .. nextTask - 1 /\ InitTasks \subseteq 1 .. nextTask - 1
  /\ pc = "idle" => page = 1
  /\ pc = "tasks" /\ ~deleted => PassedRead(rows \cap live, live)
  /\ pc = "prune" /\ ~deleted => rows \cap live \subseteq got
  /\ pc = "labels" /\ ~raced => PassedRead(labels, labels)
  /\ pc = "found" /\ ~raced => labels \subseteq got

\* Until a deletion, what a patch remembers of the labels is there.
StillThere ==
  ~deleted => held \subseteq labels /\ ids \subseteq labels
              /\ (pc \in Looking => got \subseteq labels)

PageInv == TypeOK /\ ReadSoFar /\ StillThere

\* The things that are counted are some of the first numbers.
LEMMA Counting ==
  ASSUME NEW n \in Nat, NEW S \in SUBSET (1 .. n)
  PROVE  IsFiniteSet(S) /\ Cardinality(S) \in Nat /\ Cardinality(S) <= n
<1>1. IsFiniteSet(1 .. n) /\ Cardinality(1 .. n) = n
  BY FS_Interval
<1> QED
  BY <1>1, FS_Subset, FS_CardinalityType

\* Fewer things come before one of a set than the set has.
LEMMA Before ==
  ASSUME NEW n \in Nat, NEW S \in SUBSET (1 .. n), NEW x \in S
  PROVE  /\ Cardinality({y \in S : y < x}) \in Nat
         /\ Cardinality({y \in S : y < x}) < Cardinality(S)
<1> DEFINE B == {y \in S : y < x}
<1>1. IsFiniteSet(S) /\ B \subseteq S \ {x}
  BY Counting
<1>2. IsFiniteSet(S \ {x}) /\ Cardinality(S \ {x}) = Cardinality(S) - 1
      /\ Cardinality(S) \in Nat
  BY <1>1, FS_RemoveElement, Counting
<1>3. Cardinality(B) <= Cardinality(S \ {x}) /\ IsFiniteSet(B)
  BY <1>1, <1>2, FS_Subset
<1>4. Cardinality(B) \in Nat
  BY <1>3, FS_CardinalityType
<1> QED
  BY <1>2, <1>3, <1>4

\* Division by the size of a page.
LEMMA Division ==
  ASSUME NEW a \in Nat
  PROVE  /\ a \div PageSize \in Nat
         /\ PageSize * (a \div PageSize) <= a
         /\ a < PageSize * (a \div PageSize) + PageSize
  BY ListingAssumption, SMTT(30)

LEMMA PagesGrow ==
  ASSUME NEW a \in Nat, NEW b \in Nat
  PROVE  /\ Pages(a) \in Nat /\ (a <= b => Pages(a) <= Pages(b))
         /\ (b # 0 => 1 <= Pages(b)) /\ (a < b => 1 + a \div PageSize <= Pages(b))
<1>1. PageSize \in Nat \ {0}
  BY ListingAssumption
<1>2. a + PageSize - 1 \in Nat /\ b + PageSize - 1 \in Nat
  BY <1>1
<1>3. /\ (a + PageSize - 1) \div PageSize \in Nat
      /\ PageSize * ((a + PageSize - 1) \div PageSize) <= a + PageSize - 1
      /\ a + PageSize - 1 < PageSize * ((a + PageSize - 1) \div PageSize) + PageSize
  BY <1>2, Division
<1>4. /\ (b + PageSize - 1) \div PageSize \in Nat
      /\ PageSize * ((b + PageSize - 1) \div PageSize) <= b + PageSize - 1
      /\ b + PageSize - 1 < PageSize * ((b + PageSize - 1) \div PageSize) + PageSize
  BY <1>2, Division
<1>5. a <= b => (a + PageSize - 1) \div PageSize <= (b + PageSize - 1) \div PageSize
  BY <1>1, <1>2, <1>3, <1>4, SMTT(30)
<1>6. b # 0 => 1 <= (b + PageSize - 1) \div PageSize
  BY <1>1, <1>2, <1>4, SMTT(30)
<1>7. a < b => 1 + a \div PageSize <= (b + PageSize - 1) \div PageSize
  BY <1>1, <1>2, <1>4, Division, SMTT(30)
<1> QED
  BY <1>3, <1>5, <1>6, <1>7 DEF Pages

\* Everything on a list is on one of its pages, and the list has no more pages than all
\* the ids would fill.
LEMMA OnSomePage ==
  ASSUME NEW n \in Nat \ {0}, NEW S \in SUBSET (1 .. n)
  PROVE  /\ TotalPages(S) \in Nat /\ TotalPages(S) <= Pages(n) /\ 1 <= Pages(n)
         /\ \A x \in S : PageNo(S, x) \in Nat \ {0} /\ PageNo(S, x) <= TotalPages(S)
<1>1. Cardinality(S) \in Nat /\ Cardinality(S) <= n
  BY Counting
<1>2. TotalPages(S) \in Nat /\ TotalPages(S) <= Pages(n) /\ 1 <= Pages(n)
  BY <1>1, PagesGrow DEF TotalPages
<1>3. ASSUME NEW x \in S
      PROVE  PageNo(S, x) \in Nat \ {0} /\ PageNo(S, x) <= TotalPages(S)
  <2> DEFINE r == Cardinality({y \in S : y < x})
  <2>1. r \in Nat /\ r < Cardinality(S)
    BY Before
  <2> HIDE DEF r
  <2>2. r \div PageSize \in Nat /\ 1 + r \div PageSize <= Pages(Cardinality(S))
    BY <1>1, <2>1, Division, PagesGrow
  <2>3. PageNo(S, x) = 1 + r \div PageSize
    BY DEF PageNo, r
  <2> QED
    BY <2>2, <2>3 DEF TotalPages
<1> QED
  BY <1>2, <1>3

\* A thing that comes after another does not move it to another page.
LEMMA SamePage ==
  ASSUME NEW n \in Nat, NEW S \in SUBSET (1 .. n), NEW x \in S
  PROVE  PageNo(S \cup {n + 1}, x) = PageNo(S, x)
<1>1. {y \in S \cup {n + 1} : y < x} = {y \in S : y < x}
  OBVIOUS
<1> QED
  BY <1>1 DEF PageNo

\* After a request the next page is there, or everything has been passed.
LEMMA PageRead ==
  ASSUME NEW n \in Nat \ {0}, NEW S \in SUBSET (1 .. n), NEW T \in SUBSET S, NEW next,
         page \in Nat \ {0}, page <= Pages(n), PassedRead(T, S), ReadPage(S, next)
  PROVE  /\ page' \in 1 .. Pages(n) /\ got' \subseteq got \cup S
         /\ \/ pc' = next /\ page' = 1 /\ T \subseteq got'
            \/ pc' = pc /\ \A x \in T : PageNo(S, x) < page' => x \in got'
<1>1. got' = got \cup PageOf(S, page) /\ PageOf(S, page) \subseteq S
  BY PageIsListed DEF ReadPage
<1>2. /\ TotalPages(S) \in Nat /\ TotalPages(S) <= Pages(n) /\ 1 <= Pages(n)
      /\ \A x \in S : PageNo(S, x) \in Nat /\ PageNo(S, x) <= TotalPages(S)
  BY OnSomePage
<1>3. Pages(n) \in Nat
  BY PagesGrow
<1>4. ASSUME NEW x \in T, PageNo(S, x) <= page
      PROVE  x \in got'
  <2>1. CASE PageNo(S, x) < page
    BY <1>1, <2>1 DEF PassedRead
  <2>2. CASE PageNo(S, x) = page
    BY <1>1, <2>2 DEF PageOf, PageNo
  <2> QED
    BY <1>2, <1>4, <2>1, <2>2
<1>5. CASE LastPage(S)
  <2>1. pc' = next /\ page' = 1
    BY <1>5 DEF ReadPage
  <2>2. T \subseteq got'
    BY <1>2, <1>4, <1>5 DEF LastPage
  <2> QED
    BY <1>1, <1>2, <1>3, <2>1, <2>2
<1>6. CASE ~LastPage(S)
  <2>1. pc' = pc /\ page' = page + 1
    BY <1>6 DEF ReadPage
  <2>2. page + 1 <= Pages(n)
    BY <1>2, <1>3, <1>6 DEF LastPage
  <2>3. \A x \in T : PageNo(S, x) < page' => x \in got'
    BY <1>2, <1>4, <2>1
  <2> QED
    BY <1>1, <1>3, <2>1, <2>2, <2>3
<1> QED
  BY <1>5, <1>6

---------------------------------------------------------------------------
(* What the reader has seen, step by step.                                 *)

LEMMA SomeIds ==
  /\ MaxTasks \in Nat \ {0} /\ MaxLabels \in Nat \ {0}
  /\ TaskId = 1 .. MaxTasks /\ LabelId = 1 .. MaxLabels /\ Mapped \subseteq TaskId
  /\ \A n \in {MaxTasks, MaxLabels} : 1 \in 1 .. Pages(n)
  /\ \A n \in 1 .. MaxLabels + 1 : 1 .. n - 1 \subseteq LabelId
<1>1. /\ MaxTasks \in Nat \ {0} /\ MaxLabels \in Nat \ {0}
      /\ TaskId = 1 .. MaxTasks /\ LabelId = 1 .. MaxLabels /\ Mapped \subseteq TaskId
  BY ListingAssumption DEF TaskId, LabelId
<1>2. ASSUME NEW n \in {MaxTasks, MaxLabels} PROVE 1 \in 1 .. Pages(n)
  <2>1. Pages(n) \in Nat /\ 1 <= Pages(n)
    BY <1>1, PagesGrow
  <2> QED
    BY <2>1
<1>3. \A n \in 1 .. MaxLabels + 1 : 1 .. n - 1 \subseteq LabelId
  BY <1>1
<1> QED
  BY <1>1, <1>2, <1>3

LEMMA InitPages ==
  ASSUME Init
  PROVE  PageInv
<1>1. \E n \in 1 .. MaxTasks + 1 : \A t \in live : t < n
  <2>1. MaxTasks + 1 \in 1 .. MaxTasks + 1 /\ \A t \in live : t < MaxTasks + 1
    BY ListingAssumption DEF Init, TaskId
  <2> QED
    BY <2>1
<1>2. nextTask \in 1 .. MaxTasks + 1 /\ \A t \in live : t < nextTask
  BY <1>1 DEF Init
<1>3. live = InitTasks /\ live \subseteq TaskId /\ live \subseteq 1 .. nextTask - 1
  BY <1>2, ListingAssumption DEF Init, TaskId
<1>4. GivenOut
  BY InitListing DEF ListInv
<1>5. TypeOK
  <2>1. deleted \in BOOLEAN /\ raced \in BOOLEAN /\ meddled \in BOOLEAN
    BY DEF Init
  <2>2. labels \subseteq LabelId /\ on \subseteq labels /\ pc \in PC /\ rows \subseteq Mapped
    BY DEF Init, PC
  <2>3. page \in 1 .. Pages(IF pc = "labels" THEN MaxLabels ELSE MaxTasks)
    BY SomeIds DEF Init
  <2>4. others \in 0 .. MaxOthers /\ faults \in 0 .. MaxFaults
    BY ListingAssumption DEF Init
  <2> QED
    BY <1>2, <1>3, <1>4, <2>1, <2>2, <2>3, <2>4 DEF Init, TypeOK, GivenOut
<1> QED
  BY <1>3, <1>5 DEF Init, PageInv, ReadSoFar, StillThere

\* Other clients add what comes after everything that was read; what they take away is
\* recorded, and so is a label that comes or goes during a lookup.
LEMMA OthersPaged ==
  ASSUME ListInv, ListInv', PageInv, Others
  PROVE  PageInv'
<1> USE DEF PageInv
<1>1. others' \in 0 .. MaxOthers
  BY ListingAssumption
  DEF Others, TypeOK, OtherCreatesTask, OtherDeletesTask, OtherLabels, OtherCreatesLabel,
      OtherDeletesLabel, Other
<1>2. GivenOut'
  BY DEF ListInv
<1>3. CASE OtherCreatesTask
  <2>1. /\ nextTask <= MaxTasks /\ live' = live \cup {nextTask} /\ nextTask' = nextTask + 1
        /\ UNCHANGED <<labels, title, nextLabel, on, rows, memory, history, faults>>
    BY <1>3 DEF OtherCreatesTask
  <2>2. /\ nextTask \in 1 .. MaxTasks + 1 /\ live \subseteq 1 .. nextTask - 1
        /\ InitTasks \subseteq 1 .. nextTask - 1 /\ rows \subseteq InitTasks
        /\ MaxTasks \in Nat
    BY ListingAssumption DEF TypeOK, ReadSoFar
  <2>3. TypeOK'
    BY <1>1, <2>1, <2>2, SomeIds DEF TypeOK, memory, history
  <2>4. rows' \cap live' = rows \cap live
    BY <2>1, <2>2
  <2>5. \A t \in live : PageNo(live', t) = PageNo(live, t)
    <3>1. nextTask - 1 \in Nat /\ nextTask - 1 + 1 = nextTask
      BY <2>2
    <3> QED
      BY <2>1, <2>2, <3>1, SamePage
  <2>6. PassedRead(rows \cap live, live) => PassedRead(rows \cap live, live)'
    BY <2>1, <2>4, <2>5 DEF PassedRead, memory
  <2>7. PassedRead(labels, labels)' = PassedRead(labels, labels)
    BY <2>1 DEF PassedRead, PageNo, memory
  <2>8. live' \subseteq 1 .. nextTask' - 1 /\ InitTasks \subseteq 1 .. nextTask' - 1
    BY <2>1, <2>2
  <2> QED
    BY <2>1, <2>3, <2>4, <2>6, <2>7, <2>8 DEF ReadSoFar, StillThere, memory, history
<1>4. ASSUME NEW t \in live, OtherDeletesTask(t)
      PROVE  PageInv'
  <2>1. /\ live' = live \ {t} /\ deleted' = TRUE /\ on' \in {on, {}}
        /\ meddled' = (meddled \/ t = Mine)
        /\ UNCHANGED <<nextTask, labels, title, nextLabel, rows, memory, raced, faults>>
    BY <1>4 DEF OtherDeletesTask
  <2>2. TypeOK'
    BY <1>1, <2>1 DEF TypeOK, memory
  <2>3. PassedRead(labels, labels)' = PassedRead(labels, labels)
    BY <2>1 DEF PassedRead, PageNo, memory
  <2> QED
    BY <2>1, <2>2, <2>3 DEF ReadSoFar, StillThere, memory
<1>5. ASSUME NEW l \in labels, OtherLabels(on \cup {l}) \/ OtherLabels(on \ {l})
      PROVE  PageInv'
  <2>1. /\ on' \subseteq labels /\ meddled' = TRUE
        /\ UNCHANGED <<live, nextTask, labels, title, nextLabel, rows, memory, deleted,
                       raced, faults>>
    BY <1>5 DEF OtherLabels, TypeOK
  <2>2. TypeOK'
    BY <1>1, <2>1 DEF TypeOK, memory
  <2>3. /\ PassedRead(labels, labels)' = PassedRead(labels, labels)
        /\ PassedRead(rows \cap live, live)' = PassedRead(rows \cap live, live)
    BY <2>1 DEF PassedRead, PageNo, memory
  <2> QED
    BY <2>1, <2>2, <2>3 DEF ReadSoFar, StillThere, memory
<1>6. CASE (\E w \in Wanted : OtherCreatesLabel(w)) \/ (\E l \in labels : OtherDeletesLabel(l))
  <2>1. /\ UNCHANGED <<live, nextTask, rows, memory, faults>>
        /\ raced' = (raced \/ pc \in Looking) /\ deleted' \in BOOLEAN /\ meddled' \in BOOLEAN
        /\ on' \subseteq labels' /\ (deleted' \/ (deleted' = deleted /\ labels \subseteq labels'))
    BY <1>6 DEF OtherCreatesLabel, OtherDeletesLabel, TypeOK
  <2>2. labels' \subseteq LabelId
    <3>1. nextLabel' \in 1 .. MaxLabels + 1 /\ labels' \subseteq 1 .. nextLabel' - 1
      BY <1>2 DEF GivenOut, Known
    <3> QED
      BY <3>1, SomeIds
  <2>3. TypeOK'
    BY <1>1, <1>2, <2>1, <2>2 DEF TypeOK, GivenOut, memory
  <2>4. PassedRead(rows \cap live, live)' = PassedRead(rows \cap live, live)
    <3>1. UNCHANGED <<live, rows, page, got>>
      BY <2>1 DEF memory
    <3> QED
      BY <3>1 DEF PassedRead, PageNo
  <2>5. ReadSoFar'
    <3>1. /\ UNCHANGED <<live, nextTask, rows, pc, page, got>>
          /\ raced' = (raced \/ pc \in {"labels", "found"}) /\ (~deleted' => ~deleted)
      BY <2>1 DEF memory, Looking, TypeOK
    <3> QED
      BY <2>4, <3>1 DEF ReadSoFar
  <2>6. StillThere'
    BY <2>1 DEF StillThere, memory
  <2> QED
    BY <2>3, <2>5, <2>6
<1> QED
  BY <1>3, <1>4, <1>5, <1>6 DEF Others

\* A list is begun with nothing passed.
LEMMA BeginPaged ==
  ASSUME ListInv, PageInv, StartReconcile \/ StartPatch \/ Ensure
  PROVE  PageInv'
<1> USE DEF PageInv
<1>1. CASE StartReconcile \/ StartPatch
  <2>1. /\ pc = "idle" /\ pc' \in {"tasks", "mine"} /\ page = 1 /\ deleted' = FALSE
        /\ meddled' = FALSE /\ held = {} /\ ids = {}
        /\ UNCHANGED <<server, rows, page, got, held, ids, label, left, raced, others,
                       faults>>
    BY <1>1 DEF StartReconcile, StartPatch, Begin, ReadSoFar, ListInv, IdsComplete
  <2>2. TypeOK'
    BY <2>1 DEF TypeOK, server, PC
  <2>3. \A x \in live : PageNo(live, x) \in Nat \ {0}
    BY OnSomePage, SomeIds DEF TypeOK
  <2>4. \A x \in rows' \cap live' : ~(PageNo(live', x) < page')
    BY <2>1, <2>3 DEF server
  <2> QED
    BY <2>1, <2>2, <2>4 DEF ReadSoFar, StillThere, PassedRead, Looking, server
<1>2. CASE Ensure
  <2>1. /\ pc = "ensure" /\ pc' = "labels" /\ page' = 1 /\ got' = {}
        /\ UNCHANGED <<server, rows, held, ids, label, left, history, others, faults>>
    BY <1>2 DEF Ensure
  <2>2. TypeOK'
    BY <2>1, SomeIds DEF TypeOK, server, PC, Looking, history
  <2>3. \A x \in labels : PageNo(labels, x) \in Nat \ {0}
    BY OnSomePage, SomeIds DEF TypeOK
  <2>4. \A x \in labels' : ~(PageNo(labels', x) < page')
    BY <2>1, <2>3 DEF server
  <2> QED
    BY <2>1, <2>2, <2>4 DEF ReadSoFar, StillThere, PassedRead, server, history
<1> QED
  BY <1>1, <1>2

\* A request passes one more page, or the last one.
LEMMA ListPaged ==
  ASSUME ListInv, ListInv', PageInv, ListTasks \/ ListMine \/ ListLabels
  PROVE  PageInv'
<1> USE DEF PageInv
<1>1. GivenOut /\ GivenOut' /\ IdsComplete'
  BY DEF ListInv
<1>2. live \subseteq 1 .. MaxTasks /\ labels \subseteq 1 .. MaxLabels
      /\ page \in Nat \ {0} /\ page <= Pages(IF pc = "labels" THEN MaxLabels ELSE MaxTasks)
  <2>1. Pages(MaxLabels) \in Nat /\ Pages(MaxTasks) \in Nat
    BY PagesGrow, SomeIds
  <2> QED
    BY <2>1, SomeIds DEF TypeOK
<1>3. CASE ListTasks
  <2> DEFINE T == rows \cap live
  <2>1. /\ pc = "tasks" /\ ReadPage(live, "prune")
        /\ UNCHANGED <<server, rows, held, ids, label, left, history, others, faults>>
    BY <1>3 DEF ListTasks
  <2>2. /\ page' \in 1 .. Pages(MaxTasks) /\ got' \subseteq got \cup live
        /\ pc' \in {"tasks", "prune"}
    <3>1. PassedRead({}, live)
      BY DEF PassedRead
    <3> QED
      BY <1>2, <2>1, <3>1, PageRead, SomeIds
  <2>3. TypeOK'
    BY <2>1, <2>2 DEF TypeOK, server, history, PC
  <2>4. ~deleted => \/ pc' = "prune" /\ T \subseteq got'
                    \/ pc' = pc /\ \A x \in T : PageNo(live, x) < page' => x \in got'
    <3>1. T \in SUBSET live /\ (~deleted => PassedRead(T, live))
      BY <2>1 DEF ReadSoFar
    <3> QED
      BY <1>2, <2>1, <3>1, PageRead, SomeIds
  <2>5. ReadSoFar'
    BY <2>1, <2>2, <2>4 DEF ReadSoFar, PassedRead, server, history
  <2>6. StillThere'
    BY <2>1, <2>2 DEF StillThere, server, history, Looking
  <2> QED
    BY <2>3, <2>5, <2>6
<1>4. CASE ListMine
  <2>1. /\ pc = "mine" /\ ReadPage(live, "ensure") /\ held' \in {held, on}
        /\ ids' = Kept(held') /\ left' = Wanted
        /\ UNCHANGED <<server, rows, label, history, others, faults>>
    BY <1>4 DEF ListMine
  <2>2. /\ page' \in 1 .. Pages(MaxTasks) /\ got' \subseteq got \cup live
        /\ pc' \in {"mine", "ensure"}
    <3>1. PassedRead({}, live)
      BY DEF PassedRead
    <3> QED
      BY <1>2, <2>1, <3>1, PageRead, SomeIds
  <2>3. held' \subseteq LabelId /\ ids' \subseteq held'
    BY <2>1 DEF TypeOK, Kept
  <2>4. TypeOK'
    BY <2>1, <2>2, <2>3 DEF TypeOK, server, history, PC
  <2>5. ReadSoFar'
    BY <2>1, <2>2 DEF ReadSoFar, server, history
  <2>6. StillThere'
    BY <2>1, <2>2, <2>3 DEF StillThere, TypeOK, server, history, Looking
  <2> QED
    BY <2>4, <2>5, <2>6
<1>5. CASE ListLabels
  <2>1. /\ pc = "labels" /\ ReadPage(labels, "found")
        /\ UNCHANGED <<server, rows, held, ids, label, left, history, others, faults>>
    BY <1>5 DEF ListLabels
  <2>2. /\ page' \in 1 .. Pages(MaxLabels) /\ got' \subseteq got \cup labels
        /\ (pc' = "labels" \/ (pc' = "found" /\ page' = 1))
    <3>1. PassedRead({}, labels)
      BY DEF PassedRead
    <3> QED
      BY <1>2, <2>1, <3>1, PageRead, SomeIds
  <2>3. TypeOK'
    BY <2>1, <2>2, SomeIds DEF TypeOK, server, history, PC, Looking
  <2>4. ~raced => \/ pc' = "found" /\ labels \subseteq got'
                  \/ pc' = pc /\ \A x \in labels : PageNo(labels, x) < page' => x \in got'
    <3>1. ~raced => PassedRead(labels, labels)
      BY <2>1 DEF ReadSoFar
    <3> QED
      BY <1>2, <2>1, <3>1, PageRead, SomeIds
  <2>5. ReadSoFar'
    BY <2>1, <2>2, <2>4 DEF ReadSoFar, PassedRead, server, history
  <2>6. StillThere'
    BY <2>1, <2>2 DEF StillThere, server, history, Looking
  <2> QED
    BY <2>3, <2>5, <2>6
<1> QED
  BY <1>3, <1>4, <1>5

\* A label that was found is one of those that were read; a new one is there at once.
LEMMA LookupPaged ==
  ASSUME ListInv, ListInv', PageInv, UseFound \/ CreateLabel
  PROVE  PageInv'
<1> USE DEF PageInv
<1>1. GivenOut /\ GivenOut' /\ IdsComplete'
  BY DEF ListInv
<1>2. /\ pc = "found" /\ pc' \in {"ensure", "attach"} /\ page \in 1 .. Pages(MaxTasks)
      /\ UNCHANGED <<live, nextTask, on, rows, page, got, held, history, others, faults>>
      /\ labels \subseteq labels'
  BY DEF UseFound, CreateLabel, Ensured, Effect, TypeOK, server
<1>3. PICK l : Ensured(l) /\ ((l \in got /\ UNCHANGED labels) \/ l \in labels')
  BY DEF UseFound, CreateLabel, Effect, Found, server
<1>4. left' = left \ {TitleAtHand} /\ label' = l /\ ids' = ids \cup {l}
  BY <1>3 DEF Ensured
<1>5. ids' \subseteq LabelId /\ labels' \subseteq LabelId /\ on' \subseteq labels'
  <2>1. nextLabel' \in 1 .. MaxLabels + 1 /\ ids' \subseteq 1 .. nextLabel' - 1
        /\ labels' \subseteq 1 .. nextLabel' - 1
    BY <1>1 DEF GivenOut, Known
  <2>2. 1 .. nextLabel' - 1 \subseteq LabelId
    BY <2>1, SomeIds
  <2> QED
    BY <1>2, <2>1, <2>2 DEF TypeOK
<1>6. TypeOK'
  <2>1. label' \in LabelId /\ left' \subseteq Wanted
    BY <1>4, <1>5 DEF TypeOK
  <2>2. page' \in 1 .. Pages(IF pc' = "labels" THEN MaxLabels ELSE MaxTasks)
    BY <1>2
  <2> QED
    BY <1>1, <1>2, <1>5, <2>1, <2>2 DEF TypeOK, GivenOut, history
<1>7. ReadSoFar'
  BY <1>2 DEF ReadSoFar
<1>8. StillThere'
  BY <1>2, <1>3, <1>4 DEF StillThere, history, Looking
<1> QED
  BY <1>6, <1>7, <1>8

\* The labels are set, those only that are there; or the operation is over.
LEMMA OverPaged ==
  ASSUME ListInv, ListInv', PageInv,
         LabelsKnown \/ SetLabels \/ Prune \/ TaskGone \/ Finish \/ CallFails
  PROVE  PageInv'
<1> USE DEF PageInv
<1>1. GivenOut /\ GivenOut'
  BY DEF ListInv
<1>2. labels' \subseteq LabelId
  <2>1. nextLabel' \in 1 .. MaxLabels + 1 /\ labels' \subseteq 1 .. nextLabel' - 1
    BY <1>1 DEF GivenOut, Known
  <2> QED
    BY <2>1, SomeIds
<1>3. on' \subseteq labels' /\ UNCHANGED <<live, nextTask>> /\ rows' \subseteq Mapped
  BY <1>1 DEF LabelsKnown, SetLabels, Prune, TaskGone, Finish, CallFails, Effect, Accepted, TypeOK,
              server, GivenOut
<1>4. faults' \in 0 .. MaxFaults /\ UNCHANGED <<history, others>>
  BY ListingAssumption
  DEF LabelsKnown, SetLabels, Prune, TaskGone, Finish, CallFails, TypeOK
<1>5. CASE LabelsKnown \/ SetLabels
  <2>1. /\ pc \in {"ensure", "attach", "replace"} /\ pc' \in {"replace", "done", "ensure"}
        /\ UNCHANGED <<labels, rows, page, got, held, ids, label, left>>
    BY <1>5 DEF LabelsKnown, SetLabels, Effect, server
  <2>2. TypeOK'
    BY <1>1, <1>2, <1>3, <1>4, <2>1 DEF TypeOK, GivenOut, history
  <2> QED
    BY <1>3, <1>4, <2>1, <2>2 DEF ReadSoFar, StillThere, history, Looking
<1>6. CASE Prune \/ TaskGone \/ Finish \/ CallFails
  <2>1. Forget
    BY <1>6 DEF Prune, TaskGone, Finish, CallFails
  <2>2. TypeOK'
    <3>1. page' \in 1 .. Pages(IF pc' = "labels" THEN MaxLabels ELSE MaxTasks)
      BY <2>1, SomeIds DEF Forget
    <3> QED
      BY <1>1, <1>2, <1>3, <1>4, <2>1, <3>1 DEF TypeOK, GivenOut, history, Forget
  <2> QED
    BY <1>3, <1>4, <2>1, <2>2 DEF ReadSoFar, StillThere, history, Looking, Forget
<1> QED
  BY <1>5, <1>6

LEMMA NextPaged ==
  ASSUME ListInv, PageInv, [Next]_vars
  PROVE  PageInv'
<1>1. ListInv'
  BY NextListing
<1>2. CASE UNCHANGED vars
  <2>1. UNCHANGED <<live, nextTask, labels, title, nextLabel, on, rows, pc, page, got, held,
                    ids, label, left, deleted, raced, meddled, others, faults>>
    BY <1>2 DEF vars, server, memory, history
  <2>2. TypeOK'
    BY <2>1 DEF PageInv, TypeOK
  <2>3. /\ PassedRead(labels, labels)' = PassedRead(labels, labels)
        /\ PassedRead(rows \cap live, live)' = PassedRead(rows \cap live, live)
    BY <2>1 DEF PassedRead, PageNo
  <2> QED
    BY <2>1, <2>2, <2>3 DEF PageInv, ReadSoFar, StillThere
<1> QED
  BY <1>1, <1>2, OthersPaged, BeginPaged, ListPaged, LookupPaged, OverPaged DEF Next

---------------------------------------------------------------------------
(* The theorems.                                                           *)

\* What a patch remembers of its task's labels stays true, whatever other clients create,
\* attach and delete meanwhile.
THEOREM ListInvariant == Spec => []ListInv
<1> QED
  BY InitListing, NextListing, PTL DEF Spec

\* A patch that nobody disturbs leaves every wanted label on the task.
THEOREM LabelsAttached == Spec => []WantedAttached
<1>1. ASSUME ListInv PROVE WantedAttached
  <2> SUFFICES ASSUME pc = "done", ~meddled, NEW w \in Wanted
               PROVE  \E l \in on : title[l] = w
    BY DEF WantedAttached
  <2>1. left = {} /\ \E l \in ids : title[l] = w
    BY <1>1 DEF ListInv, IdsComplete, Later
  <2>2. ids \subseteq on
    BY <1>1 DEF ListInv, OnTask, Later
  <2> QED
    BY <2>1, <2>2
<1> QED
  BY <1>1, ListInvariant, PTL

\* The engine takes no label from a task but a technical one, or one that came after it
\* had listed the task.
THEOREM HumanLabelsStay == Spec => HumanLabelsKept
<1> DEFINE Stay == others' = others =>
                     \A l \in on \ on' : title[l] \in Obsolete \/ l \notin held
<1>1. ASSUME ListInv, [Next]_vars PROVE [Stay]_vars
  <2> SUFFICES ASSUME others' = others, NEW l \in on \ on', l \in held
               PROVE  title[l] \in Obsolete
    OBVIOUS
  <2>1. ~Others
    BY <1>1 DEF Others, ListInv, GivenOut, OtherCreatesTask, OtherDeletesTask, OtherLabels,
                OtherCreatesLabel, OtherDeletesLabel, Other
  <2>2. pc \in {"attach", "replace", "found"} /\ Effect
    BY <1>1, <2>1
    DEF Next, vars, server, StartReconcile, ListTasks, Prune, StartPatch, ListMine, Ensure,
        ListLabels, UseFound, CreateLabel, LabelsKnown, SetLabels, TaskGone, Finish,
        CallFails, Begin
  <2>3. pc = "replace" /\ on' = ids
    BY <2>2 DEF Effect
  <2>4. Kept(held) \subseteq ids
    BY <1>1, <2>3 DEF ListInv, IdsComplete, Later
  <2> QED
    BY <2>3, <2>4 DEF Kept
<1> QED
  BY <1>1, ListInvariant, PTL DEF Spec, HumanLabelsKept

\* What the pages have passed was read, until something is deleted or raced.
THEOREM PagesComplete == Spec => []PageInv
<1>1. Init => ListInv /\ PageInv
  BY InitListing, InitPages
<1>2. (ListInv /\ PageInv) /\ [Next]_vars => (ListInv /\ PageInv)'
  BY NextListing, NextPaged
<1> QED
  BY <1>1, <1>2, PTL DEF Spec

\* The reader's pages are those that the list can have, and each variable has its type.
THEOREM ListingTyped == Spec => []TypeOK
<1>1. PageInv => TypeOK
  BY DEF PageInv
<1> QED
  BY <1>1, PagesComplete, PTL

\* A row lets go of a living task only after a deletion: without one every mapped task is
\* on a page that was read, however many others were created, and no request of a patch
\* finds a label missing.
THEOREM LetsGo == Spec => LetsGoAfterDeletion
<1> DEFINE Deleted == \A t \in rows \ rows' : t \in live => deleted
<1>1. ASSUME ListInv, PageInv, [Next]_vars PROVE [Deleted]_vars
  <2> SUFFICES ASSUME NEW t \in rows \ rows', t \in live, ~deleted
               PROVE  FALSE
    BY DEF TypeOK
  <2>1. Prune \/ TaskGone
    BY <1>1
    DEF Next, vars, Others, OtherCreatesTask, OtherDeletesTask, OtherLabels,
        OtherCreatesLabel, OtherDeletesLabel, StartReconcile, ListTasks, StartPatch,
        ListMine, Ensure, ListLabels, UseFound, CreateLabel, LabelsKnown, SetLabels,
        Finish, CallFails, Begin
  <2>2. CASE Prune
    BY <1>1, <2>2 DEF Prune, PageInv, ReadSoFar
  <2>3. CASE TaskGone
    <3>1. t = Mine /\ Mine \in live /\ pc \in {"attach", "replace"} /\ ~Accepted
      BY <2>3 DEF TaskGone
    <3>2. ids \subseteq labels /\ (pc = "attach" => label \in ids)
      BY <1>1 DEF PageInv, StillThere, ListInv, GivenOut
    <3> QED
      BY <3>1, <3>2 DEF Accepted
  <2> QED
    BY <2>1, <2>2, <2>3
<1> QED
  BY <1>1, ListInvariant, PagesComplete, PTL DEF Spec, LetsGoAfterDeletion

\* The engine alone creates no label twice: where each wanted title had one label at most,
\* it stays so until another client's label comes or goes during a lookup.
THEOREM NoLabelTwice ==
  ASSUME \A l, m \in LabelId : InitTitle[l] = InitTitle[m] /\ InitTitle[l] \in Wanted => l = m
  PROVE  Spec => []OneLabelPerTitle
<1>1. Init => OneLabelPerTitle
  BY DEF Init, OneLabelPerTitle
<1>2. ASSUME ListInv, PageInv, OneLabelPerTitle, [Next]_vars
      PROVE  OneLabelPerTitle'
  <2> SUFFICES ASSUME ~raced',
                      NEW l \in labels', NEW m \in labels', title'[l] = title'[m],
                      title'[l] \in Wanted
               PROVE  l = m
    BY DEF OneLabelPerTitle
  <2>1. ~raced
    BY <1>2
    DEF Next, vars, history, Others, OtherCreatesTask, OtherDeletesTask, OtherLabels,
        OtherCreatesLabel, OtherDeletesLabel, StartReconcile, ListTasks, Prune, StartPatch,
        ListMine, Ensure, ListLabels, UseFound, CreateLabel, LabelsKnown, SetLabels,
        TaskGone, Finish, CallFails, Begin
  <2>2. \/ labels' \subseteq labels /\ title' = title
        \/ \E w \in Wanted : /\ nextLabel <= MaxLabels /\ \A n \in labels : title[n] # w
                             /\ labels' = labels \cup {nextLabel}
                             /\ nextLabel' = nextLabel + 1
                             /\ title' = [title EXCEPT ![nextLabel] = w]
    <3>1. CASE Others
      BY <3>1
      DEF Others, OtherCreatesTask, OtherDeletesTask, OtherLabels, OtherCreatesLabel,
          OtherDeletesLabel
    <3>2. CASE pc = "found" /\ Effect
      <4>1. TitleAtHand \in Wanted
        BY <1>2, <3>2 DEF ListInv, IdsComplete, Looking, TitleAtHand
      <4>2. \A n \in labels : title[n] # TitleAtHand
        BY <1>2, <2>1, <3>2 DEF Effect, Found, PageInv, ReadSoFar
      <4> QED
        BY <3>2, <4>1, <4>2 DEF Effect
    <3>3. CASE UNCHANGED <<labels, title>>
      BY <3>3
    <3> QED
      BY <1>2, <3>1, <3>2, <3>3
      DEF Next, vars, server, StartReconcile, ListTasks, Prune, StartPatch, ListMine, Ensure,
          ListLabels, UseFound, CreateLabel, LabelsKnown, SetLabels, TaskGone, Finish,
          CallFails, Begin, Effect
  <2>3. CASE labels' \subseteq labels /\ title' = title
    BY <1>2, <2>1, <2>3 DEF OneLabelPerTitle
  <2>4. ASSUME NEW w \in Wanted, nextLabel <= MaxLabels, \A n \in labels : title[n] # w,
               labels' = labels \cup {nextLabel}, nextLabel' = nextLabel + 1,
               title' = [title EXCEPT ![nextLabel] = w]
        PROVE  l = m
    <3>1. /\ title'[nextLabel] = w /\ \A n \in labels : title'[n] = title[n]
      <4>1. GivenOut /\ w \in Title
        BY <1>2 DEF ListInv, Title
      <4> QED
        BY <2>4, <4>1, NewTitle DEF GivenOut
    <3> QED
      BY <1>2, <2>1, <2>4, <3>1 DEF OneLabelPerTitle
  <2> QED
    BY <2>2, <2>3, <2>4
<1> QED
  BY <1>1, <1>2, ListInvariant, PagesComplete, PTL DEF Spec
===============================================================================
