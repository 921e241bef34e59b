-------------------------------- MODULE Fetch --------------------------------
(***************************************************************************)
(* What a pass knows of the source, and what it closes on the strength of  *)
(* it.  A pass connects (module Login) and keeps the login payload; later  *)
(* it asks for the history, merges the two answers, resolves links, and    *)
(* refreshes or closes the rows.  The source changes in between, an item   *)
(* may be malformed, and either answer may be lost.                        *)
(*                                                                         *)
(* How a step is applied to Vikunja is the matter of SyncEngine; here a    *)
(* row is what the close policy reads of it.                               *)
(***************************************************************************)
EXTENDS Login, ClosePolicy

CONSTANTS
  Homework,     \* timelineids of the wanted student
  Configured,   \* homework of a type in edupage.include_types
  Default,      \* homework of a type in DEFAULT_INCLUDE_TYPES
  Assigned,     \* the day each homework was assigned
  FirstDue,     \* the due date it was assigned with
  MaxDay,       \* bound: days
  MaxEdits      \* bound: changes at the source

ASSUME FetchAssumption ==
  /\ Configured \subseteq Homework /\ Default \subseteq Homework
  /\ MaxDay \in Nat /\ MaxEdits \in Nat
  /\ Assigned \in [Homework -> 0 .. MaxDay]
  /\ FirstDue \in [Homework -> {NoDue} \cup 0 .. MaxDay]

VARIABLES
  day, edits,
  src,       \* the homework at the source
  pc,
  snap,      \* the login payload: items with their userProps
  items,     \* the fetched homework
  props,     \* the history has brought done marks
  covered,   \* covered_ok
  answered, brought,   \* history only: was the history answered, and with which homework
  rows,      \* homework_map
  shown      \* history only: what the source showed of each homework, and when, in the
             \* last pass that was through

fetched == <<snap, items, props, covered, answered, brought>>
vars == <<login, day, edits, src, pc, fetched, rows, shown>>

Day == 0 .. MaxDay
Item == [at: {"absent", "listed", "removed"}, due: Day \cup {NoDue}, done: BOOLEAN,
         wellFormed: BOOLEAN]
NoItem == [at |-> "absent", due |-> NoDue, done |-> FALSE, wellFormed |-> TRUE]
Nothing == [h \in Homework |-> NoItem]

Row == [state: {"none", "open", "closed"}, due: Day \cup {NoDue}, seen: Day]

Init ==
  /\ LoginInit
  /\ day = 0 /\ edits = 0
  /\ src = [h \in Homework |-> [NoItem EXCEPT !.at = "listed", !.due = FirstDue[h]]]
  /\ pc = "idle" /\ snap = Nothing /\ items = Nothing
  /\ props = FALSE /\ covered = FALSE /\ answered = FALSE /\ brought = {}
  /\ rows = [h \in Homework |-> [state |-> "none", due |-> NoDue, seen |-> 0]]
  /\ shown = [h \in Homework |-> [due |-> NoDue, seen |-> 0]]

---------------------------------------------------------------------------
(* The environment.                                                        *)

\* The engine reads the clock once, when the login is through: midnight during a login
\* is midnight before it.
Tomorrow ==
  /\ pc = "idle" /\ day < MaxDay /\ day' = day + 1
  /\ UNCHANGED <<login, edits, src, pc, fetched, rows, shown>>

\* A teacher assigns, removes, restores or re-dates a homework, or EduPage garbles it;
\* the pupil marks it done, or no longer.  Nothing before the payload reads the source,
\* and nothing after the history, so a change there is one before or after the pass.
Change(h) ==
  /\ pc \in {"idle", "history"} /\ edits < MaxEdits /\ edits' = edits + 1
  /\ src' \in {[src EXCEPT ![h].at = a] : a \in {"absent", "listed", "removed"}}
              \cup {[src EXCEPT ![h].due = d] : d \in {NoDue, day + 1} \cap (Day \cup {NoDue})}
              \cup {[src EXCEPT ![h].done = ~@], [src EXCEPT ![h].wellFormed = ~@]}
  /\ src' # src
  /\ UNCHANGED <<login, day, pc, fetched, rows, shown>>

Elsewhere ==
  /\ pc # "links" /\ SessionStep
  /\ UNCHANGED <<day, edits, src, pc, fetched, rows, shown>>

---------------------------------------------------------------------------
(* The fetch.                                                              *)

\* homework_items: the items of the given types; it raises when one of them is malformed.
Extracted(payload, types) ==
  [h \in Homework |-> IF h \in types THEN payload[h] ELSE NoItem]
Malformed(payload, types) ==
  \E h \in types : payload[h].at # "absent" /\ ~payload[h].wellFormed
InWindow(h) == Assigned[h] >= day - WindowDays
Windowed(payload) == [h \in Homework |-> IF InWindow(h) THEN payload[h] ELSE NoItem]

\* Mutated form: the login payload wins.
MergedItemsLoginWins(history) ==
  [h \in Homework |-> IF snap[h].at = "absent" THEN history[h] ELSE snap[h]]

\* merge_history's raw items: the history wins.
MergedItems(history) ==
  [h \in Homework |-> IF history[h].at = "absent" THEN snap[h] ELSE history[h]]

\* Mutated form: the login payload's mark wins.
MergedDoneLoginWins(h, history, marked) ==
  IF snap[h].at # "absent" THEN snap[h].done ELSE marked /\ history[h].done

\* ... and their done marks: those of the history, or if it has none at all the login's.
MergedDone(h, history, marked) == IF marked THEN history[h].done ELSE snap[h].done

Merged(history, marked) ==
  [h \in Homework |-> [MergedItems(history)[h] EXCEPT !.done = MergedDone(h, history, marked)]]

\* An answer of EduPage is about the student whom the session shows.
Answer ==
  [h \in Homework |-> IF session = Wanted /\ src[h].at # "absent" THEN src[h] ELSE NoItem]

\* An answer need not hold everything: the payload of the userhome page holds what is
\* recent, and a history may be cut short.
Held(got) == [h \in Homework |-> IF h \in got THEN Answer[h] ELSE NoItem]
Answerable == {h \in Homework : Answer[h].at # "absent"}

EndPass ==
  /\ pc' = "idle" /\ Leave("out", FALSE)
  /\ snap' = Nothing /\ items' = Nothing /\ props' = FALSE
  /\ covered' = FALSE /\ answered' = FALSE /\ brought' = {}

StartPass ==
  /\ pc = "idle" /\ pc' = "connect" /\ Connect
  /\ UNCHANGED <<day, edits, src, fetched, rows, shown>>

TakePayload ==
  \E got \in SUBSET Answerable : snap' = Held(got) /\ pc' = "history"

LoginGoesOn ==
  /\ pc = "connect" /\ LoginStep
  /\ \/ call' = "in" /\ TakePayload
     \/ call' = "out" /\ pc' = "idle" /\ UNCHANGED snap
     \/ call' \notin {"in", "out"} /\ UNCHANGED <<pc, snap>>
  /\ UNCHANGED <<items, props, covered, answered, brought, day, edits, src, rows, shown>>

\* _fetch with an answer to fetch_history.  An answer that is empty, or a window that
\* is too long, does not count as covering it; one that is cut short does.  `some` is an
\* answer without homework that has items of other types.
MergeHistory ==
  /\ pc = "history" /\ session # NoOne
  /\ \E got \in SUBSET Answerable, marked \in BOOLEAN, some \in BOOLEAN :
       /\ ~Malformed(snap, Configured) /\ ~Malformed(MergedItems(Held(got)), Default)
       /\ items' = Windowed(Extracted(Merged(Held(got), marked), Default))
       /\ covered' = (WindowDays <= 30 /\ (got # {} \/ some))
       /\ props' = marked /\ brought' = got
  /\ answered' = TRUE
  /\ pc' = "links"
  /\ UNCHANGED <<login, snap, day, edits, src, rows, shown>>

\* Mutated form: the time-out of the history leaves the coverage alone.
LoginOnlyCovered ==
  /\ pc = "history" /\ ~Malformed(snap, Configured)
  /\ items' = Windowed(Extracted(snap, Configured)) /\ covered' = TRUE
  /\ pc' = "links"
  /\ UNCHANGED <<login, snap, props, answered, brought, day, edits, src, rows, shown>>

\* The history fails transiently, or an item of it is malformed: the login payload alone.
LoginOnly ==
  /\ pc = "history" /\ ~Malformed(snap, Configured)
  /\ items' = Windowed(Extracted(snap, Configured)) /\ covered' = FALSE
  /\ pc' = "links"
  /\ UNCHANGED <<login, snap, props, answered, brought, day, edits, src, rows, shown>>

\* A malformed item of the login payload is met again in the except branch.
AbortMalformed ==
  /\ pc = "history" /\ Malformed(snap, Configured) /\ EndPass
  /\ UNCHANGED <<day, edits, src, rows, shown>>

\* Any other error of the history, a link that cannot be resolved, or a kill.
PassDies ==
  /\ pc \in {"history", "links"} /\ EndPass
  /\ UNCHANGED <<day, edits, src, rows, shown>>

---------------------------------------------------------------------------
(* The rows.                                                               *)

Closes(h) ==
  /\ items[h].at # "listed" /\ rows[h].state = "open"
  /\ covered /\ CloseEligible(rows[h], day)

\* Mutated form: a homework that needs no patch keeps its old dates.
RefreshedStale(h) ==
  IF rows[h].state = "open" THEN rows[h]
  ELSE [state |-> "open", due |-> items[h].due, seen |-> day]

\* Every step about a listed homework leaves its due date and the day in the row; a
\* closed one is reopened unless it is done.
Refreshed(h) ==
  [state |-> IF rows[h].state = "closed" /\ items[h].done THEN "closed" ELSE "open",
   due |-> items[h].due, seen |-> day]

\* What the pass at hand was last told of a homework: by the history (the source has not
\* changed since, see Change) or, if that does not hold it, by the login payload.
Told(h) == IF h \in brought THEN src[h] ELSE snap[h]

\* The links are resolved and the steps applied.
Apply ==
  /\ pc = "links"
  /\ rows' = [h \in Homework |->
                IF items[h].at = "listed" THEN Refreshed(h)
                ELSE IF Closes(h) THEN [rows[h] EXCEPT !.state = "closed"] ELSE rows[h]]
  /\ shown' = [h \in Homework |->
                 IF items[h].at # "listed" THEN shown[h]
                 ELSE [due |-> Told(h).due, seen |-> day]]
  /\ EndPass
  /\ UNCHANGED <<day, edits, src>>

---------------------------------------------------------------------------
(* The specification.                                                      *)

Client ==
  \/ StartPass \/ LoginGoesOn \/ MergeHistory \/ LoginOnly \/ AbortMalformed \/ Apply

Next ==
  \/ Client \/ PassDies
  \/ Tomorrow \/ Elsewhere \/ \E h \in Homework : Change(h)

Spec == Init /\ [][Next]_vars

\* Every request has a time-out, and the daemon connects again and again.
FairSpec == Spec /\ WF_vars(Client)

---------------------------------------------------------------------------
(* Properties.                                                             *)

\* Every variable has its type.
FetchTypeOK ==
  /\ LoginTypeOK
  /\ day \in Day /\ edits \in 0 .. MaxEdits /\ src \in [Homework -> Item]
  /\ pc \in {"idle", "connect", "history", "links"}
  /\ snap \in [Homework -> Item]
  /\ items \in [Homework -> Item] /\ props \in BOOLEAN /\ covered \in BOOLEAN
  /\ answered \in BOOLEAN /\ brought \subseteq Homework
  /\ rows \in [Homework -> Row]
  /\ shown \in [Homework -> [due: Day \cup {NoDue}, seen: Day]]

\* Once EduPage has shown a captcha or refused the credentials, a run does not send
\* them again, in no other form either.
RefusalStands ==
  [][refused => sent' <= sent]_vars

\* The payload that a pass goes on with is that of the configured student, read in a
\* session that was logged in, in whatever way the login was answered.
OneChild == [][call' = "in" /\ call # "in" /\ mode = "password" => session = Wanted]_vars

\* Nothing is closed without an answer to the history, and nothing that either answer
\* listed in the window, whatever of them was cut short, malformed, contradictory or out of
\* date: the history replaces what the login payload says, and leaves the rest of it.
CloseMeansUnseen ==
  [][\A h \in Homework :
       rows[h].state = "open" /\ rows'[h].state = "closed" =>
         answered /\ (Told(h).at # "listed" \/ ~InWindow(h))]_vars

\* "A partial or empty fetch never closes anything": what is closed is not listed at the
\* source, or has left the window.
CloseMeansGone ==
  [][\A h \in Homework :
       /\ rows[h].state = "open" /\ rows'[h].state = "closed" /\ mode = "password"
       => src[h].at # "listed" \/ ~InWindow(h)]_vars

\* What is closed is closed after the due date that a pass was last shown, by more than the
\* grace, or, without a due date, after it has been out of sight for window and grace.
CloseIsDue ==
  [][\A h \in Homework :
       rows[h].state = "open" /\ rows'[h].state = "closed" =>
         IF shown[h].due # NoDue THEN day > shown[h].due + GraceDays
                                 ELSE day > shown[h].seen + WindowDays + GraceDays]_vars

\* A history that brings done marks decides about the homework that it holds: no mark of
\* the older login payload outlives it.
DoneFresh ==
  pc = "links" /\ props =>
    \A h \in brought : items[h].at # "absent" => items[h].done = src[h].done

\* A pass ends, whatever the servers answer: token rounds, polls and requests are limited.
PassEnds == []<>(pc = "idle")
===============================================================================
