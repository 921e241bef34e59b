----------------------------- MODULE Fetch_proofs -----------------------------
(***************************************************************************)
(* For any homework, window, grace, deadline and number of changes: which  *)
(* child a pass reads, what it may close, and which credentials it sends.  *)
(***************************************************************************)
EXTENDS Fetch, TLAPS

\* The login's part of the inductive invariant: a refusal ends the connect, credentials
\* go out once a round and once with the form, and a password session is the wanted
\* child's from the switch on.
LoginOK ==
  /\ LoginTypeOK
  /\ refused => call = "out"
  /\ mode = "password" /\ call \in {"userhome", "in"} => session \in {Wanted, NoOne}
  /\ call \in {"out", "in"} => rounds = 0 /\ sent = 0
  /\ call \in {"page", "token", "login", "probe"} => rounds < 2 /\ sent = rounds
  /\ call \in {"formpage", "form"} => sent <= 2

\* A connect is under way exactly while a pass is at "connect".
InTime ==
  /\ pc = "idle" => call = "out"
  /\ pc = "connect" => call \in Calls
  /\ pc \in {"history", "links"} => call = "in"

\* What a pass holds of each homework is what it was last told; a history that was answered
\* leaves out nothing of the default types that either answer lists in the window.
KnowsSource ==
  /\ pc # "links" => ~covered /\ ~answered /\ brought = {} /\ ~props /\ items = Nothing
  /\ pc = "links" =>
       /\ covered => answered
       /\ \A h \in Homework :
            /\ items[h].at # "absent" => /\ h \in Configured \cup Default
                                         /\ items[h].at = Told(h).at /\ items[h].due = Told(h).due
            /\ answered /\ h \in Default /\ InWindow(h)
                 => (Told(h).at = "listed" => items[h].at = "listed")

\* A row keeps the dates that were shown last, and is about an included type.
RowsAsShown ==
  \A h \in Homework :
    rows[h].state # "none" => /\ rows[h].due = shown[h].due /\ rows[h].seen = shown[h].seen
                              /\ h \in Configured \cup Default

FetchInv == FetchTypeOK /\ LoginOK /\ InTime /\ KnowsSource /\ RowsAsShown /\ DoneFresh

---------------------------------------------------------------------------
(* The login.                                                              *)

LEMMA InitLogin ==
  ASSUME LoginInit
  PROVE  LoginOK
<1>1. refused \in BOOLEAN /\ ~refused
  BY DEF LoginInit
<1> QED
  BY <1>1, LoginAssumption DEF LoginInit, LoginOK, LoginTypeOK, Session, Calls

\* Whoever changes the session does not make a password session another child's.
LEMMA SessionLogin ==
  ASSUME LoginOK, SessionStep
  PROVE  LoginOK'
  BY LoginAssumption
  DEF LoginOK, LoginTypeOK, SessionStep, SessionEnds, BrowserSwitches, Reseed, SessionChanges,
      Session

LEMMA LeaveLogin ==
  ASSUME LoginOK, NEW no \in BOOLEAN,
         Leave("out", no) \/ (call = "userhome" /\ ~no /\ Leave("in", no))
  PROVE  LoginOK'
<1>1. refused' = no /\ rounds' = 0 /\ sent' = 0 /\ left' = 0 /\ mode' = mode
      /\ (call' = "out" \/ (call = "userhome" /\ ~no /\ call' = "in"))
      /\ session' \in {session, NoOne}
  BY DEF Leave
<1> QED
  BY <1>1, LoginAssumption DEF LoginOK, LoginTypeOK, Session, Calls

\* A run begins with nothing sent.
LEMMA ConnectLogin ==
  ASSUME LoginOK, Connect
  PROVE  LoginOK' /\ call' \in Calls
<1>1. refused' \in BOOLEAN /\ ~refused'
  BY DEF Connect
<1> QED
  BY <1>1 DEF LoginOK, LoginTypeOK, Connect, Calls

\* Each request keeps the invariant, whatever its answer.
LEMMA StepLogin ==
  ASSUME LoginOK, LoginStep
  PROVE  LoginOK'
<1> USE DEF LoginOK
<1>1. CASE RequestFails \/ NotConfirmed \/ LoadUser
  BY <1>1, LeaveLogin DEF RequestFails, NotConfirmed, LoadUser, Fails
<1>2. CASE (SubmitLogin \/ FollowRedirect \/ SubmitForm) /\ Refuses
  BY <1>2, LeaveLogin DEF Refuses
<1>3. CASE LoginPage \/ GetToken \/ FormPage \/ Probe
  BY <1>3 DEF LoginPage, GetToken, FormPage, Probe, Goto, LoginTypeOK, Calls
<1>4. CASE SubmitLogin /\ ~Refuses
  <2>1. call = "login" /\ rounds \in {0, 1} /\ sent = rounds /\ ~refused /\ mode' = mode
        /\ refused' = refused /\ left' = left /\ sent' = sent + 1
    BY <1>4 DEF SubmitLogin, Sends, LoginTypeOK
  <2>2. CASE rounds' = rounds + 1
    BY <1>4, <2>1, <2>2 DEF SubmitLogin, Sends, LoginTypeOK, Calls
  <2>3. CASE rounds' = rounds
    BY <1>4, <2>1, <2>3 DEF SubmitLogin, Sends, LoginTypeOK, Calls, Session
  <2> QED
    BY <1>4, <2>2, <2>3 DEF SubmitLogin, Sends
<1>5. CASE FollowRedirect /\ ~Refuses
  BY <1>5 DEF FollowRedirect, Goto, Enter, LoginTypeOK, Calls
<1>6. CASE TwoFactorPage \/ Poll
  BY <1>6, LoginAssumption DEF TwoFactorPage, Poll, Goto, LoginTypeOK, Calls
<1>7. CASE Complete \/ SwitchChild
  BY <1>7, LoginAssumption DEF Complete, SwitchChild, Enter, LoginTypeOK, Calls, Session
<1>8. CASE SubmitForm /\ ~Refuses
  BY <1>8 DEF SubmitForm, Sends, LoginTypeOK, Calls
<1> QED
  BY <1>1, <1>2, <1>3, <1>4, <1>5, <1>6, <1>7, <1>8 DEF LoginStep

---------------------------------------------------------------------------
(* The pass.                                                               *)

LEMMA Absent ==
  NoItem \in Item /\ Nothing \in [Homework -> Item] /\ NoItem.at = "absent" /\ ~NoItem.done
  BY DEF NoItem, Item, Nothing

\* A changed item is one still; a mark changes nothing else of it.
LEMMA ChangedItem ==
  ASSUME NEW i \in Item
  PROVE  /\ \A a \in {"absent", "listed", "removed"} : [i EXCEPT !.at = a] \in Item
         /\ \A d \in Day \cup {NoDue} : [i EXCEPT !.due = d] \in Item
  BY DEF Item

LEMMA MarkedItem ==
  ASSUME NEW i \in Item, NEW b \in BOOLEAN
  PROVE  /\ [i EXCEPT !.done = b] \in Item /\ [i EXCEPT !.wellFormed = b] \in Item
         /\ [i EXCEPT !.done = b].at = i.at /\ [i EXCEPT !.done = b].due = i.due
         /\ [i EXCEPT !.done = b].done = b
  BY DEF Item

LEMMA AnswerTyped ==
  ASSUME FetchTypeOK
  PROVE  Answer \in [Homework -> Item]
  BY Absent DEF Answer, FetchTypeOK

\* The pass is over, and has forgotten what it fetched.
LEMMA EndKeeps ==
  ASSUME FetchInv, EndPass, UNCHANGED <<day, edits, src>>,
         rows' \in [Homework -> Row], shown' \in [Homework -> [due: Day \cup {NoDue}, seen: Day]],
         RowsAsShown'
  PROVE  FetchInv'
<1>1. LoginOK'
  BY LeaveLogin DEF FetchInv, EndPass
<1>2. FetchTypeOK'
  BY <1>1, Absent DEF FetchInv, EndPass, FetchTypeOK, LoginOK
<1>3. InTime'
  BY DEF EndPass, Leave, InTime
<1>4. KnowsSource' /\ DoneFresh'
  BY DEF EndPass, KnowsSource, DoneFresh
<1> QED
  BY <1>1, <1>2, <1>3, <1>4 DEF FetchInv

\* A day, and a change at the source or of the session, between the steps of a pass.
LEMMA WorldKeeps ==
  ASSUME FetchInv, Tomorrow \/ Elsewhere \/ \E h \in Homework : Change(h)
  PROVE  FetchInv'
<1> USE DEF FetchInv
<1>1. CASE Tomorrow
  <2>1. FetchTypeOK' /\ LoginOK'
    BY <1>1, FetchAssumption DEF Tomorrow, FetchTypeOK, LoginOK, LoginTypeOK, login, fetched, Day
  <2> QED
    BY <1>1, <2>1
    DEF Tomorrow, InTime, KnowsSource, RowsAsShown, DoneFresh, login, fetched
<1>2. CASE Elsewhere
  <2>1. /\ LoginOK' /\ pc # "links" /\ call' = call /\ mode' = mode
        /\ UNCHANGED <<day, edits, src, pc, fetched, rows, shown>>
    BY <1>2, SessionLogin
    DEF Elsewhere, SessionStep, SessionEnds, BrowserSwitches, Reseed, SessionChanges
  <2> QED
    BY <2>1 DEF FetchTypeOK, InTime, KnowsSource, RowsAsShown, DoneFresh, fetched, LoginOK
<1>3. ASSUME NEW h \in Homework, Change(h)
      PROVE  FetchInv'
  <2>1. src' \in [Homework -> Item] /\ edits' \in 0 .. MaxEdits
    <3>1. src \in [Homework -> Item] /\ src[h] \in Item /\ edits' \in 0 .. MaxEdits
      BY <1>3, FetchAssumption DEF Change, FetchTypeOK
    <3>2. \/ \E a \in {"absent", "listed", "removed"} : src' = [src EXCEPT ![h].at = a]
          \/ \E d \in Day \cup {NoDue} : src' = [src EXCEPT ![h].due = d]
          \/ src' = [src EXCEPT ![h].done = ~@]
          \/ src' = [src EXCEPT ![h].wellFormed = ~@]
      BY <1>3 DEF Change
    <3>3. CASE \E a \in {"absent", "listed", "removed"} : src' = [src EXCEPT ![h].at = a]
      <4>1. PICK a \in {"absent", "listed", "removed"} : src' = [src EXCEPT ![h].at = a]
        BY <3>3
      <4>2. src' = [src EXCEPT ![h] = [src[h] EXCEPT !.at = a]]
        BY <4>1
      <4>3. [src[h] EXCEPT !.at = a] \in Item
        BY <3>1, ChangedItem
      <4> QED
        BY <3>1, <4>2, <4>3
    <3>4. CASE \E d \in Day \cup {NoDue} : src' = [src EXCEPT ![h].due = d]
      <4>1. PICK d \in Day \cup {NoDue} : src' = [src EXCEPT ![h].due = d]
        BY <3>4
      <4>2. src' = [src EXCEPT ![h] = [src[h] EXCEPT !.due = d]]
        BY <4>1
      <4>3. [src[h] EXCEPT !.due = d] \in Item
        BY <3>1, ChangedItem
      <4> QED
        BY <3>1, <4>2, <4>3
    <3>5. CASE src' = [src EXCEPT ![h].done = ~@]
      <4>1. src' = [src EXCEPT ![h] = [src[h] EXCEPT !.done = ~src[h].done]]
        BY <3>5
      <4>2. (~src[h].done) \in BOOLEAN
        OBVIOUS
      <4> QED
        BY <3>1, <4>1, <4>2, MarkedItem
    <3>6. CASE src' = [src EXCEPT ![h].wellFormed = ~@]
      <4>1. src' = [src EXCEPT ![h] = [src[h] EXCEPT !.wellFormed = ~src[h].wellFormed]]
        BY <3>6
      <4>2. (~src[h].wellFormed) \in BOOLEAN
        OBVIOUS
      <4> QED
        BY <3>1, <4>1, <4>2, MarkedItem
    <3> QED
      BY <3>2, <3>3, <3>4, <3>5, <3>6
  <2>2. pc # "links" /\ UNCHANGED <<login, day, pc, fetched, rows, shown>>
    BY <1>3 DEF Change
  <2>3. FetchTypeOK' /\ LoginOK'
    BY <2>1, <2>2 DEF FetchTypeOK, LoginOK, LoginTypeOK, login, fetched
  <2> QED
    BY <2>2, <2>3 DEF InTime, KnowsSource, RowsAsShown, DoneFresh, login, fetched
<1> QED
  BY <1>1, <1>2, <1>3

\* A pass begins, and goes through the login to the payload of the source's homework.
LEMMA LoginKeeps ==
  ASSUME FetchInv, StartPass \/ LoginGoesOn
  PROVE  FetchInv'
<1> USE DEF FetchInv
<1>1. LoginOK' /\ pc # "links" /\ pc' \in {"idle", "connect", "history"}
      /\ UNCHANGED <<items, props, covered, answered, brought, day, edits, src, rows, shown>>
  BY ConnectLogin, StepLogin DEF StartPass, LoginGoesOn, TakePayload, fetched
<1>2. InTime'
  <2>1. CASE StartPass
    BY <2>1, ConnectLogin DEF StartPass, InTime
  <2>2. CASE LoginGoesOn
    <3>1. call' \in Calls \cup {"out", "in"}
      BY <1>1 DEF LoginOK, LoginTypeOK
    <3> QED
      BY <2>2, <3>1 DEF LoginGoesOn, TakePayload, InTime
  <2> QED
    BY <2>1, <2>2
<1>3. snap' \in [Homework -> Item]
  <2>1. CASE UNCHANGED snap
    BY <2>1 DEF FetchTypeOK
  <2>2. CASE TakePayload
    BY <2>2, AnswerTyped, Absent DEF TakePayload, Held
  <2> QED
    BY <2>1, <2>2 DEF StartPass, LoginGoesOn, fetched
<1>4. FetchTypeOK'
  BY <1>1, <1>3 DEF FetchTypeOK, LoginOK
<1>5. KnowsSource' /\ RowsAsShown' /\ DoneFresh'
  BY <1>1, <1>3 DEF KnowsSource, RowsAsShown, DoneFresh
<1> QED
  BY <1>1, <1>2, <1>4, <1>5

\* The login payload alone covers nothing, and is all that the pass was told.
LEMMA AloneKeeps ==
  ASSUME FetchInv, LoginOnly
  PROVE  FetchInv'
<1> USE DEF FetchInv
<1>1. /\ pc = "history" /\ pc' = "links" /\ ~covered' /\ covered' \in BOOLEAN
      /\ items' = Windowed(Extracted(snap, Configured))
      /\ ~props /\ ~answered /\ brought = {}
      /\ UNCHANGED <<login, snap, props, answered, brought, day, edits, src, rows, shown>>
  BY DEF LoginOnly, KnowsSource
<1>2. ASSUME NEW h \in Homework
      PROVE  items'[h] = IF InWindow(h) /\ h \in Configured THEN snap[h] ELSE NoItem
  BY <1>1 DEF Windowed, Extracted
<1>3. items' \in [Homework -> Item]
  <2>1. items' = [h \in Homework |-> items'[h]]
    BY <1>1 DEF Windowed
  <2> QED
    BY <1>2, <2>1, Absent DEF FetchTypeOK
<1>4. ASSUME NEW h \in Homework, items'[h].at # "absent"
      PROVE  h \in Configured /\ items'[h] = Told(h)'
  BY <1>1, <1>2, <1>4, Absent DEF Told
<1>5. LoginOK' /\ FetchTypeOK'
  BY <1>1, <1>3 DEF FetchTypeOK, LoginOK, LoginTypeOK, login
<1>6. InTime' /\ RowsAsShown' /\ DoneFresh'
  BY <1>1 DEF InTime, RowsAsShown, DoneFresh, login
<1>7. KnowsSource'
  BY <1>1, <1>4 DEF KnowsSource
<1> QED
  BY <1>5, <1>6, <1>7

\* The merged answers hold what the pass was told last, and all that it was told of the
\* default types.
LEMMA MergeKeeps ==
  ASSUME FetchInv, MergeHistory
  PROVE  FetchInv'
<1> USE DEF FetchInv
<1>1. PICK got \in SUBSET Answerable, marked \in BOOLEAN :
        /\ items' = Windowed(Extracted(Merged(Held(got), marked), Default))
        /\ covered' \in BOOLEAN /\ props' = marked /\ brought' = got
  BY DEF MergeHistory
<1>2. /\ pc = "history" /\ pc' = "links" /\ call = "in" /\ answered'
      /\ UNCHANGED <<login, snap, day, edits, src, rows, shown>>
  BY DEF MergeHistory, InTime
<1> DEFINE H == Held(got)
           M(h) == MergedItems(H)[h]
<1>3. ASSUME NEW h \in Homework
      PROVE  /\ H[h] = IF h \in got THEN src[h] ELSE NoItem
             /\ h \in got => src[h].at # "absent"
             /\ src[h] \in Item /\ H[h] \in Item /\ snap[h] \in Item
  BY <1>1, Absent DEF Held, Answerable, Answer, FetchTypeOK
<1>4. ASSUME NEW h \in Homework
      PROVE  /\ M(h) \in Item /\ MergedDone(h, H, marked) \in BOOLEAN
             /\ M(h) = IF h \in got THEN src[h] ELSE snap[h]
  <2>1. M(h) = IF H[h].at = "absent" THEN snap[h] ELSE H[h]
    BY DEF MergedItems
  <2>2. H[h].at = "absent" <=> h \notin got
    BY <1>3, Absent
  <2>3. MergedDone(h, H, marked) \in BOOLEAN
    BY <1>3 DEF MergedDone, Item
  <2> QED
    BY <1>3, <2>1, <2>2, <2>3
<1>5. ASSUME NEW h \in Homework
      PROVE  items'[h] = IF InWindow(h) /\ h \in Default
                         THEN [M(h) EXCEPT !.done = MergedDone(h, H, marked)] ELSE NoItem
  BY <1>1 DEF Windowed, Extracted, Merged
<1>6. ASSUME NEW h \in Homework
      PROVE  /\ items'[h] \in Item
             /\ items'[h].at # "absent" => h \in Default
             /\ items'[h].at # "absent" \/ (InWindow(h) /\ h \in Default) =>
                  /\ items'[h].at = M(h).at /\ items'[h].due = M(h).due
                  /\ items'[h].done = MergedDone(h, H, marked)
  <2>1. CASE InWindow(h) /\ h \in Default
    <3>1. PICK i \in Item, b \in BOOLEAN : i = M(h) /\ b = MergedDone(h, H, marked)
      BY <1>4
    <3>2. items'[h] = [i EXCEPT !.done = b]
      BY <1>5, <2>1, <3>1
    <3>3. /\ [i EXCEPT !.done = b] \in Item
          /\ [i EXCEPT !.done = b].at = i.at /\ [i EXCEPT !.done = b].due = i.due
          /\ [i EXCEPT !.done = b].done = b
      BY MarkedItem
    <3>4. items'[h].at = M(h).at /\ items'[h].due = M(h).due
      BY <3>1, <3>2, <3>3
    <3>5. items'[h].done = MergedDone(h, H, marked)
      BY <3>1, <3>2, <3>3, Zenon
    <3>6. items'[h] \in Item
      BY <3>2, <3>3, Zenon
    <3> HIDE DEF M, H
    <3> QED
      BY <2>1, <3>4, <3>5, <3>6, Zenon
  <2>2. CASE ~(InWindow(h) /\ h \in Default)
    BY <1>5, <2>2, Absent
  <2> QED
    BY <2>1, <2>2
<1>7. items' \in [Homework -> Item]
  <2>1. items' = [h \in Homework |-> items'[h]]
    BY <1>1 DEF Windowed
  <2> QED
    BY <1>6, <2>1
<1>8. LoginOK' /\ FetchTypeOK'
  <2>1. brought' \subseteq Homework /\ answered' \in BOOLEAN /\ props' \in BOOLEAN
    BY <1>1, <1>2 DEF Answerable, MergeHistory
  <2> QED
    BY <1>1, <1>2, <1>7, <2>1 DEF FetchTypeOK, LoginOK, LoginTypeOK, login
<1>9. InTime' /\ RowsAsShown'
  BY <1>2 DEF InTime, RowsAsShown, login
<1>10. ASSUME NEW h \in Homework
       PROVE  M(h) = Told(h)'
  BY <1>1, <1>2, <1>4 DEF Told
<1>11. KnowsSource'
  <2> SUFFICES ASSUME NEW h \in Homework
               PROVE  /\ items'[h].at # "absent" =>
                           /\ h \in Configured \cup Default
                           /\ items'[h].at = Told(h)'.at /\ items'[h].due = Told(h)'.due
                      /\ h \in Default /\ InWindow(h)' =>
                           (Told(h)'.at = "listed" => items'[h].at = "listed")
    BY <1>2 DEF KnowsSource
  <2>1. InWindow(h)' = InWindow(h)
    BY <1>2 DEF InWindow
  <2> HIDE DEF M, H
  <2> QED
    BY <1>6, <1>10, <2>1
<1>12. DoneFresh'
  <2> SUFFICES ASSUME marked, NEW h \in got, items'[h].at # "absent"
               PROVE  items'[h].done = src[h].done
    BY <1>1, <1>2 DEF DoneFresh
  <2>1. h \in Homework
    BY <1>1 DEF Answerable
  <2>2. items'[h].done = MergedDone(h, H, marked)
    BY <1>6, <2>1
  <2>3. MergedDone(h, H, marked) = src[h].done
    BY <1>3, <2>1 DEF MergedDone
  <2> QED
    BY <2>2, <2>3
<1> QED
  BY <1>8, <1>9, <1>11, <1>12

\* The rows of listed homework get the dates that the source showed last.
LEMMA ApplyKeeps ==
  ASSUME FetchInv, Apply
  PROVE  FetchInv'
<1> USE DEF FetchInv
<1>1. ASSUME NEW h \in Homework
      PROVE  /\ rows[h] \in Row /\ items[h] \in Item
             /\ Told(h) \in Item /\ day \in Day
             /\ shown[h] \in [due: Day \cup {NoDue}, seen: Day]
  BY DEF FetchTypeOK, Told
<1>2. ASSUME NEW h \in Homework
      PROVE  /\ rows'[h] \in Row
             /\ shown'[h] \in [due: Day \cup {NoDue}, seen: Day]
             /\ rows'[h].state # "none" =>
                  /\ rows'[h].due = shown'[h].due /\ rows'[h].seen = shown'[h].seen
                  /\ h \in Configured \cup Default
  <2>1. /\ rows'[h] = IF items[h].at = "listed" THEN Refreshed(h)
                     ELSE IF Closes(h) THEN [rows[h] EXCEPT !.state = "closed"] ELSE rows[h]
        /\ shown'[h] = IF items[h].at # "listed" THEN shown[h]
                      ELSE [due |-> Told(h).due, seen |-> day]
    BY DEF Apply
  <2>2. CASE items[h].at = "listed"
    <3>1. items[h].due = Told(h).due /\ h \in Configured \cup Default
      BY <2>2 DEF Apply, KnowsSource
    <3> QED
      BY <1>1, <2>1, <2>2, <3>1 DEF Refreshed, Row, Item
  <2>3. CASE items[h].at # "listed"
    BY <1>1, <2>1, <2>3 DEF Row, RowsAsShown, Closes
  <2> QED
    BY <2>2, <2>3
<1>3. /\ rows' = [h \in Homework |-> rows'[h]] /\ shown' = [h \in Homework |-> shown'[h]]
      /\ EndPass /\ UNCHANGED <<day, edits, src>>
  BY DEF Apply
<1> QED
  BY <1>2, <1>3, EndKeeps DEF RowsAsShown

LEMMA InitFetch ==
  ASSUME Init
  PROVE  FetchInv
<1>1. LoginOK
  BY InitLogin DEF Init
<1>2. /\ day \in Day /\ edits \in 0 .. MaxEdits /\ covered \in BOOLEAN /\ ~covered
      /\ props \in BOOLEAN /\ ~props /\ answered \in BOOLEAN /\ ~answered
      /\ src \in [Homework -> Item] /\ rows \in [Homework -> Row]
      /\ shown \in [Homework -> [due: Day \cup {NoDue}, seen: Day]]
  <2>1. 0 \in Day /\ 0 \in 0 .. MaxEdits
    BY FetchAssumption DEF Day
  <2>2. \A h \in Homework : FirstDue[h] \in Day \cup {NoDue}
    BY FetchAssumption DEF Day
  <2>3. \A h \in Homework : [NoItem EXCEPT !.at = "listed", !.due = FirstDue[h]] \in Item
    BY <2>2 DEF NoItem, Item
  <2> QED
    BY <2>1, <2>3 DEF Init, Row
<1>3. FetchTypeOK
  BY <1>1, <1>2, Absent DEF Init, FetchTypeOK, LoginOK
<1> QED
  BY <1>1, <1>2, <1>3
  DEF Init, LoginInit, FetchInv, InTime, KnowsSource, RowsAsShown, DoneFresh

LEMMA NextFetch ==
  ASSUME FetchInv, [Next]_vars
  PROVE  FetchInv'
<1>1. CASE UNCHANGED vars
  BY <1>1
  DEF vars, login, fetched, FetchInv, FetchTypeOK, LoginOK, LoginTypeOK, InTime, KnowsSource,
      RowsAsShown, DoneFresh, Told, InWindow
<1>2. CASE AbortMalformed \/ PassDies
  <2>1. EndPass /\ UNCHANGED <<day, edits, src, rows, shown>>
    BY <1>2 DEF AbortMalformed, PassDies
  <2> QED
    BY <2>1, EndKeeps DEF FetchInv, FetchTypeOK, RowsAsShown
<1> QED
  BY <1>1, <1>2, WorldKeeps, LoginKeeps, AloneKeeps, MergeKeeps, ApplyKeeps DEF Next, Client

---------------------------------------------------------------------------
(* What a step may not do.                                                 *)

\* A row is closed by the last step of a pass, and by no other.
LEMMA OnlyApplyCloses ==
  ASSUME FetchInv, [Next]_vars, NEW h \in Homework,
         rows[h].state = "open", rows'[h].state = "closed"
  PROVE  Apply /\ Closes(h)
<1>1. Apply
  BY DEF Next, Client, vars, StartPass, LoginGoesOn, MergeHistory, LoginOnly, AbortMalformed,
         PassDies, Tomorrow, Elsewhere, Change
<1>2. rows'[h] = IF items[h].at = "listed" THEN Refreshed(h)
                 ELSE IF Closes(h) THEN [rows[h] EXCEPT !.state = "closed"] ELSE rows[h]
  BY <1>1 DEF Apply
<1> QED
  BY <1>1, <1>2 DEF Refreshed

---------------------------------------------------------------------------
(* The theorems.                                                           *)

\* What a pass holds of the source, and what the rows keep of it, is what it was last told,
\* whatever answer was lost, cut short or malformed.
THEOREM FetchInvariant == Spec => []FetchInv
<1> QED
  BY InitFetch, NextFetch, PTL DEF Spec

\* Every variable has its type, for any deadline, window and grace.
THEOREM TypeCorrect == Spec => []FetchTypeOK
<1>1. FetchInv => FetchTypeOK
  BY DEF FetchInv
<1> QED
  BY <1>1, FetchInvariant, PTL

\* No done mark of the login payload outlives a history that brings marks, for the
\* homework that the history holds.
THEOREM FreshMarks == Spec => []DoneFresh
<1>1. FetchInv => DoneFresh
  BY DEF FetchInv
<1> QED
  BY <1>1, FetchInvariant, PTL

\* After a captcha or a refusal the run sends no credentials, in whatever order the
\* login's requests are answered.
THEOREM RefusalIsFinal == Spec => RefusalStands
<1>1. ASSUME FetchInv, [Next]_vars
      PROVE  [refused => sent' <= sent]_vars
  <2> SUFFICES ASSUME refused PROVE sent' <= sent
    OBVIOUS
  <2>1. call = "out" /\ sent = 0 /\ pc = "idle"
    BY <1>1 DEF FetchInv, LoginOK, InTime, FetchTypeOK, Calls
  <2>2. UNCHANGED sent
    BY <1>1, <2>1
    DEF Next, Client, vars, login, StartPass, Connect, LoginGoesOn, MergeHistory, LoginOnly,
        AbortMalformed, Apply, PassDies, Tomorrow, Elsewhere, SessionStep, SessionEnds,
        BrowserSwitches, Reseed, SessionChanges, Change
  <2> QED
    BY <2>1, <2>2
<1> QED
  BY <1>1, FetchInvariant, PTL DEF Spec, RefusalStands

\* With a password, each pass reads the configured child, however many children the
\* account has and wherever the login has led.
THEOREM WantedChild == Spec => OneChild
<1>1. ASSUME FetchInv, [Next]_vars
      PROVE  [call' = "in" /\ call # "in" /\ mode = "password" => session = Wanted]_vars
  <2> SUFFICES ASSUME call' = "in", call # "in", mode = "password"
               PROVE  session = Wanted
    OBVIOUS
  <2>1. LoginStep
    BY <1>1
    DEF Next, Client, vars, login, StartPass, Connect, LoginGoesOn, MergeHistory, LoginOnly,
        AbortMalformed, Apply, EndPass, Leave, PassDies, Tomorrow, Elsewhere, SessionStep,
        SessionEnds, BrowserSwitches, Reseed, SessionChanges, Change
  <2>2. LoadUser
    BY <2>1
    DEF LoginStep, RequestFails, LoginPage, GetToken, SubmitLogin, FollowRedirect,
        TwoFactorPage, Poll, NotConfirmed, Complete, FormPage, SubmitForm, Probe, SwitchChild,
        Fails, Refuses, Leave, Goto, Enter, Sends
  <2> QED
    BY <1>1, <2>2 DEF LoadUser, FetchInv, LoginOK
<1> QED
  BY <1>1, FetchInvariant, PTL DEF Spec, OneChild

\* The close policy counts from the dates that a pass was shown last.
THEOREM DueBeforeClosed == Spec => CloseIsDue
<1>1. ASSUME FetchInv, [Next]_vars, NEW h \in Homework,
             rows[h].state = "open", rows'[h].state = "closed"
      PROVE  IF shown[h].due # NoDue THEN day > shown[h].due + GraceDays
                                     ELSE day > shown[h].seen + WindowDays + GraceDays
  <2>1. CloseEligible(rows[h], day)
    BY <1>1, OnlyApplyCloses DEF Closes
  <2>2. rows[h].due = shown[h].due /\ rows[h].seen = shown[h].seen
    BY <1>1 DEF FetchInv, RowsAsShown
  <2>3. day \in Nat /\ rows[h].seen \in Nat /\ rows[h].due \in Int
    BY <1>1, FetchAssumption DEF FetchInv, FetchTypeOK, Row, Day, NoDue
  <2> QED
    BY <2>1, <2>2, <2>3, PolicyAssumption DEF CloseEligible, NoDue
<1> DEFINE Due == \A h \in Homework :
      rows[h].state = "open" /\ rows'[h].state = "closed" =>
        IF shown[h].due # NoDue THEN day > shown[h].due + GraceDays
                                ELSE day > shown[h].seen + WindowDays + GraceDays
<1>2. ASSUME FetchInv, [Next]_vars PROVE [Due]_vars
  BY <1>1, <1>2
<1> QED
  BY <1>2, FetchInvariant, PTL DEF Spec, CloseIsDue

\* While the configured types are among those that the merge reads, no homework is closed
\* that one of the two answers listed and the history did not contradict, nor without an
\* answer to the history.
THEOREM UnseenBeforeClosed ==
  ASSUME Configured \subseteq Default
  PROVE  Spec => CloseMeansUnseen
<1>1. ASSUME FetchInv, [Next]_vars, NEW h \in Homework,
             rows[h].state = "open", rows'[h].state = "closed"
      PROVE  answered /\ (Told(h).at # "listed" \/ ~InWindow(h))
  <2>1. pc = "links" /\ covered /\ items[h].at # "listed"
    BY <1>1, OnlyApplyCloses DEF Apply, Closes
  <2>2. h \in Default
    BY <1>1 DEF FetchInv, RowsAsShown
  <2> QED
    BY <1>1, <2>1, <2>2 DEF FetchInv, KnowsSource
<1> DEFINE Unseen == \A h \in Homework :
      rows[h].state = "open" /\ rows'[h].state = "closed" =>
        answered /\ (Told(h).at # "listed" \/ ~InWindow(h))
<1>2. ASSUME FetchInv, [Next]_vars PROVE [Unseen]_vars
  BY <1>1, <1>2
<1> QED
  BY <1>2, FetchInvariant, PTL DEF Spec, CloseMeansUnseen
===============================================================================
