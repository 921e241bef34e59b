------------------------------- MODULE DiffPlan -------------------------------
(***************************************************************************)
(* SyncEngine._diff and _deferred_plan: the steps a pass plans for one     *)
(* homework, from its row, the item as fetched and the task as listed.     *)
(***************************************************************************)
EXTENDS Reconcile

Plain(op, item) == [op |-> op, item |-> item, derived |-> FALSE]
When(cond, step) == IF cond THEN <<step>> ELSE <<>>

\* Mutated form: the coverage of the fetch is not looked at.
CloseStepsUncovered(h, row, covered) ==
  When(/\ row.state \in {"created", "updated"} /\ row.task # None
       /\ h \in PastDue /\ DeletePolicy # "leave",
       Plain(DeletePolicy, NoItem))

\* _close_candidate and the row conditions of its two callers.
CloseSteps(h, row, covered) ==
  When(/\ row.state \in {"created", "updated"} /\ row.task # None
       /\ covered /\ h \in PastDue /\ DeletePolicy # "leave",
       Plain(DeletePolicy, NoItem))

QueuedSteps(row) == When(row.op # "none", Plain(row.op, row.item))

\* A row with an unfinished create or a deferred operation, and its item is fetched.
PendingSteps(row, item) ==
  IF /\ item.at = "removed" /\ row.task = None
     /\ row.state = "creating" \/ row.op \in {"create", "resume"}
  THEN <<Plain("cancel", item)>>
  ELSE IF row.state = "creating" THEN <<Plain("resume", item)>>
  ELSE IF item.at = "removed" THEN QueuedSteps(row)
  ELSE <<Plain(row.op, item)>>

\* A row with a task, and its item is listed: every difference gets a step, in the
\* order of the code; a homework that needs none is touched.
MappedSteps(row, item, remote) ==
  LET wasClosed == row.state \in Closed
      reopen    == wasClosed /\ ~item.done
      seenDone  == row.done /\ ~reopen
      baseline  == row.fp = Unset
      edited    == ~baseline /\ row.fp # item.content
      drift     == ~edited /\ remote.live /\ remote.content = Foreign
      flip      == item.done # seenDone /\ (MirrorDone \/ wasClosed)
      mirror    == ~flip /\ MirrorDone /\ remote.live /\ remote.done # item.done
      derive    == ~edited /\ ~drift /\ remote.live /\ ~remote.derived
  IN     When(reopen, Plain("reopen", item))
      \o When(baseline, Plain("touch", item))
      \o When(edited, Plain("patch", item))
      \o When(flip, Plain("patch_done", item))
      \o When(drift, Plain("patch", item))
      \o When(mirror, Plain("patch_done", item))
      \o When(derive, [op |-> "patch", item |-> item, derived |-> TRUE])
      \o When(~(reopen \/ baseline \/ edited \/ flip \/ drift \/ mirror \/ derive),
              Plain("touch", item))

Steps(h, row, item, remote, covered) ==
  IF row.state \in Pending
  THEN IF item.at = "absent" THEN QueuedSteps(row) ELSE PendingSteps(row, item)
  ELSE IF item.at # "listed" THEN CloseSteps(h, row, covered)
  ELSE IF row.task = None THEN <<Plain("create", item)>>
  ELSE MappedSteps(row, item, remote)

\* _deferred_plan: the queued operation as it was queued, and nothing else.
DeferredSteps(row) == IF row.state = "deferred" THEN QueuedSteps(row) ELSE <<>>
===============================================================================
