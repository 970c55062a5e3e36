----------------------------- MODULE ResultLane -----------------------------
(***************************************************************************)
(* The Telegram adapter's part in a workflow                               *)
(* (src/telegram_operator/adapter.py): a human's one-shot decision, the    *)
(* result placeholder that is sent before the work may be dispatched, the  *)
(* verified result shown by editing that one message, and the legacy lane  *)
(* that sends a fresh message for records without a placeholder.           *)
(*                                                                         *)
(* The lane is one thread.  It writes its intent under the store lock,     *)
(* talks to Telegram outside the lock and records the outcome under it, so *)
(* a crash or a store that cannot be read may fall between any two steps.  *)
(***************************************************************************)
EXTENDS WorkflowRecord

VARIABLES
    lane,     \* where the adapter is
    answer,   \* the outcome of the Telegram call it has not recorded yet
    messages, \* result objects (placeholder or fresh message) ever created
    shown,    \* the bound message has shown the verified result
    gone      \* the human deleted the bound message

laneVars == <<lane, answer, messages, shown, gone>>

LanePcs == {"up", "send", "record", "edit", "settle", "legacy", "mark", "down"}

Answers == {"none", "applied", "zero", "indefinite", "missing", "partial"}

LaneInit ==
    /\ lane = "up" /\ answer = "none"
    /\ messages = 0 /\ shown = FALSE /\ gone = FALSE

\* The adapter takes the store lock and saves r in one transaction.
LaneSaves(r, to) ==
    /\ lock = "free"
    /\ wf' = r
    /\ lane' = to
    /\ answer' = "none"
    /\ UNCHANGED <<lock, messages, shown, gone>>

\* The transaction raised StoreError: nothing is saved, the pass goes on.
LaneFaults(from) ==
    /\ lane = from /\ lock = "free"
    /\ Disturb("fault")
    /\ lane' = "up" /\ answer' = "none"
    /\ UNCHANGED <<wf, lock, messages, shown, gone>>

-----------------------------------------------------------------------------
(* The decision *)

\* The one save that arms the mission also requests its placeholder.
Approve ==
    /\ lane = "up" /\ wf.phase = "PLANNED"
    /\ LaneSaves([wf EXCEPT !.phase = "AUTHORIZED",
                            !.placeholder = "required"], "up")
    /\ UNCHANGED budget

Reject ==
    /\ lane = "up" /\ wf.phase = "PLANNED"
    /\ LaneSaves(Moved(wf, "BLOCKED"), "up")
    /\ UNCHANGED budget

-----------------------------------------------------------------------------
(* The placeholder *)

\* _placeholder_is_claimable
PlaceholderClaimable == wf.placeholder \in {"required", "failed_unsent"}

\* _claim_one_placeholder: the intent is saved before Telegram is called.
ClaimPlaceholder ==
    /\ lane = "up" /\ PlaceholderClaimable
    /\ LaneSaves([wf EXCEPT !.placeholder = "sending"], "send")
    /\ UNCHANGED budget

\* send_message_once: one transport call, and three kinds of answer.
Send ==
    /\ lane = "send"
    /\ lane' = "record"
    /\ \/ /\ answer' = "applied" /\ messages' = messages + 1
          /\ UNCHANGED budget
       \/ /\ answer' = "zero" /\ UNCHANGED messages
          /\ Disturb("telegram")
       \/ /\ answer' = "indefinite" /\ messages' \in {messages, messages + 1}
          /\ Disturb("telegram")
    /\ UNCHANGED <<wf, lock, shown, gone>>

SendOutcome ==
    CASE answer = "applied" -> "bound"
      [] answer = "zero"    -> "failed_unsent"
      [] OTHER              -> "indefinite"

\* _record_placeholder_outcome: only the intent this pass wrote is resolved.
RecordPlaceholder ==
    /\ lane = "record"
    /\ LaneSaves(IF wf.placeholder = "sending"
                 THEN [wf EXCEPT !.placeholder = SendOutcome] ELSE wf, "up")
    /\ UNCHANGED budget

-----------------------------------------------------------------------------
(* The result, shown by editing the bound message *)

\* Faulty variant: an edit whose answer was lost is left as it is.
EditClaimableOnce ==
    /\ wf.phase = "COMPLETED" /\ wf.verified # "none"
    /\ wf.placeholder = "bound"
    /\ wf.delivery \in {"none", "edit_pending"}

\* _edit_delivery_claimable
EditClaimable ==
    /\ wf.phase = "COMPLETED" /\ wf.verified # "none"
    /\ wf.placeholder = "bound"
    /\ wf.delivery \in {"none", "edit_pending", "edit_indefinite"}

\* _claim_one_edit: a result too long for one message is never sent in parts.
ClaimEdit ==
    /\ lane = "up" /\ EditClaimable
    /\ IF wf.verified = "oversize"
       THEN LaneSaves([wf EXCEPT !.delivery = "degraded_unrenderable"], "up")
       ELSE LaneSaves([wf EXCEPT !.delivery = "edit_pending"], "edit")
    /\ UNCHANGED budget

\* editMessageText: applied or already applied, the target missing, or an
\* answer that was lost on the way.
Edit ==
    /\ lane = "edit"
    /\ lane' = "settle"
    /\ \/ /\ ~gone
          /\ answer' = "applied" /\ shown' = TRUE
          /\ UNCHANGED budget
       \/ /\ gone
          /\ answer' = "missing" /\ UNCHANGED <<shown, budget>>
       \/ /\ answer' = "indefinite"
          /\ shown' \in (IF gone THEN {shown} ELSE {shown, TRUE})
          /\ Disturb("telegram")
    /\ UNCHANGED <<wf, lock, messages, gone>>

\* Faulty variant: an ambiguous edit counts as delivered.
EditOutcomeTrusting ==
    IF answer = "missing" THEN "degraded_unbindable" ELSE "delivered_by_edit"

\* _classify_edit_outcome
EditOutcome ==
    CASE answer = "applied" -> "delivered_by_edit"
      [] answer = "missing" -> "degraded_unbindable"
      [] OTHER              -> "edit_indefinite"

\* _perform_one_edit, after the call.
SettleEdit ==
    /\ lane = "settle"
    /\ LaneSaves(IF wf.delivery = "edit_pending"
                 THEN [wf EXCEPT !.delivery = EditOutcome] ELSE wf, "up")
    /\ UNCHANGED budget

-----------------------------------------------------------------------------
(* The legacy lane: a fresh message, for a record without a placeholder *)

LegacyEligible ==
    /\ wf.phase = "COMPLETED" /\ wf.verified # "none"
    /\ wf.delivery = "none" /\ wf.placeholder = "none"

\* deliver_pending_results: the reservation is saved before the send.
Reserve ==
    /\ lane = "up" /\ LegacyEligible
    /\ LaneSaves([wf EXCEPT !.delivery = "reserved"], "legacy")
    /\ UNCHANGED budget

\* send_message: bounded attempts; a fired deadline is tried again although
\* Telegram may have created the message (_send_with_retry_detail).
LegacySend ==
    /\ lane = "legacy"
    /\ \/ /\ lane' = "mark" /\ answer' = "applied"
          /\ messages' = messages + 1
          /\ UNCHANGED budget
       \/ /\ lane' = "mark" /\ answer' = "zero"
          /\ UNCHANGED messages
          /\ Disturb("telegram")
       \/ /\ lane' = "mark" /\ answer' = "partial"
          /\ messages' = messages + 1
          /\ Disturb("telegram")
       \/ /\ \/ lane' = "legacy" /\ UNCHANGED answer
             \/ lane' = "mark" /\ answer' = "zero"
          /\ messages' \in {messages, messages + 1}
          /\ Disturb("telegram")
    /\ UNCHANGED <<wf, lock, shown, gone>>

LegacyOutcome ==
    CASE answer = "applied" -> "delivered"
      [] answer = "partial" -> "partial"
      [] OTHER              -> "none"

\* _deliver_one_result, after the send: nothing displayed clears the
\* reservation for another try.
MarkLegacy ==
    /\ lane = "mark"
    /\ LaneSaves([wf EXCEPT !.delivery = LegacyOutcome], "up")
    /\ UNCHANGED budget

-----------------------------------------------------------------------------
(* The process and its surroundings *)

LaneCrash ==
    /\ lane # "down"
    /\ Disturb("crash")
    /\ lane' = "down" /\ answer' = "none"
    /\ UNCHANGED <<wf, lock, messages, shown, gone>>

\* Faulty variant: a send that was in flight is taken for not sent.
InterruptedIsUnsent ==
    IF wf.placeholder = "sending"
    THEN [wf EXCEPT !.placeholder = "failed_unsent"] ELSE wf

\* _reconcile_sending_placeholders: an interrupted send stays unknown.
Interrupted ==
    IF wf.placeholder = "sending"
    THEN [wf EXCEPT !.placeholder = "indefinite"] ELSE wf

\* startup_recovery
LaneStart ==
    /\ lane = "down"
    /\ LaneSaves(Interrupted, "up")
    /\ UNCHANGED budget

StoreFault ==
    \E from \in {"record", "settle", "mark", "down"} : LaneFaults(from)

\* The human deletes the bound message.
Delete ==
    /\ messages > 0 /\ ~gone
    /\ Disturb("delete")
    /\ gone' = TRUE
    /\ UNCHANGED <<wf, lock, lane, answer, messages, shown>>

LaneStep ==
    \/ ClaimPlaceholder \/ Send \/ RecordPlaceholder
    \/ ClaimEdit \/ Edit \/ SettleEdit
    \/ Reserve \/ LegacySend \/ MarkLegacy
    \/ LaneStart

LaneNext ==
    \/ LaneStep \/ Approve \/ Reject
    \/ LaneCrash \/ StoreFault \/ Delete

LaneTypeOK ==
    /\ lane \in LanePcs /\ answer \in Answers
    /\ messages \in Nat /\ shown \in BOOLEAN /\ gone \in BOOLEAN
=============================================================================
