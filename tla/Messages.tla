------------------------------ MODULE Messages ------------------------------
(***************************************************************************)
(* The WhatsApp messages of one order, as they are filed in                *)
(* whatsapp_messages: the automatic confirmation of Notification.tla, the  *)
(* messages an admin sends past it, and what Meta's webhook reports of all *)
(* of them.  A row exists only once its sender has had Meta's answer, so a *)
(* report can come before the row it is about.                             *)
(***************************************************************************)
EXTENDS Notification

CONSTANTS
    Manual,      \* messages an admin sends: a resend, a free text
    EventsCap    \* bound: how many reports Meta sends

ASSUME MessagesAssumption ==
    Manual \cap (Senders \cup {Nobody}) = {} /\ EventsCap \in Nat

Authors == Senders \cup Manual

VARIABLES
    messages,  \* messages[a]: the row of a's message
    desk,      \* desk[a]: how far the request for a manual message is
    taken,     \* the manual messages that Meta took
    events,    \* whatsapp_message_status_events: who and what
    hooks,     \* the events filed whose UPDATE is still to run
    missed     \* history: the events whose UPDATE never ran or found no row

filing == <<messages, desk, taken, events, hooks, missed>>
allVars == <<notice, filing>>

\* Meta's reports carry a time in seconds: sent and delivered may share one.
Statuses == {"sent", "delivered", "read"}
TimeOf(status) == IF status = "read" THEN 2 ELSE 1

Rows == [status : {"none", "sent", "failed"},
         shown : Statuses \cup {"null"}, at : 0..2]

\* INSERT INTO whatsapp_messages: the provider's id is known of sent ones only.
Row(answer) == [status |-> IF answer = "sent" THEN "sent" ELSE "failed",
                shown |-> "null", at |-> 0]
-----------------------------------------------------------------------------
(* sendWhatsAppTemplateMessage: Meta's answer, then the row *)
SendAndLog(s) ==
    /\ Answer(s) /\ Goto(s, "log")
    /\ UNCHANGED filing

\* The order's number is no mobile number: nothing is sent and nothing filed.
NumberInvalid(s) ==
    /\ pc[s] = "send" /\ Goto(s, "mark")
    /\ outcome' = [outcome EXCEPT ![s] = "permanent"]
    /\ UNCHANGED <<delivery, accepted, overtaken>> /\ UNCHANGED filing

LogMessage(s) ==
    /\ pc[s] = "log"
    /\ messages' = [messages EXCEPT ![s] = Row(outcome[s])]
    /\ Goto(s, "mark")
    /\ UNCHANGED <<delivery, outcome, accepted, overtaken>>
    /\ UNCHANGED <<desk, taken, events, hooks, missed>>

(* adminWhatsapp: no claim is made, and the delivery row is not looked at *)
SendManually(a) ==
    /\ desk[a] = "idle"
    /\ \E answer \in {"sent", "failed"} :
          /\ desk' = [desk EXCEPT ![a] = answer]
          /\ taken' \in IF answer = "sent" THEN {taken \cup {a}}
                        ELSE {taken, taken \cup {a}}
    /\ UNCHANGED notice /\ UNCHANGED <<messages, events, hooks, missed>>

FileManually(a, row) ==
    /\ desk[a] \in {"sent", "failed"}
    /\ messages' = [messages EXCEPT ![a] = Row(desk[a])]
    /\ desk' = [desk EXCEPT ![a] = "done"]
    /\ delivery' = row
    /\ UNCHANGED <<pc, outcome, accepted, overtaken>>
    /\ UNCHANGED <<taken, events, hooks, missed>>
LogManuallyAndMark(a) ==
    FileManually(a, IF desk[a] = "sent" THEN [delivery EXCEPT !.status = "sent",
                                                              !.owner = Nobody]
                    ELSE delivery)
LogManually(a) == FileManually(a, delivery)

StopManually(a) ==
    /\ desk[a] \in {"sent", "failed"}
    /\ desk' = [desk EXCEPT ![a] = "done"]
    /\ UNCHANGED notice /\ UNCHANGED <<messages, taken, events, hooks, missed>>

(* processStatusWebhookPayload, for one entry *)
\* Meta reports in any order.  A report it repeats hits ON CONFLICT and is skipped.
HookInsert(a, status) ==
    /\ a \in accepted \cup taken
    /\ <<a, status>> \notin events /\ Cardinality(events) < EventsCap
    /\ events' = events \cup {<<a, status>>}
    /\ hooks' = hooks \cup {<<a, status>>}
    /\ UNCHANGED notice /\ UNCHANGED <<messages, desk, taken, missed>>

HookUpdateIf(a, status, newer) ==
    /\ <<a, status>> \in hooks
    /\ hooks' = hooks \ {<<a, status>>}
    /\ messages' = IF messages[a].status = "sent" /\ newer
                   THEN [messages EXCEPT ![a].shown = status,
                                         ![a].at = TimeOf(status)]
                   ELSE messages
    /\ missed' = IF messages[a].status = "sent" THEN missed
                 ELSE missed \cup {<<a, status>>}
    /\ UNCHANGED notice /\ UNCHANGED <<desk, taken, events>>
HookUpdateAlways(a, status) == HookUpdateIf(a, status, TRUE)
HookUpdate(a, status) ==
    HookUpdateIf(a, status, messages[a].shown = "null" \/ messages[a].at < TimeOf(status))

\* The server stops, or the UPDATE throws, after the INSERT.
HookStop(a, status) ==
    /\ <<a, status>> \in hooks
    /\ hooks' = hooks \ {<<a, status>>}
    /\ missed' = missed \cup {<<a, status>>}
    /\ UNCHANGED notice /\ UNCHANGED <<messages, desk, taken, events>>
-----------------------------------------------------------------------------
MessagesInit ==
    /\ NoticeInit
    /\ messages = [a \in Authors |-> [status |-> "none", shown |-> "null", at |-> 0]]
    /\ desk = [a \in Manual |-> "idle"]
    /\ taken = {} /\ events = {} /\ hooks = {} /\ missed = {}

ClaimOrRecord ==
    /\ \/ StartCheckout
       \/ \E s \in Senders :
             \/ List(s) \/ FirstClaim(s) \/ ReadRow(s) \/ TakeOver(s)
             \/ RetryClaim(s) \/ Mark(s) \/ Stop(s)
       \/ LeaseEnds
    /\ UNCHANGED filing

MessagesNext ==
    \/ ClaimOrRecord
    \/ \E s \in Senders : SendAndLog(s) \/ NumberInvalid(s) \/ LogMessage(s)
    \/ \E a \in Manual : SendManually(a) \/ LogManually(a) \/ StopManually(a)
    \/ \E a \in Authors, status \in Statuses :
          HookInsert(a, status) \/ HookUpdate(a, status) \/ HookStop(a, status)

MessagesSpec == MessagesInit /\ [][MessagesNext]_allVars
-----------------------------------------------------------------------------
\* The confirmation of Notification.tla: between the answer and the row's UPDATE
\* it has no statement for the INSERT of the message.
Confirmation ==
    INSTANCE Notification
    WITH pc <- [s \in Senders |-> IF pc[s] = "log" THEN "mark" ELSE pc[s]]

MessagesTypeOK ==
    /\ Confirmation!NoticeTypes
    /\ messages \in [Authors -> Rows]
    /\ desk \in [Manual -> {"idle", "sent", "failed", "done"}]
    /\ taken \subseteq Manual
    /\ events \subseteq Authors \X Statuses
    /\ hooks \subseteq events /\ missed \subseteq events \ hooks

\* Filing messages, hearing of them and an admin's resends (adminWhatsapp.ts:156-159)
\* leave the automatic confirmation what it is without them.
ConfirmationUndisturbed == Confirmation!NoticeSpec

\* What the admin reads of a message is the latest thing Meta said of it, in
\* whatever order the reports came; nothing is shown that Meta did not say.
StatusKeepsUp ==
    \A a \in Authors :
        LET heard == {e \in events \ (hooks \cup missed) : e[1] = a}
        IN  messages[a].status = "sent" =>
               /\ \A e \in heard : TimeOf(e[2]) <= messages[a].at
               /\ messages[a].shown # "null" => <<a, messages[a].shown>> \in heard

\* A row that says sent is a message Meta took; the delivery row says sent only
\* when the message of a claim is among the order's rows.
FiledAsSent ==
    /\ \A a \in Authors :
          messages[a].status = "sent" => a \in accepted \cup taken
    /\ delivery.status = "sent" => \E s \in Senders : messages[s].status = "sent"

\* Whatever a row says, of a message or of the delivery, happened: an admin who
\* reads both (adminWhatsapp.ts) is never misled, by a crash, an unknown outcome
\* or a late owner (whatsappService.ts, whatsappNotificationDeliveryService.ts).
RowsTellTheTruth == MessagesTypeOK /\ RowTellsTheTruth /\ FiledAsSent
=============================================================================
