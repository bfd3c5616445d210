---------------------------- MODULE Notification ----------------------------
(***************************************************************************)
(* The automatic WhatsApp confirmation of one order: who may send it.      *)
(* createOrder sends it after COMMIT, runs of the retry script send it     *)
(* again after a failure, on several server instances and with nothing     *)
(* between them but one row of whatsapp_notification_deliveries, which a   *)
(* sender claims for a lease of 90 seconds.  One action per statement.     *)
(* Messages.tla adds what is filed of each message, and an admin's resends. *)
(***************************************************************************)
EXTENDS Integers, FiniteSets

CONSTANTS
    Checkout,     \* the call of sendOrderConfirmationWhatsApp in createOrder
    Runs,         \* its calls for this order in runs of the retry script
    MaxAttempts,  \* MAX_AUTOMATIC_ATTEMPTS
    Nobody

Senders == {Checkout} \cup Runs

ASSUME NotificationAssumption ==
    /\ Checkout \notin Runs /\ Nobody \notin Senders
    /\ MaxAttempts \in Nat \ {0}

VARIABLES
    delivery,   \* the row
    pc,         \* pc[s]: the statement s is about to run
    outcome,    \* outcome[s]: what Meta answered s
    accepted,   \* the senders whose message Meta took
    overtaken   \* history: the senders whose claim another one took over

notice == <<delivery, pc, outcome, accepted, overtaken>>

Failures == {"retryable", "permanent", "unknown"}

\* owner_token, a UUID drawn for each claim, is the sender that drew it;
\* lease_expires_at is whether now() has reached it.
Deliveries ==
    [status : {"none", "pending", "sent", "failed"}, owner : Senders \cup {Nobody},
     lease : {"running", "over"}, attempts : Nat, failure : Failures \cup {"none"}]

\* The row once s has claimed it: pending, and s leaseholder for a while.
Claimed(s) == [delivery EXCEPT !.status = "pending", !.owner = s,
                               !.lease = "running", !.attempts = @ + 1]

\* A failure that may be tried again, and has not been too often.
MayRetry ==
    /\ delivery.status = "failed" /\ delivery.failure = "retryable"
    /\ delivery.attempts < MaxAttempts

Goto(s, step) == pc' = [pc EXCEPT ![s] = step]
-----------------------------------------------------------------------------
StartCheckout ==
    /\ pc[Checkout] = "idle"
    /\ Goto(Checkout, "claim")
    /\ UNCHANGED <<delivery, outcome, accepted, overtaken>>

\* listRetryableFailedNotifications puts the order in the batch of run s, which
\* comes to it when the orders before it are done.
List(s) ==
    /\ s \in Runs /\ pc[s] = "idle"
    /\ MayRetry
    /\ Goto(s, "claim")
    /\ UNCHANGED <<delivery, outcome, accepted, overtaken>>

(* claimAutomaticNotification *)
\* tryFirstClaim: INSERT ... ON CONFLICT DO NOTHING.
FirstClaim(s) ==
    /\ pc[s] = "claim"
    /\ \/ /\ delivery.status = "none"
          /\ delivery' = Claimed(s)
          /\ Goto(s, "send")
       \/ /\ delivery.status # "none"
          /\ Goto(s, "read")
          /\ UNCHANGED delivery
    /\ UNCHANGED <<outcome, accepted, overtaken>>

\* The SELECT that picks which conditional UPDATE to try.
ReadRow(s) ==
    /\ pc[s] = "read"
    /\ Goto(s, IF delivery.status = "pending" THEN "takeover"
               ELSE IF MayRetry THEN "retry" ELSE "done")
    /\ UNCHANGED <<delivery, outcome, accepted, overtaken>>

\* tryLeaseTakeover
TakeOver(s) ==
    /\ pc[s] = "takeover"
    /\ \/ /\ delivery.status = "pending" /\ delivery.lease = "over"
          /\ delivery' = Claimed(s)
          /\ overtaken' = overtaken \cup {delivery.owner}
          /\ Goto(s, "send")
       \/ /\ ~(delivery.status = "pending" /\ delivery.lease = "over")
          /\ Goto(s, "done")
          /\ UNCHANGED <<delivery, overtaken>>
    /\ UNCHANGED <<outcome, accepted>>

RetryClaimIf(s, may) ==
    /\ pc[s] = "retry"
    /\ \/ may /\ delivery' = Claimed(s) /\ Goto(s, "send")
       \/ ~may /\ Goto(s, "done") /\ UNCHANGED delivery
    /\ UNCHANGED <<outcome, accepted, overtaken>>
RetryAsRead(s)     == RetryClaimIf(s, TRUE)
\* tryFailedRetryClaim
RetryClaim(s)      == RetryClaimIf(s, MayRetry)

(* sendWhatsAppTemplateMessage *)
\* Meta takes the message, or does not.  Of a call that timed out nobody knows
\* which; an acceptance whose body cannot be read is filed as permanent.
Answer(s) ==
    /\ pc[s] = "send"
    /\ \/ /\ \E end \in {"sent", "permanent", "unknown"} :
                outcome' = [outcome EXCEPT ![s] = end]
          /\ accepted' = accepted \cup {s}
       \/ /\ \E failure \in Failures : outcome' = [outcome EXCEPT ![s] = failure]
          /\ UNCHANGED accepted
    /\ UNCHANGED <<delivery, overtaken>>
Send(s) == Answer(s) /\ Goto(s, "mark")

MarkIf(s, may, recorded) ==
    /\ pc[s] = "mark"
    /\ delivery' = IF may THEN recorded ELSE delivery
    /\ Goto(s, "done")
    /\ UNCHANGED <<outcome, accepted, overtaken>>
Recorded(s) ==
    IF outcome[s] = "sent"
    THEN [delivery EXCEPT !.status = "sent", !.owner = Nobody]
    ELSE [delivery EXCEPT !.status = "failed", !.owner = Nobody,
                          !.failure = outcome[s]]
MarkAnyClaim(s) == MarkIf(s, TRUE, Recorded(s))
\* markNotificationSent, markNotificationFailed: nothing, unless s still owns it.
Mark(s) ==
    MarkIf(s, delivery.status = "pending" /\ delivery.owner = s, Recorded(s))

(* The environment *)
\* The server of s stops, or a query of s throws and the catch swallows it.
Stop(s) ==
    /\ pc[s] \notin {"idle", "done"}
    /\ Goto(s, "done")
    /\ UNCHANGED <<delivery, outcome, accepted, overtaken>>

\* 90 seconds pass; no sender is asked whether it is still at work.
LeaseEnds ==
    /\ delivery.status = "pending" /\ delivery.lease = "running"
    /\ delivery' = [delivery EXCEPT !.lease = "over"]
    /\ UNCHANGED <<pc, outcome, accepted, overtaken>>
-----------------------------------------------------------------------------
NoticeInit ==
    /\ delivery = [status |-> "none", owner |-> Nobody, lease |-> "over",
                   attempts |-> 0, failure |-> "none"]
    /\ pc = [s \in Senders |-> "idle"]
    /\ outcome = [s \in Senders |-> "none"]
    /\ accepted = {}
    /\ overtaken = {}

NoticeNext ==
    \/ StartCheckout
    \/ \E s \in Senders :
          \/ List(s) \/ FirstClaim(s) \/ ReadRow(s) \/ TakeOver(s)
          \/ RetryClaim(s) \/ Send(s) \/ Mark(s) \/ Stop(s)
    \/ LeaseEnds

NoticeSpec == NoticeInit /\ [][NoticeNext]_notice
-----------------------------------------------------------------------------
NoticeTypes ==
    /\ delivery \in Deliveries
    /\ delivery.owner = Nobody <=> delivery.status # "pending"
    /\ pc \in [Senders -> {"idle", "claim", "read", "takeover", "retry", "send",
                           "mark", "done"}]
    /\ outcome \in [Senders -> Failures \cup {"none", "sent"}]
    /\ accepted \subseteq Senders /\ overtaken \subseteq Senders

\* Whoever is about to send or to record an outcome owns the row, unless the
\* lease ran out and another sender took over: two instances, a retry run and a
\* late sender never both believe they are the owner.
OneOwner ==
    \A s \in Senders \ overtaken :
        pc[s] \in {"send", "mark"} =>
            delivery.status = "pending" /\ delivery.owner = s

\* The customer gets one automatic confirmation, whatever fails, is retried or
\* has an unknown end, as long as no lease is taken over.
OneMessage ==
    \A a, b \in accepted \ overtaken : a = b

\* What the row says is true of the customer's phone: sent means a message was
\* taken, a failure that may be retried means none of those who wrote it was.
RowTellsTheTruth ==
    /\ delivery.status = "sent" => accepted # {}
    /\ delivery.status = "failed" /\ delivery.failure = "retryable" =>
          accepted \subseteq overtaken

\* The cap on attempts is exceeded by takeovers only, one for each.
AttemptsCapped ==
    delivery.attempts <= MaxAttempts + Cardinality(overtaken)

Decided ==
    \/ delivery.status = "sent"
    \/ delivery.status = "failed" /\ delivery.failure # "retryable"

\* A sent confirmation, and a failure that is permanent or whose outcome is
\* unknown, is the end: no automatic sender touches the row again.
OutcomesAreFinal == [][Decided => UNCHANGED delivery]_notice
=============================================================================
