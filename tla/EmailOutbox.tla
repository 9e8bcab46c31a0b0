---------------------------- MODULE EmailOutbox ----------------------------
(***************************************************************************)
(* The transactional outbox (email/worker.ts), the provider's events       *)
(* (email/router.ts) and the administrator's retry of dead letters.  A     *)
(* message is queued in the transaction that creates its token; replicas   *)
(* of the worker claim, send and mark it.  The SMTP server is external.    *)
(***************************************************************************)
EXTENDS Naturals, Sequences, FiniteSets

CONSTANTS
    Recipients,     \* addresses
    Mailers,        \* email worker replicas
    MaxAttempts,    \* failed attempts before DEAD_LETTER (8)
    MaxMails, MaxMailFaults  \* bounds

ASSUME MailAssumption ==
    /\ IsFiniteSet(Recipients) /\ IsFiniteSet(Mailers)
    /\ {MaxAttempts, MaxMails, MaxMailFaults} \subseteq Nat

VARIABLES
    outbox,      \* email_outbox; a deleted row keeps its place
    mailer,      \* what each replica is doing
    suppressed,  \* email_suppressions
    mailEvents,  \* email_provider_events
    sent,        \* history: how often each message was handed to the SMTP server
    mailFaults   \* history: interrupted, failed and overtaken deliveries

mailVars == <<outbox, mailer, suppressed, mailEvents, sent, mailFaults>>

Templates == {"VERIFY_EMAIL", "RESET_PASSWORD", "INVITE_MEMBER"}
EventTypes == {"DELIVERED", "HARD_BOUNCE", "COMPLAINT"}
Mail == [to : Recipients, template : Templates, attempts : Nat, messageId : BOOLEAN,
         status : {"PENDING", "PROCESSING", "SENT", "DELIVERED", "BOUNCED", "SUPPRESSED",
                   "DEAD_LETTER", "ROW_DELETED"}]
\* item: the row as claimed, with the attempts before the claim.
Mailer == [pc : {"idle", "check", "send", "mark"}, item : Nat, attempts : Nat]

Idle == [pc |-> "idle", item |-> 0, attempts |-> 0]

\* INSERT INTO email_outbox, in the caller's transaction.
Queued(box, to, template) ==
    Append(box, [to |-> to, template |-> template, attempts |-> 0, messageId |-> FALSE,
                 status |-> "PENDING"])

\* UPDATE email_outbox SET status ... WHERE id: nothing when the row is gone.
SetMailStatus(box, m, status) ==
    IF box[m].status = "ROW_DELETED" THEN box ELSE [box EXCEPT ![m].status = status]

-----------------------------------------------------------------------------
(* The worker.                                                             *)

\* Rows in PROCESSING for more than 15 minutes are PENDING again: their replica is gone,
\* or slow, and then the recovery overtakes a delivery that is still running.
Overtaken(overdue) == {m \in overdue : \E w \in Mailers : mailer[w].item = m}

\* Any pending row may be the oldest whose backoff is over.
Claim(w, m, overdue) ==
    /\ mailer[w].pc = "idle"
    /\ outbox[m].status = "PENDING" \/ m \in overdue
    /\ mailFaults + Cardinality(Overtaken(overdue)) <= MaxMailFaults
    /\ mailFaults' = mailFaults + Cardinality(Overtaken(overdue))
    /\ outbox' = [i \in DOMAIN outbox |->
                     IF i = m THEN [outbox[i] EXCEPT !.status = "PROCESSING", !.attempts = @ + 1]
                     ELSE IF i \in overdue THEN [outbox[i] EXCEPT !.status = "PENDING"] ELSE outbox[i]]
    /\ mailer' = [mailer EXCEPT ![w] = [pc |-> "check", item |-> m, attempts |-> outbox[m].attempts]]
    /\ UNCHANGED <<suppressed, mailEvents, sent>>

CheckSuppression(w) ==
    /\ mailer[w].pc = "check"
    /\ LET m == mailer[w].item
       IN \/ /\ outbox[m].to \in suppressed
             /\ outbox' = SetMailStatus(outbox, m, "SUPPRESSED")
             /\ mailer' = [mailer EXCEPT ![w] = Idle]
          \/ /\ outbox[m].to \notin suppressed
             /\ mailer' = [mailer EXCEPT ![w].pc = "send"]
             /\ UNCHANGED outbox
    /\ UNCHANGED <<suppressed, mailEvents, sent, mailFaults>>

SendMail(w) ==
    /\ mailer[w].pc = "send"
    /\ sent' = [sent EXCEPT ![mailer[w].item] = @ + 1]
    /\ mailer' = [mailer EXCEPT ![w].pc = "mark"]
    /\ UNCHANGED <<outbox, suppressed, mailEvents, mailFaults>>

\* A mutated form: the row goes back to the queue, as after a failure.
MarkSentMutant(w) ==
    /\ mailer[w].pc = "mark"
    /\ outbox' = SetMailStatus(outbox, mailer[w].item, "PENDING")
    /\ mailer' = [mailer EXCEPT ![w] = Idle]
    /\ UNCHANGED <<suppressed, mailEvents, sent, mailFaults>>
MarkSent(w) ==
    /\ mailer[w].pc = "mark"
    /\ LET m == mailer[w].item
           box == SetMailStatus(outbox, m, "SENT")
       IN outbox' = IF box = outbox THEN box ELSE [box EXCEPT ![m].messageId = TRUE]
    /\ mailer' = [mailer EXCEPT ![w] = Idle]
    /\ UNCHANGED <<suppressed, mailEvents, sent, mailFaults>>

\* The suppression query or its update fails, sendMail, or the update after it: all of them
\* end in the catch block.
DeliveryFails(w) ==
    /\ mailer[w].pc \in {"check", "send", "mark"}
    /\ mailFaults < MaxMailFaults
    /\ mailFaults' = mailFaults + 1
    /\ outbox' = SetMailStatus(outbox, mailer[w].item,
                     IF mailer[w].attempts + 1 >= MaxAttempts THEN "DEAD_LETTER" ELSE "PENDING")
    /\ mailer' = [mailer EXCEPT ![w] = Idle]
    /\ UNCHANGED <<suppressed, mailEvents, sent>>

\* The replica ends in the middle of a delivery.
MailerCrash(w) ==
    /\ mailer[w].pc # "idle"
    /\ mailFaults < MaxMailFaults
    /\ mailFaults' = mailFaults + 1
    /\ mailer' = [mailer EXCEPT ![w] = Idle]
    /\ UNCHANGED <<outbox, suppressed, mailEvents, sent>>

-----------------------------------------------------------------------------
(* Events and administration.                                              *)

\* POST /provider-events: an event is taken once; one whose message id no row has (yet,
\* or any more) is taken as well and changes nothing else.
ProviderEventMutant(m, type) ==
    /\ sent[m] > 0 /\ <<m, type>> \notin mailEvents
    /\ mailEvents' = mailEvents \cup {<<m, type>>}
    /\ outbox' = SetMailStatus(outbox, m, type)
    /\ UNCHANGED <<mailer, suppressed, sent, mailFaults>>
ProviderEvent(m, type) ==
    /\ sent[m] > 0
    /\ <<m, type>> \notin mailEvents
    /\ mailEvents' = mailEvents \cup {<<m, type>>}
    /\ \/ /\ outbox[m].messageId /\ outbox[m].status # "ROW_DELETED"
          /\ IF type = "DELIVERED"
             THEN /\ outbox' = [outbox EXCEPT ![m].status = IF @ = "SENT" THEN "DELIVERED" ELSE @]
                  /\ UNCHANGED suppressed
             ELSE /\ outbox' = [outbox EXCEPT ![m].status = "BOUNCED"]
                  /\ suppressed' = suppressed \cup {outbox[m].to}
       \/ /\ ~outbox[m].messageId \/ outbox[m].status = "ROW_DELETED" \/ sent[m] > 1
          /\ UNCHANGED <<outbox, suppressed>>
    /\ UNCHANGED <<mailer, sent, mailFaults>>

RetryDeadLetter(m) ==
    /\ outbox[m].status = "DEAD_LETTER"
    /\ outbox' = [outbox EXCEPT ![m].status = "PENDING", ![m].attempts = 0]
    /\ UNCHANGED <<mailer, suppressed, mailEvents, sent, mailFaults>>

\* The retention worker deletes what is old enough in a final state.
CleanupMail(m) ==
    /\ outbox[m].status \in {"SENT", "DELIVERED", "SUPPRESSED", "DEAD_LETTER", "BOUNCED"}
    /\ outbox' = [outbox EXCEPT ![m].status = "ROW_DELETED"]
    /\ UNCHANGED <<mailer, suppressed, mailEvents, sent, mailFaults>>

-----------------------------------------------------------------------------
MailInit ==
    /\ mailer = [w \in Mailers |-> Idle]
    /\ suppressed = {}
    /\ mailEvents = {}
    /\ mailFaults = 0

\* What the worker does by itself.
MailerNext ==
    \/ \E w \in Mailers, m \in DOMAIN outbox :
         \E overdue \in SUBSET {i \in DOMAIN outbox : outbox[i].status = "PROCESSING"} : Claim(w, m, overdue)
    \/ \E w \in Mailers : CheckSuppression(w) \/ SendMail(w) \/ MarkSent(w) \/ DeliveryFails(w) \/ MailerCrash(w)

\* A message was handed to the provider.
Received(m) == sent[m] > 0

MailTypeOK ==
    /\ outbox \in Seq(Mail) /\ Len(outbox) <= MaxMails
    /\ mailer \in [Mailers -> Mailer]
    /\ suppressed \subseteq Recipients
    /\ mailEvents \subseteq (1..MaxMails) \X EventTypes
    /\ sent \in Seq(Nat) /\ Len(sent) = Len(outbox)
    /\ mailFaults \in 0..MaxMailFaults

\* However many replicas claim, crash, fail and are overtaken, a message is handed to the
\* provider once, and once more at most for each interrupted or failed delivery.
MailedOnce == \A m \in DOMAIN sent : sent[m] <= 1 + mailFaults
=============================================================================
