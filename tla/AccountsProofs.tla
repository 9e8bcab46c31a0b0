--------------------------- MODULE AccountsProofs ---------------------------
(***************************************************************************)
(* Proofs about accounts, workspaces, sessions and the outbox, for any     *)
(* number of users, addresses, tokens, messages, mail workers and requests *)
(* in flight.                                                              *)
(***************************************************************************)
EXTENDS Accounts, FiniteSetTheorems, SequenceTheorems, TLAPS

-----------------------------------------------------------------------------
(* The outbox.                                                             *)

MailStatus == {"PENDING", "PROCESSING", "SENT", "DELIVERED", "BOUNCED", "SUPPRESSED",
               "DEAD_LETTER", "ROW_DELETED"}

\* A replica that will still hand message m to the provider.
Carries(h, m) == h.item = m /\ h.pc \in {"check", "send"}
Carriers(m) == {w \in Mailers : Carries(mailer[w], m)}

\* A message that some replica may claim without overtaking another one.
Waiting(m) ==
    \/ outbox[m].status \in {"PENDING", "DEAD_LETTER"}
    \/ outbox[m].status = "PROCESSING" /\ \A w \in Mailers : mailer[w].item # m

One(b) == IF b THEN 1 ELSE 0

\* Whoever delivers has a message; an idle replica has none.
Items ==
    \A w \in Mailers : /\ mailer[w].pc = "idle" <=> mailer[w].item = 0
                       /\ mailer[w].item \in 0..Len(outbox)

\* What was sent and what may be sent without a further fault.
Deliveries ==
    \A m \in DOMAIN sent : sent[m] + Cardinality(Carriers(m)) + One(Waiting(m)) <= 1 + mailFaults

MailOK == MailTypeOK /\ Items /\ Deliveries

\* Recipient and template of a message never change.
Addressed ==
    /\ DOMAIN outbox' = DOMAIN outbox
    /\ \A m \in DOMAIN outbox : outbox'[m].to = outbox[m].to /\ outbox'[m].template = outbox[m].template

LEMMA MailTypes ==
  ASSUME MailTypeOK
  PROVE  /\ Len(outbox) \in Nat /\ DOMAIN outbox = 1..Len(outbox) /\ DOMAIN sent = DOMAIN outbox
         /\ \A m \in DOMAIN outbox : outbox[m] \in Mail /\ sent[m] \in Nat
         /\ \A w \in Mailers : mailer[w] \in Mailer
         /\ mailFaults \in Nat
<1>1. Len(outbox) \in Nat /\ outbox \in [1..Len(outbox) -> Mail] /\ DOMAIN outbox = 1..Len(outbox)
  BY LenProperties DEF MailTypeOK
<1>2. sent \in [1..Len(sent) -> Nat] /\ DOMAIN sent = 1..Len(sent)
  BY LenProperties DEF MailTypeOK
<1> QED
  BY <1>1, <1>2, MailAssumption DEF MailTypeOK

\* A sequence rewritten element by element.
LEMMA Rewritten ==
  ASSUME NEW S, NEW s \in Seq(S), NEW z, DOMAIN z = DOMAIN s, z = [i \in DOMAIN z |-> z[i]],
         \A i \in DOMAIN s : z[i] \in S
  PROVE  z \in Seq(S) /\ Len(z) = Len(s)
<1>1. Len(s) \in Nat /\ DOMAIN s = 1..Len(s)
  BY LenProperties
<1>2. z \in [1..Len(s) -> S]
  BY <1>1
<1>3. z \in Seq(S)
  BY <1>1, <1>2, SeqDef
<1>4. DOMAIN z = 1..Len(z) /\ Len(z) \in Nat
  BY <1>3, LenProperties
<1> QED
  BY <1>1, <1>3, <1>4

LEMMA CarriersFinite ==
  ASSUME NEW m
  PROVE  /\ IsFiniteSet(Carriers(m)) /\ Cardinality(Carriers(m)) \in Nat
         /\ IsFiniteSet(Carriers(m)') /\ Cardinality(Carriers(m)') \in Nat
<1>1. Carriers(m) \subseteq Mailers /\ Carriers(m)' \subseteq Mailers
  BY DEF Carriers
<1>2. IsFiniteSet(Mailers)
  BY MailAssumption
<1> QED
  BY <1>1, <1>2, FS_Subset, FS_CardinalityType

\* One replica moves: who carries m changes by that replica only.
LEMMA Recount ==
  ASSUME MailTypeOK, NEW w \in Mailers, NEW k, mailer' = [mailer EXCEPT ![w] = k], NEW m
  PROVE  Cardinality(Carriers(m)') + One(Carries(mailer[w], m)) = Cardinality(Carriers(m)) + One(Carries(k, m))
<1> DEFINE S == Carriers(m) \ {w}
<1>1. mailer'[w] = k /\ \A v \in Mailers : v # w => mailer'[v] = mailer[v]
  BY DEF MailTypeOK
<1>2. IsFiniteSet(S) /\ Cardinality(S) + One(Carries(mailer[w], m)) = Cardinality(Carriers(m))
      /\ Cardinality(S) \in Nat
  <2>1. w \in Carriers(m) <=> Carries(mailer[w], m)
    BY DEF Carriers
  <2>2. IsFiniteSet(S) /\ Cardinality(S) = IF w \in Carriers(m) THEN Cardinality(Carriers(m)) - 1 ELSE Cardinality(Carriers(m))
    BY CarriersFinite, FS_RemoveElement
  <2> QED
    BY <2>1, <2>2, CarriersFinite, FS_CardinalityType DEF One
<1>3. Cardinality(Carriers(m)') = Cardinality(S) + One(Carries(k, m))
  <2>1. CASE Carries(k, m)
    <3>1. Carriers(m)' = S \cup {w}
      BY <1>1, <2>1 DEF Carriers, Carries
    <3>2. Cardinality(S \cup {w}) = Cardinality(S) + 1
      BY <1>2, FS_AddElement
    <3> QED
      BY <2>1, <3>1, <3>2 DEF One
  <2>2. CASE ~Carries(k, m)
    <3>1. Carriers(m)' = S
      BY <1>1, <2>2 DEF Carriers, Carries
    <3> QED
      BY <1>2, <2>2, <3>1 DEF One
  <2> QED
    BY <2>1, <2>2
<1>4. One(Carries(k, m)) \in Nat /\ One(Carries(mailer[w], m)) \in Nat /\ Cardinality(Carriers(m)) \in Nat
  BY CarriersFinite DEF One
<1> QED
  BY <1>2, <1>3, <1>4

\* No message gains more chances to be sent than there are new faults.
NoneGained(w, k) ==
    \A m \in DOMAIN sent :
        sent'[m] + One(Carries(k, m)) + One(Waiting(m)') + mailFaults
          <= sent[m] + One(Carries(mailer[w], m)) + One(Waiting(m)) + mailFaults'

\* One replica moves, and no message gains more chances to be sent than there are new faults.
LEMMA DeliveryStep ==
  ASSUME MailOK, NEW w \in Mailers, NEW k \in Mailer, mailer' = [mailer EXCEPT ![w] = k],
         k.pc = "idle" <=> k.item = 0, k.item \in 0..Len(outbox),
         outbox' \in Seq(Mail), Len(outbox') = Len(outbox),
         sent' \in Seq(Nat), Len(sent') = Len(sent),
         UNCHANGED <<suppressed, mailEvents>>, mailFaults' \in 0..MaxMailFaults,
         NoneGained(w, k)
  PROVE  MailOK'
<1>1. MailTypeOK /\ Items /\ Deliveries
  BY DEF MailOK
<1>2. mailer' \in [Mailers -> Mailer] /\ mailer'[w] = k /\ \A v \in Mailers : v # w => mailer'[v] = mailer[v]
  BY <1>1 DEF MailTypeOK
<1>3. MailTypeOK'
  BY <1>1, <1>2 DEF MailTypeOK
<1>4. Items'
  BY <1>1, <1>2 DEF Items
<1>5. Deliveries'
  <2> SUFFICES ASSUME NEW m \in DOMAIN sent'
               PROVE  sent'[m] + Cardinality(Carriers(m)') + One(Waiting(m)') <= 1 + mailFaults'
    BY DEF Deliveries
  <2>1. m \in DOMAIN sent /\ sent[m] \in Nat /\ sent'[m] \in Nat /\ mailFaults \in Nat /\ mailFaults' \in Nat
    <3>1. DOMAIN sent' = 1..Len(sent') /\ DOMAIN sent = 1..Len(sent) /\ sent \in Seq(Nat)
      BY <1>1, LenProperties DEF MailTypeOK
    <3> QED
      BY <1>1, <3>1, ElementOfSeq, MailAssumption DEF MailTypeOK
  <2>2. Cardinality(Carriers(m)') + One(Carries(mailer[w], m)) = Cardinality(Carriers(m)) + One(Carries(k, m))
    BY <1>1, Recount
  <2>3. sent[m] + Cardinality(Carriers(m)) + One(Waiting(m)) <= 1 + mailFaults
    BY <1>1, <2>1 DEF Deliveries
  <2>4. sent'[m] + One(Carries(k, m)) + One(Waiting(m)') + mailFaults
              <= sent[m] + One(Carries(mailer[w], m)) + One(Waiting(m)) + mailFaults'
    BY <2>1 DEF NoneGained
  <2>5. /\ One(Carries(k, m)) \in Nat /\ One(Waiting(m)') \in Nat /\ One(Carries(mailer[w], m)) \in Nat
        /\ One(Waiting(m)) \in Nat
    BY DEF One
  <2>6. Cardinality(Carriers(m)) \in Nat /\ Cardinality(Carriers(m)') \in Nat
    BY CarriersFinite
  <2> DEFINE a == One(Carries(k, m))
             b == One(Carries(mailer[w], m))
             c == One(Waiting(m))
             d == One(Waiting(m)')
             e == Cardinality(Carriers(m))
             f == Cardinality(Carriers(m)')
             x == sent[m]
             y == sent'[m]
             g == mailFaults
             h == mailFaults'
  <2>7. /\ f + b = e + a /\ x + e + c <= 1 + g /\ y + a + d + g <= x + b + c + h
        /\ a \in Nat /\ b \in Nat /\ c \in Nat /\ d \in Nat /\ e \in Nat /\ f \in Nat
        /\ x \in Nat /\ y \in Nat /\ g \in Nat /\ h \in Nat
    BY <2>1, <2>2, <2>3, <2>4, <2>5, <2>6
  <2> HIDE DEF a, b, c, d, e, f, x, y, g, h
  <2>8. y + f + d <= 1 + h
    BY <2>7
  <2> QED
    BY <2>8 DEF d, f, y, h
<1> QED
  BY <1>3, <1>4, <1>5 DEF MailOK

\* Rows change, the replicas do not, and nothing waits that did not wait before.
LEMMA QuietStep ==
  ASSUME MailOK, outbox' \in Seq(Mail), Len(outbox') = Len(outbox),
         UNCHANGED <<mailer, sent, mailFaults>>, suppressed' \subseteq Recipients,
         mailEvents' \subseteq (1..MaxMails) \X EventTypes,
         \A m \in DOMAIN outbox : Waiting(m)' => Waiting(m)
  PROVE  MailOK'
<1>1. MailTypeOK' /\ Items'
  BY DEF MailOK, MailTypeOK, Items
<1>2. DOMAIN sent = DOMAIN outbox /\ sent' = sent /\ mailFaults' = mailFaults
  BY MailTypes DEF MailOK
<1>3. ASSUME NEW m \in DOMAIN sent
      PROVE  sent[m] + Cardinality(Carriers(m)') + One(Waiting(m)') <= 1 + mailFaults
  <2>1. Carriers(m)' = Carriers(m)
    BY DEF Carriers
  <2>2. sent[m] + Cardinality(Carriers(m)) + One(Waiting(m)) <= 1 + mailFaults
    BY DEF MailOK, Deliveries
  <2>3. sent[m] \in Nat /\ mailFaults \in Nat /\ Cardinality(Carriers(m)) \in Nat
    BY <1>2, MailTypes, CarriersFinite DEF MailOK
  <2>4. One(Waiting(m)) \in Nat /\ One(Waiting(m)') \in Nat /\ One(Waiting(m)') <= One(Waiting(m))
    BY <1>2 DEF One
  <2> HIDE DEF One
  <2> QED
    BY <2>1, <2>2, <2>3, <2>4
<1>4. Deliveries'
  BY <1>2, <1>3 DEF Deliveries
<1> QED
  BY <1>1, <1>4 DEF MailOK

LEMMA QueueStep ==
  ASSUME MailOK, NEW to \in Recipients, NEW template \in Templates, Len(outbox) < MaxMails,
         outbox' = Queued(outbox, to, template), sent' = Append(sent, 0),
         UNCHANGED <<mailer, suppressed, mailEvents, mailFaults>>
  PROVE  /\ MailOK'
         /\ DOMAIN outbox' = DOMAIN outbox \cup {Len(outbox) + 1} /\ Len(outbox) + 1 \notin DOMAIN outbox
         /\ \A m \in DOMAIN outbox : outbox'[m] = outbox[m]
         /\ outbox'[Len(outbox) + 1].to = to /\ outbox'[Len(outbox) + 1].template = template
         /\ Len(outbox) + 1 \in 1..MaxMails
<1> DEFINE n == Len(outbox) + 1
           q == [to |-> to, template |-> template, attempts |-> 0, messageId |-> FALSE, status |-> "PENDING"]
<1>1. q \in Mail
  BY DEF Mail
<1>2. MailTypeOK /\ Items /\ Deliveries /\ outbox \in Seq(Mail) /\ sent \in Seq(Nat) /\ Len(sent) = Len(outbox)
  BY DEF MailOK, MailTypeOK
<1>3. /\ outbox' \in Seq(Mail) /\ Len(outbox') = n /\ outbox'[n] = q
      /\ \A i \in 1..Len(outbox) : outbox'[i] = outbox[i]
  BY <1>1, <1>2, AppendProperties DEF Queued
<1>4. /\ sent' \in Seq(Nat) /\ Len(sent') = n /\ sent'[n] = 0
      /\ \A i \in 1..Len(outbox) : sent'[i] = sent[i]
  BY <1>2, AppendProperties
<1>5. /\ Len(outbox) \in Nat /\ DOMAIN outbox = 1..Len(outbox) /\ DOMAIN sent = 1..Len(outbox)
      /\ mailFaults \in Nat /\ \A m \in DOMAIN outbox : sent[m] \in Nat
  BY <1>2, MailTypes
<1>6. DOMAIN outbox' = 1..n /\ DOMAIN sent' = 1..n
  BY <1>3, <1>4, LenProperties
<1> HIDE DEF q
<1>7. 1..n = (1..Len(outbox)) \cup {n} /\ n \notin 1..Len(outbox) /\ n \in Nat /\ n <= MaxMails
  BY <1>5, MailAssumption
<1>8. MailTypeOK'
  BY <1>2, <1>3, <1>4, <1>7 DEF MailTypeOK
<1>9. Items'
  BY <1>2, <1>3, <1>5 DEF Items
<1>10. ASSUME NEW m \in DOMAIN sent'
       PROVE  sent'[m] + Cardinality(Carriers(m)') + One(Waiting(m)') <= 1 + mailFaults'
  <2>1. Carriers(m)' = Carriers(m)
    BY DEF Carriers
  <2>2. CASE m \in DOMAIN sent
    <3>1. sent'[m] = sent[m] /\ (Waiting(m)' <=> Waiting(m))
      BY <1>3, <1>4, <1>5, <2>2 DEF Waiting
    <3>2. One(Waiting(m)') = One(Waiting(m))
      BY <3>1 DEF One
    <3> HIDE DEF One
    <3> QED
      BY <1>2, <2>1, <2>2, <3>1, <3>2 DEF Deliveries
  <2>3. CASE m = n
    <3>1. Carriers(m) = {}
      BY <1>2, <1>5, <2>3 DEF Carriers, Carries, Items
    <3>2. Cardinality(Carriers(m)') = 0
      BY <2>1, <3>1, FS_EmptySet
    <3>3. One(Waiting(m)') \in 0..1 /\ sent'[m] = 0 /\ mailFaults' \in Nat
      BY <1>4, <1>5, <2>3 DEF One
    <3> HIDE DEF One
    <3> QED
      BY <3>2, <3>3
  <2> QED
    BY <1>5, <1>6, <1>7, <2>2, <2>3
<1>11. Deliveries'
  BY <1>10 DEF Deliveries
<1> QED
  BY <1>1, <1>3, <1>5, <1>6, <1>7, <1>8, <1>9, <1>11 DEF MailOK, q

\* One row changes; who it is for does not.
LEMMA RowChanged ==
  ASSUME MailTypeOK, NEW m \in DOMAIN outbox, NEW r \in Mail, r.to = outbox[m].to,
         r.template = outbox[m].template, outbox' = [outbox EXCEPT ![m] = r]
  PROVE  /\ outbox' \in Seq(Mail) /\ Len(outbox') = Len(outbox) /\ Addressed
         /\ outbox'[m] = r /\ \A i \in DOMAIN outbox : i # m => outbox'[i] = outbox[i]
<1>1. outbox \in Seq(Mail) /\ DOMAIN outbox = 1..Len(outbox)
  BY MailTypes DEF MailTypeOK
<1>2. outbox' \in Seq(Mail) /\ Len(outbox') = Len(outbox)
  BY <1>1, ExceptSeq
<1>3. outbox'[m] = r /\ \A i \in DOMAIN outbox : i # m => outbox'[i] = outbox[i]
  BY <1>1, ExceptSeq
<1>4. DOMAIN outbox' = DOMAIN outbox
  BY <1>1
<1> QED
  BY <1>2, <1>3, <1>4 DEF Addressed

LEMMA MarkedRow ==
  ASSUME MailTypeOK, NEW m \in DOMAIN outbox, NEW s \in MailStatus, outbox' = SetMailStatus(outbox, m, s)
  PROVE  /\ outbox' \in Seq(Mail) /\ Len(outbox') = Len(outbox) /\ Addressed
         /\ outbox'[m].status \in {s, "ROW_DELETED"}
         /\ \A i \in DOMAIN outbox : i # m => outbox'[i] = outbox[i]
<1>1. outbox \in Seq(Mail) /\ outbox[m] \in Mail
  BY MailTypes DEF MailTypeOK
<1>2. CASE outbox[m].status = "ROW_DELETED"
  BY <1>1, <1>2 DEF SetMailStatus, Addressed
<1>3. CASE outbox[m].status # "ROW_DELETED"
  <2> DEFINE r == [outbox[m] EXCEPT !.status = s]
  <2>1. r \in Mail /\ r.to = outbox[m].to /\ r.template = outbox[m].template /\ r.status = s
    BY <1>1 DEF Mail, MailStatus
  <2>2. outbox' = [outbox EXCEPT ![m] = r]
    BY <1>3 DEF SetMailStatus
  <2> HIDE DEF r
  <2> QED
    BY <2>1, <2>2, RowChanged
<1> QED
  BY <1>2, <1>3

LEMMA ReplicaFacts ==
  ASSUME MailOK, NEW w \in Mailers
  PROVE  /\ MailTypeOK /\ Items /\ mailer[w] \in Mailer
         /\ mailer[w].pc # "idle" => mailer[w].item \in DOMAIN outbox
         /\ mailer[w].item \in 0..Len(outbox)
         /\ outbox \in Seq(Mail) /\ sent \in Seq(Nat) /\ DOMAIN sent = DOMAIN outbox /\ DOMAIN outbox = 1..Len(outbox)
         /\ mailFaults \in 0..MaxMailFaults /\ mailFaults \in Nat /\ Len(outbox) \in Nat
         /\ \A m \in DOMAIN outbox : outbox[m] \in Mail /\ sent[m] \in Nat
  BY MailTypes DEF MailOK, MailTypeOK, Items

LEMMA IdleFacts == Idle \in Mailer /\ Idle.pc = "idle" /\ Idle.item = 0 /\ \A m : One(Carries(Idle, m)) = 0
  BY DEF Idle, Mailer, One, Carries

LEMMA ClaimStep ==
  ASSUME MailOK, NEW w \in Mailers, NEW m \in DOMAIN outbox,
         NEW overdue \in SUBSET {i \in DOMAIN outbox : outbox[i].status = "PROCESSING"}, Claim(w, m, overdue)
  PROVE  MailOK' /\ Addressed
<1> DEFINE k == [pc |-> "check", item |-> m, attempts |-> outbox[m].attempts]
           F == Cardinality(Overtaken(overdue))
<1>1. /\ MailTypeOK /\ Items /\ mailer[w] \in Mailer
      /\ mailer[w].item \in 0..Len(outbox)
      /\ outbox \in Seq(Mail) /\ sent \in Seq(Nat) /\ DOMAIN sent = DOMAIN outbox /\ DOMAIN outbox = 1..Len(outbox)
      /\ mailFaults \in 0..MaxMailFaults /\ mailFaults \in Nat /\ Len(outbox) \in Nat
      /\ \A i \in DOMAIN outbox : outbox[i] \in Mail /\ sent[i] \in Nat
  BY ReplicaFacts
<1>2. /\ mailer[w].pc = "idle" /\ mailer' = [mailer EXCEPT ![w] = k]
      /\ outbox[m].status = "PENDING" \/ m \in overdue
      /\ mailFaults + F <= MaxMailFaults /\ mailFaults' = mailFaults + F
      /\ UNCHANGED <<suppressed, mailEvents, sent>>
  BY DEF Claim
<1>7. outbox' = [i \in DOMAIN outbox |->
                    IF i = m THEN [outbox[i] EXCEPT !.status = "PROCESSING", !.attempts = @ + 1]
                    ELSE IF i \in overdue THEN [outbox[i] EXCEPT !.status = "PENDING"] ELSE outbox[i]]
  BY DEF Claim
<1>3. mailer[w].item = 0
  BY <1>1, <1>2 DEF Items
<1>4. k \in Mailer /\ k.pc = "check" /\ k.item = m
  BY <1>1 DEF Mailer, Mail
<1>5. F \in Nat /\ \A i \in overdue : (\E v \in Mailers : mailer[v].item = i) => F >= 1
  <2>1. IsFiniteSet(Overtaken(overdue))
    <3>1. Overtaken(overdue) \subseteq 1..Len(outbox)
      BY <1>1 DEF Overtaken
    <3> QED
      <4>1. IsFiniteSet(1..Len(outbox))
        <5>1. Len(outbox) \in Int
          BY <1>1
        <5> QED
          BY <5>1, FS_Interval
      <4> QED
        BY <3>1, <4>1, FS_Subset
  <2>2. F \in Nat /\ (F = 0 <=> Overtaken(overdue) = {})
    BY <2>1, FS_CardinalityType, FS_EmptySet
  <2>3. \A i \in overdue : (\E v \in Mailers : mailer[v].item = i) => i \in Overtaken(overdue)
    BY DEF Overtaken
  <2> QED
    BY <2>2, <2>3
<1>6. /\ DOMAIN outbox' = DOMAIN outbox /\ outbox' = [i \in DOMAIN outbox' |-> outbox'[i]]
      /\ outbox'[m].status = "PROCESSING"
      /\ \A i \in DOMAIN outbox : /\ outbox'[i] \in Mail
                                 /\ outbox'[i].to = outbox[i].to /\ outbox'[i].template = outbox[i].template
                                 /\ (i # m /\ i \notin overdue => outbox'[i] = outbox[i])
  <2>1. \A r \in Mail :
           /\ [r EXCEPT !.status = "PENDING"] \in Mail /\ [r EXCEPT !.status = "PENDING"].to = r.to
           /\ [r EXCEPT !.status = "PENDING"].template = r.template
    BY DEF Mail
  <2> DEFINE Up(r, n) == [r EXCEPT !.status = "PROCESSING", !.attempts = n]
  <2>2. \A r \in Mail : \A n \in Nat :
           /\ Up(r, n) \in Mail /\ Up(r, n).to = r.to /\ Up(r, n).template = r.template
           /\ Up(r, n).status = "PROCESSING"
    BY DEF Mail
  <2>3. DOMAIN outbox' = DOMAIN outbox /\ outbox' = [i \in DOMAIN outbox' |-> outbox'[i]]
    BY <1>7
  <2>4. \A i \in DOMAIN outbox : outbox[i].attempts + 1 \in Nat
    BY <1>1 DEF Mail
  <2>5. outbox'[m] = [outbox[m] EXCEPT !.status = "PROCESSING", !.attempts = outbox[m].attempts + 1]
    BY <1>7
  <2>6. \A i \in DOMAIN outbox : i # m => outbox'[i] = IF i \in overdue THEN [outbox[i] EXCEPT !.status = "PENDING"] ELSE outbox[i]
    BY <1>7
  <2>7. outbox'[m] \in Mail /\ outbox'[m].to = outbox[m].to /\ outbox'[m].template = outbox[m].template
        /\ outbox'[m].status = "PROCESSING"
    <3> DEFINE g == outbox[m]
               n == outbox[m].attempts + 1
    <3>1. g \in Mail /\ n \in Nat
      BY <1>1, <2>4
    <3>2. outbox'[m] = Up(g, n)
      BY <2>5
    <3>3. SUFFICES outbox'[m] \in Mail /\ outbox'[m].to = g.to /\ outbox'[m].template = g.template
                   /\ outbox'[m].status = "PROCESSING"
      OBVIOUS
    <3> HIDE DEF g, n, Up
    <3>4. /\ Up(g, n) \in Mail /\ Up(g, n).to = g.to /\ Up(g, n).template = g.template
          /\ Up(g, n).status = "PROCESSING"
      BY <2>2, <3>1
    <3> QED
      BY <3>2, <3>4
  <2>8. \A i \in DOMAIN outbox : i # m =>
           /\ outbox'[i] \in Mail
           /\ outbox'[i].to = outbox[i].to /\ outbox'[i].template = outbox[i].template
           /\ (i \notin overdue => outbox'[i] = outbox[i])
    BY <1>1, <2>1, <2>6
  <2> QED
    BY <2>3, <2>7, <2>8
<1> HIDE DEF k, F
<1>8. outbox' \in Seq(Mail) /\ Len(outbox') = Len(outbox)
  BY <1>1, <1>6, Rewritten
<1>9. Addressed
  BY <1>6 DEF Addressed
<1>14. mailFaults \in Nat /\ mailFaults' = mailFaults + F /\ F \in Nat /\ mailFaults + F <= MaxMailFaults
  BY <1>1, <1>2, <1>5
<1>10. NoneGained(w, k)
  <2> SUFFICES ASSUME NEW i \in DOMAIN sent
               PROVE  sent'[i] + One(Carries(k, i)) + One(Waiting(i)') + mailFaults
                        <= sent[i] + One(Carries(mailer[w], i)) + One(Waiting(i)) + mailFaults'
    BY DEF NoneGained
  <2>1. mailer'[w] = k /\ \A v \in Mailers : v # w => mailer'[v] = mailer[v]
    BY <1>1, <1>2 DEF MailTypeOK
  <2>2. One(Carries(mailer[w], i)) = 0 /\ sent'[i] = sent[i] /\ sent[i] \in Nat /\ i \in DOMAIN outbox /\ i # 0
    <3>1. One(Carries(mailer[w], i)) = 0 /\ sent' = sent
      BY <1>2 DEF One, Carries
    <3>2. sent[i] \in Nat /\ i \in DOMAIN outbox /\ i \in 1..Len(outbox)
      BY <1>1
    <3> QED
      BY <1>1, <3>1, <3>2
  <2>3. One(Waiting(i)) \in 0..1 /\ One(Waiting(i)') \in 0..1 /\ One(Carries(k, i)) \in 0..1
    BY DEF One
  <2>4. (\E v \in Mailers : mailer[v].item = i) \/ outbox[i].status # "PROCESSING" \/ One(Waiting(i)) = 1
    BY DEF One, Waiting
  <2>5. CASE i = m
    <3>1. One(Waiting(i)') = 0
      BY <1>4, <1>6, <2>1, <2>5 DEF Waiting, One
    <3>2. One(Waiting(i)) = 1 \/ F >= 1
      <4>1. CASE outbox[m].status = "PENDING"
        BY <2>5, <4>1 DEF Waiting, One
      <4>2. CASE m \in overdue
        BY <1>5, <2>4, <2>5, <4>2
      <4> QED
        BY <1>2, <4>1, <4>2
    <3> HIDE DEF One
    <3> QED
      BY <1>14, <2>2, <2>3, <3>1, <3>2
  <2>6. CASE i # m
    <3>1. One(Carries(k, i)) = 0
      BY <1>4, <2>6 DEF One, Carries
    <3>2. One(Waiting(i)') <= One(Waiting(i)) \/ F >= 1
      <4>1. CASE i \in overdue
        <5>1. One(Waiting(i)) = 1 \/ F >= 1
          BY <1>5, <2>4, <4>1
        <5> QED
          BY <2>3, <5>1
      <4>2. CASE i \notin overdue
        <5>1. outbox'[i] = outbox[i]
          BY <1>6, <2>2, <2>6, <4>2
        <5>2. Waiting(i)' => Waiting(i)
          BY <1>3, <2>1, <2>2, <5>1 DEF Waiting
        <5> QED
          BY <5>2 DEF One
      <4> QED
        BY <4>1, <4>2
    <3> HIDE DEF One
    <3> QED
      BY <1>14, <2>2, <2>3, <3>1, <3>2
  <2> QED
    BY <2>5, <2>6
<1>11. mailFaults' \in 0..MaxMailFaults
  BY <1>14, MailAssumption
<1>12. sent' \in Seq(Nat) /\ Len(sent') = Len(sent) /\ k.item \in 0..Len(outbox) /\ (k.pc = "idle" <=> k.item = 0)
  <2>1. sent' = sent /\ sent \in Seq(Nat) /\ m \in 1..Len(outbox) /\ Len(outbox) \in Nat
    BY <1>1, <1>2
  <2> QED
    BY <1>4, <2>1
<1>13. MailOK'
  BY <1>2, <1>4, <1>8, <1>10, <1>11, <1>12, DeliveryStep
<1> QED
  BY <1>9, <1>13

\* A replica ends a delivery: nothing waits that did not, or there was a fault.
LEMMA LeaveStep ==
  ASSUME MailOK, NEW w \in Mailers, mailer[w].pc # "idle", mailer' = [mailer EXCEPT ![w] = Idle],
         outbox' \in Seq(Mail), Len(outbox') = Len(outbox),
         \A i \in DOMAIN outbox : i # mailer[w].item => outbox'[i] = outbox[i],
         UNCHANGED <<suppressed, mailEvents, sent>>,
         \/ /\ mailFaults' = mailFaults
            /\ outbox'[mailer[w].item].status \notin {"PENDING", "DEAD_LETTER", "PROCESSING"}
         \/ mailFaults < MaxMailFaults /\ mailFaults' = mailFaults + 1
  PROVE  MailOK'
<1> DEFINE m == mailer[w].item
<1>1. /\ MailTypeOK /\ m \in DOMAIN outbox /\ sent \in Seq(Nat) /\ DOMAIN sent = DOMAIN outbox
      /\ mailFaults \in 0..MaxMailFaults /\ mailFaults \in Nat
      /\ \A i \in DOMAIN outbox : sent[i] \in Nat
  BY ReplicaFacts
<1>2. mailer'[w] = Idle /\ \A v \in Mailers : v # w => mailer'[v] = mailer[v]
  BY <1>1 DEF MailTypeOK
<1>3. mailFaults' \in 0..MaxMailFaults /\ mailFaults' \in Nat /\ mailFaults <= mailFaults'
  BY <1>1, MailAssumption
<1>4. NoneGained(w, Idle)
  <2> SUFFICES ASSUME NEW i \in DOMAIN sent
               PROVE  sent'[i] + One(Carries(Idle, i)) + One(Waiting(i)') + mailFaults
                        <= sent[i] + One(Carries(mailer[w], i)) + One(Waiting(i)) + mailFaults'
    BY DEF NoneGained
  <2>1. One(Carries(Idle, i)) = 0 /\ sent'[i] = sent[i] /\ sent[i] \in Nat /\ i \in DOMAIN outbox
    BY <1>1, IdleFacts
  <2>2. One(Waiting(i)) \in 0..1 /\ One(Waiting(i)') \in 0..1 /\ One(Carries(mailer[w], i)) \in 0..1
    BY DEF One
  <2>3. One(Waiting(i)') <= One(Waiting(i)) \/ mailFaults' = mailFaults + 1
    <3>1. CASE i # m
      <4>1. outbox'[i] = outbox[i]
        BY <2>1, <3>1
      <4>2. Waiting(i)' => Waiting(i)
        BY <1>2, <3>1, <4>1 DEF Waiting
      <4> QED
        BY <4>2 DEF One
    <3>2. CASE i = m /\ outbox'[m].status \notin {"PENDING", "DEAD_LETTER", "PROCESSING"}
      <4>1. ~Waiting(i)'
        BY <3>2 DEF Waiting
      <4> QED
        BY <4>1 DEF One
    <3> QED
      BY <3>1, <3>2
  <2> HIDE DEF One
  <2> QED
    BY <1>1, <1>3, <2>1, <2>2, <2>3
<1>5. Idle \in Mailer /\ (Idle.pc = "idle" <=> Idle.item = 0) /\ Idle.item \in 0..Len(outbox)
  BY <1>1, IdleFacts, MailTypes
<1>6. sent' \in Seq(Nat) /\ Len(sent') = Len(sent)
  BY <1>1
<1> QED
  BY <1>3, <1>4, <1>5, <1>6, DeliveryStep

LEMMA CheckSuppressionStep ==
  ASSUME MailOK, NEW w \in Mailers, CheckSuppression(w)
  PROVE  MailOK' /\ Addressed
<1> DEFINE m == mailer[w].item
           k == [mailer[w] EXCEPT !.pc = "send"]
<1>1. /\ MailTypeOK /\ Items /\ mailer[w] \in Mailer /\ mailer[w].pc = "check" /\ m \in DOMAIN outbox
      /\ m \in 0..Len(outbox) /\ outbox \in Seq(Mail) /\ sent \in Seq(Nat)
      /\ mailFaults \in 0..MaxMailFaults
  BY ReplicaFacts DEF CheckSuppression
<1>2. UNCHANGED <<suppressed, mailEvents, sent, mailFaults>>
  BY DEF CheckSuppression
<1>3. CASE outbox' = SetMailStatus(outbox, m, "SUPPRESSED") /\ mailer' = [mailer EXCEPT ![w] = Idle]
  <2>1. /\ outbox' \in Seq(Mail) /\ Len(outbox') = Len(outbox) /\ Addressed
        /\ outbox'[m].status \in {"SUPPRESSED", "ROW_DELETED"}
        /\ \A i \in DOMAIN outbox : i # m => outbox'[i] = outbox[i]
    BY <1>1, <1>3, MarkedRow DEF MailStatus
  <2>2. outbox'[m].status \notin {"PENDING", "DEAD_LETTER", "PROCESSING"}
    BY <2>1
  <2> QED
    BY <1>1, <1>2, <1>3, <2>1, <2>2, LeaveStep
<1>4. CASE mailer' = [mailer EXCEPT ![w] = k] /\ UNCHANGED outbox
  <2>1. k \in Mailer /\ k.pc = "send" /\ k.item = m
    BY <1>1 DEF Mailer
  <2>2. m # 0
    BY <1>1 DEF Items
  <2> HIDE DEF k
  <2>3. \A i : Carries(k, i) <=> Carries(mailer[w], i)
    BY <1>1, <2>1 DEF Carries
  <2>4. \A i \in DOMAIN sent : Waiting(i)' <=> Waiting(i)
    BY <1>1, <1>4, <2>1 DEF Waiting, MailTypeOK
  <2>5. NoneGained(w, k)
    <3> SUFFICES ASSUME NEW i \in DOMAIN sent
                 PROVE  sent'[i] + One(Carries(k, i)) + One(Waiting(i)') + mailFaults
                          <= sent[i] + One(Carries(mailer[w], i)) + One(Waiting(i)) + mailFaults'
      BY DEF NoneGained
    <3>1. /\ One(Carries(k, i)) = One(Carries(mailer[w], i)) /\ One(Waiting(i)') = One(Waiting(i))
          /\ One(Waiting(i)) \in 0..1 /\ One(Carries(mailer[w], i)) \in 0..1
      BY <2>3, <2>4 DEF One
    <3>2. sent'[i] = sent[i] /\ sent[i] \in Nat /\ mailFaults' = mailFaults /\ mailFaults \in Nat
      BY <1>1, <1>2, MailTypes
    <3> HIDE DEF One
    <3> QED
      BY <3>1, <3>2
  <2>6. MailOK'
    BY <1>1, <1>2, <1>4, <2>1, <2>2, <2>5, DeliveryStep
  <2> QED
    BY <1>4, <2>6 DEF Addressed
<1> QED
  BY <1>3, <1>4 DEF CheckSuppression

LEMMA SendMailStep ==
  ASSUME MailOK, NEW w \in Mailers, SendMail(w)
  PROVE  MailOK' /\ Addressed
<1> DEFINE m == mailer[w].item
           k == [mailer[w] EXCEPT !.pc = "mark"]
<1>1. /\ MailTypeOK /\ Items /\ mailer[w] \in Mailer /\ mailer[w].pc = "send" /\ m \in DOMAIN outbox
      /\ m \in 0..Len(outbox) /\ outbox \in Seq(Mail) /\ sent \in Seq(Nat) /\ DOMAIN sent = DOMAIN outbox
      /\ mailFaults \in 0..MaxMailFaults /\ DOMAIN outbox = 1..Len(outbox)
  BY ReplicaFacts DEF SendMail
<1>2. /\ UNCHANGED <<outbox, suppressed, mailEvents, mailFaults>>
      /\ sent' = [sent EXCEPT ![m] = sent[m] + 1] /\ mailer' = [mailer EXCEPT ![w] = k]
  BY DEF SendMail
<1>3. k \in Mailer /\ k.pc = "mark" /\ k.item = m /\ m # 0
  BY <1>1 DEF Mailer, Items
<1> HIDE DEF k
<1>4. \A i : ~Carries(k, i) /\ (Carries(mailer[w], i) <=> i = m)
  BY <1>1, <1>3 DEF Carries
<1>5. \A i \in DOMAIN sent : Waiting(i)' <=> Waiting(i)
  BY <1>1, <1>2, <1>3 DEF Waiting, MailTypeOK
<1>6. sent' \in Seq(Nat) /\ Len(sent') = Len(sent) /\ sent'[m] = sent[m] + 1
      /\ \A i \in DOMAIN sent : i # m => sent'[i] = sent[i]
  <2>1. sent[m] + 1 \in Nat /\ m \in 1..Len(sent) /\ DOMAIN sent = 1..Len(sent)
    BY <1>1, MailTypes, LenProperties
  <2> QED
    BY <1>1, <1>2, <2>1, ExceptSeq
<1>7. NoneGained(w, k)
  <2> SUFFICES ASSUME NEW i \in DOMAIN sent
               PROVE  sent'[i] + One(Carries(k, i)) + One(Waiting(i)') + mailFaults
                        <= sent[i] + One(Carries(mailer[w], i)) + One(Waiting(i)) + mailFaults'
    BY DEF NoneGained
  <2>1. /\ One(Carries(k, i)) = 0 /\ One(Waiting(i)') = One(Waiting(i)) /\ One(Waiting(i)) \in 0..1
        /\ One(Carries(mailer[w], i)) = IF i = m THEN 1 ELSE 0
    BY <1>4, <1>5 DEF One
  <2>2. sent[i] \in Nat /\ mailFaults' = mailFaults /\ mailFaults \in Nat
    BY <1>1, <1>2, MailTypes
  <2>3. sent'[i] = sent[i] + (IF i = m THEN 1 ELSE 0)
    BY <1>6, <2>2
  <2> HIDE DEF One
  <2> QED
    BY <2>1, <2>2, <2>3
<1>8. MailOK'
  BY <1>1, <1>2, <1>3, <1>6, <1>7, DeliveryStep
<1> QED
  BY <1>2, <1>8 DEF Addressed

LEMMA MarkSentStep ==
  ASSUME MailOK, NEW w \in Mailers, MarkSent(w)
  PROVE  MailOK' /\ Addressed
<1> DEFINE m == mailer[w].item
           box == SetMailStatus(outbox, m, "SENT")
<1>1. /\ MailTypeOK /\ mailer[w].pc = "mark" /\ m \in DOMAIN outbox /\ outbox[m] \in Mail
      /\ mailer' = [mailer EXCEPT ![w] = Idle] /\ outbox \in Seq(Mail)
      /\ UNCHANGED <<suppressed, mailEvents, sent, mailFaults>>
      /\ outbox' = IF box = outbox THEN box ELSE [box EXCEPT ![m].messageId = TRUE]
  BY ReplicaFacts DEF MarkSent
<1>2. /\ outbox' \in Seq(Mail) /\ Len(outbox') = Len(outbox) /\ Addressed
      /\ outbox'[m].status \in {"SENT", "ROW_DELETED"}
      /\ \A i \in DOMAIN outbox : i # m => outbox'[i] = outbox[i]
  <2>1. CASE box = outbox
    <3>1. outbox' = box
      BY <1>1, <2>1
    <3> QED
      BY <1>1, <3>1, MarkedRow DEF MailStatus
  <2>2. CASE box # outbox
    <3> DEFINE r == [outbox[m] EXCEPT !.status = "SENT"]
               q == [r EXCEPT !.messageId = TRUE]
    <3>1. box = [outbox EXCEPT ![m] = r]
      BY <2>2 DEF SetMailStatus
    <3>2. box[m] = r
      BY <1>1, <3>1
    <3>3. outbox' = [outbox EXCEPT ![m] = q]
      BY <1>1, <2>2, <3>1, <3>2
    <3>4. r \in Mail /\ r.to = outbox[m].to /\ r.template = outbox[m].template /\ r.status = "SENT"
      BY <1>1 DEF Mail
    <3> HIDE DEF r
    <3>5. q \in Mail /\ q.to = r.to /\ q.template = r.template /\ q.status = r.status
      BY <3>4 DEF Mail
    <3> HIDE DEF q
    <3>6. q.to = outbox[m].to /\ q.template = outbox[m].template /\ q.status = "SENT"
      BY <3>4, <3>5
    <3>7. MailTypeOK /\ m \in DOMAIN outbox
      BY <1>1
    <3> HIDE DEF m
    <3>8. /\ outbox' \in Seq(Mail) /\ Len(outbox') = Len(outbox) /\ Addressed
          /\ outbox'[m] = q /\ \A i \in DOMAIN outbox : i # m => outbox'[i] = outbox[i]
      BY <3>3, <3>5, <3>6, <3>7, RowChanged
    <3> QED
      BY <3>6, <3>8
  <2> QED
    BY <2>1, <2>2
<1>3. outbox'[m].status \notin {"PENDING", "DEAD_LETTER", "PROCESSING"}
  BY <1>2
<1> QED
  BY <1>1, <1>2, <1>3, LeaveStep

LEMMA DeliveryEndsStep ==
  ASSUME MailOK, NEW w \in Mailers, DeliveryFails(w) \/ MailerCrash(w)
  PROVE  MailOK' /\ Addressed
<1> DEFINE m == mailer[w].item
<1>1. /\ MailTypeOK /\ mailer[w].pc # "idle" /\ m \in DOMAIN outbox /\ outbox \in Seq(Mail)
      /\ mailer' = [mailer EXCEPT ![w] = Idle] /\ UNCHANGED <<suppressed, mailEvents, sent>>
      /\ mailFaults < MaxMailFaults /\ mailFaults' = mailFaults + 1
  BY ReplicaFacts DEF DeliveryFails, MailerCrash
<1>2. PICK s \in {"DEAD_LETTER", "PENDING"} : outbox' = SetMailStatus(outbox, m, s) \/ outbox' = outbox
  BY DEF DeliveryFails, MailerCrash
<1>3. /\ outbox' \in Seq(Mail) /\ Len(outbox') = Len(outbox) /\ Addressed
      /\ \A i \in DOMAIN outbox : i # m => outbox'[i] = outbox[i]
  <2>1. CASE outbox' = outbox
    BY <1>1, <2>1 DEF Addressed
  <2>2. CASE outbox' = SetMailStatus(outbox, m, s)
    BY <1>1, <2>2, MarkedRow DEF MailStatus
  <2> QED
    BY <1>2, <2>1, <2>2
<1> QED
  BY <1>1, <1>3, LeaveStep

\* Events and administration.
LEMMA EventStep ==
  ASSUME MailOK, NEW m \in DOMAIN outbox,
         (\E type \in EventTypes : ProviderEvent(m, type)) \/ RetryDeadLetter(m) \/ CleanupMail(m)
  PROVE  MailOK' /\ Addressed
<1>1. /\ MailTypeOK /\ outbox \in Seq(Mail) /\ outbox[m] \in Mail /\ outbox[m].to \in Recipients
      /\ m \in 1..MaxMails /\ suppressed \subseteq Recipients
      /\ mailEvents \subseteq (1..MaxMails) \X EventTypes
  <2>1. outbox[m] \in Mail /\ m \in 1..Len(outbox) /\ Len(outbox) \in Nat
    BY MailTypes DEF MailOK
  <2>2. MailTypeOK /\ Len(outbox) <= MaxMails /\ MaxMails \in Nat
    BY MailAssumption DEF MailOK, MailTypeOK
  <2>3. m \in 1..MaxMails
    BY <2>1, <2>2
  <2> QED
    BY <2>1, <2>2, <2>3 DEF Mail, MailTypeOK
<1>2. UNCHANGED <<mailer, sent, mailFaults>>
  BY DEF ProviderEvent, RetryDeadLetter, CleanupMail
<1>3. suppressed' \subseteq Recipients /\ mailEvents' \subseteq (1..MaxMails) \X EventTypes
  <2>1. ASSUME NEW type \in EventTypes, ProviderEvent(m, type)
        PROVE  suppressed' \subseteq Recipients /\ mailEvents' \subseteq (1..MaxMails) \X EventTypes
    <3>1. mailEvents' = mailEvents \cup {<<m, type>>} /\ suppressed' \in {suppressed, suppressed \cup {outbox[m].to}}
      BY <2>1 DEF ProviderEvent
    <3>2. <<m, type>> \in (1..MaxMails) \X EventTypes
      BY <1>1
    <3> QED
      BY <1>1, <3>1, <3>2
  <2>2. CASE RetryDeadLetter(m) \/ CleanupMail(m)
    BY <1>1, <2>2 DEF RetryDeadLetter, CleanupMail
  <2> QED
    BY <2>1, <2>2
<1>4. PICK r : /\ outbox' = outbox \/ outbox' = [outbox EXCEPT ![m] = r]
               /\ r \in Mail /\ r.to = outbox[m].to /\ r.template = outbox[m].template
               /\ \/ r.status = outbox[m].status \/ r.status \in {"DELIVERED", "BOUNCED", "ROW_DELETED"}
                  \/ r.status = "PENDING" /\ outbox[m].status = "DEAD_LETTER"
  <2> DEFINE Moved(x) == [outbox[m] EXCEPT !.status = x]
             Fits(r) == /\ r \in Mail /\ r.to = outbox[m].to /\ r.template = outbox[m].template
                        /\ \/ r.status = outbox[m].status \/ r.status \in {"DELIVERED", "BOUNCED", "ROW_DELETED"}
                           \/ r.status = "PENDING" /\ outbox[m].status = "DEAD_LETTER"
  <2>1. \A x \in MailStatus : Moved(x) \in Mail /\ Moved(x).to = outbox[m].to
                              /\ Moved(x).template = outbox[m].template /\ Moved(x).status = x
    BY <1>1 DEF Mail, MailStatus
  <2>2. outbox[m].status \in MailStatus
    BY <1>1 DEF Mail, MailStatus
  <2>3. CASE \E type \in EventTypes : ProviderEvent(m, type)
    <3>1. \/ outbox' = outbox
          \/ outbox' = [outbox EXCEPT ![m] = Moved(IF outbox[m].status = "SENT" THEN "DELIVERED" ELSE outbox[m].status)]
          \/ outbox' = [outbox EXCEPT ![m] = Moved("BOUNCED")]
      BY <2>3 DEF ProviderEvent
    <3> HIDE DEF Moved
    <3>2. Fits(Moved("BOUNCED")) /\ Fits(Moved(IF outbox[m].status = "SENT" THEN "DELIVERED" ELSE outbox[m].status))
      BY <2>1, <2>2 DEF MailStatus
    <3> QED
      BY <3>1, <3>2
  <2>4. CASE RetryDeadLetter(m)
    <3> DEFINE r == [Moved("PENDING") EXCEPT !.attempts = 0]
    <3>1. outbox' = [outbox EXCEPT ![m] = r] /\ outbox[m].status = "DEAD_LETTER"
      BY <2>4 DEF RetryDeadLetter
    <3>2. Moved("PENDING") \in Mail /\ Moved("PENDING").to = outbox[m].to
          /\ Moved("PENDING").template = outbox[m].template /\ Moved("PENDING").status = "PENDING"
      BY <2>1 DEF MailStatus
    <3> HIDE DEF Moved
    <3>3. r \in Mail /\ r.to = Moved("PENDING").to /\ r.template = Moved("PENDING").template
          /\ r.status = Moved("PENDING").status
      BY <3>2 DEF Mail
    <3> QED
      BY <3>1, <3>2, <3>3
  <2>5. CASE CleanupMail(m)
    <3>1. outbox' = [outbox EXCEPT ![m] = Moved("ROW_DELETED")]
      BY <2>5 DEF CleanupMail
    <3> HIDE DEF Moved
    <3>2. Fits(Moved("ROW_DELETED"))
      BY <2>1 DEF MailStatus
    <3> QED
      BY <3>1, <3>2
  <2> QED
    BY <2>3, <2>4, <2>5
<1>5. /\ outbox' \in Seq(Mail) /\ Len(outbox') = Len(outbox) /\ Addressed
      /\ \A i \in DOMAIN outbox : Waiting(i)' => Waiting(i)
  <2>1. CASE outbox' = outbox
    BY <1>1, <1>2, <2>1 DEF Addressed, Waiting
  <2>2. CASE outbox' = [outbox EXCEPT ![m] = r]
    <3>1. /\ outbox' \in Seq(Mail) /\ Len(outbox') = Len(outbox) /\ Addressed
          /\ outbox'[m] = r /\ \A i \in DOMAIN outbox : i # m => outbox'[i] = outbox[i]
      BY <1>1, <1>4, <2>2, RowChanged
    <3>2. \A i \in DOMAIN outbox : Waiting(i)' => Waiting(i)
      BY <1>2, <1>4, <3>1 DEF Waiting
    <3> QED
      BY <3>1, <3>2
  <2> QED
    BY <1>4, <2>1, <2>2
<1> QED
  BY <1>2, <1>3, <1>5, QuietStep

\* Whatever the workers, the provider and the administrators do.
LEMMA MailNextStep ==
  ASSUME MailOK, MailNext
  PROVE  MailOK' /\ Addressed
<1>1. CASE MailerNext
  <2>1. ASSUME NEW w \in Mailers, NEW m \in DOMAIN outbox,
               NEW overdue \in SUBSET {i \in DOMAIN outbox : outbox[i].status = "PROCESSING"}, Claim(w, m, overdue)
        PROVE  MailOK' /\ Addressed
    BY <2>1, ClaimStep
  <2>2. ASSUME NEW w \in Mailers,
               CheckSuppression(w) \/ SendMail(w) \/ MarkSent(w) \/ DeliveryFails(w) \/ MailerCrash(w)
        PROVE  MailOK' /\ Addressed
    BY <2>2, CheckSuppressionStep, SendMailStep, MarkSentStep, DeliveryEndsStep
  <2> QED
    BY <1>1, <2>1, <2>2 DEF MailerNext
<1> QED
  BY <1>1, EventStep DEF MailNext

-----------------------------------------------------------------------------
(* Types of the other tables, and who changes what.                        *)

Types ==
    /\ users \in [Users -> [status : UserStatus, erased : BOOLEAN]]
    /\ orgs \in [Users -> {"NONE", "ACTIVE", "SUSPENDED", "CLOSED"}]
    /\ member \in [Users -> [Users -> Roles]]
    /\ inv \in [Users -> [Recipients -> Invitation]]
    /\ plan \in [Users -> Plans]
    /\ tok \in Seq(Token) /\ Len(tok) <= MaxTokens
    /\ live \subseteq DOMAIN outbox
    /\ inflight \subseteq Request
    /\ calls \in 0..MaxCalls
    /\ raced \in BOOLEAN
    /\ late \in [Users -> Nat]

Statuses == {"ACTIVE", "SUSPENDED"}
Queues(to, template) ==
    /\ Len(outbox) < MaxMails /\ outbox' = Queued(outbox, to, template) /\ sent' = Append(sent, 0)
    /\ UNCHANGED <<mailer, suppressed, mailEvents, mailFaults>>

RequestBegins(r) ==
    \/ \E u, o \in Users : (Login(u, o) \/ Switch(u, o)) /\ r = [op |-> "session", user |-> u, org |-> o]
    \/ \E t \in DOMAIN tok : Refresh(t) /\ r = [op |-> "refresh", token |-> t]
    \/ \E u \in Users : DeleteMe(u) /\ r = [op |-> "delete", user |-> u]
    \/ \E u \in Users : CancelDeletion(u) /\ r = [op |-> "cancelDelete", user |-> u]
    \/ \E o \in Users, e \in Recipients :
          Invite(o, e) /\ r = [op |-> "invite", org |-> o, email |-> e, seen |-> LiveInvitations(o)]
    \/ \E o, u \in Users : AcceptInvitation(o, u) /\ r = [op |-> "accept", org |-> o, user |-> u]

\* An invitation in flight goes on to its upsert.
Upserts(r, k) ==
    /\ InviteChecked(r) /\ inflight' = (inflight \ {r}) \cup {k}
    /\ \E c \in {"NONE"} \cup Plans :
          /\ k = [op |-> "upsert", org |-> r.org, email |-> r.email, checked |-> c]
          /\ c # "NONE" => c = plan[r.org] /\ ~QuotaLocked(r.org) /\ enforceMemberQuota(r.org, r.seen)

\* The user's acceptance commits.
Accepts(o, u) == \E r \in inflight : AcceptCommit(r) /\ r.org = o /\ r.user = u

UsersChange ==
    \/ \E u \in Users : Register(u) \/ Anonymize(u) \/ \E s \in Statuses : SetUserStatus(u, s)
    \/ \E m \in live : VerifyEmail(m)
    \/ \E r \in inflight : DeleteMeCommit(r) \/ CancelDeletionCommit(r)
OrgsChange == \E o \in Users : Register(o) \/ Anonymize(o) \/ \E s \in Statuses : SetOrganizationStatus(o, s)
MembersChange ==
    \/ \E r \in inflight : AcceptCommit(r)
    \/ \E u \in Users : \/ Register(u) \/ Anonymize(u)
                        \/ \E o \in Users : \/ RemoveMember(o, u)
                                            \/ \E role \in InvitationRoles : PatchMember(o, u, role)
InvChange ==
    \/ \E r \in inflight : InviteCommit(r) \/ AcceptCommit(r)
    \/ \E o \in Users, e \in Recipients : RevokeInvitation(o, e) \/ ExpireInvitation(o, e)
TokChange ==
    \/ \E r \in inflight : SaveRefresh(r) \/ RefreshCommit(r) \/ DeleteMeCommit(r)
    \/ \E m \in live : ResetPassword(m)
    \/ \E t \in DOMAIN tok : RefreshReused(t) \/ Logout(t) \/ ExpireToken(t) \/ CleanupToken(t)
    \/ \E u \in Users : \/ Anonymize(u) \/ RevokeSessions(u)
                        \/ \E s \in Statuses : SetUserStatus(u, s) \/ SetOrganizationStatus(u, s)
                        \/ \E o \in Users : RemoveMember(o, u) \/ \E role \in InvitationRoles : PatchMember(o, u, role)
LiveChange ==
    \/ \E u \in Users : Register(u) \/ ResendVerification(u) \/ ForgotPassword(u) \/ Anonymize(u)
    \/ \E m \in live : VerifyEmail(m) \/ ResetPassword(m) \/ ExpireAccountToken(m)
MailChange ==
    \/ \E u \in Users : Register(u) \/ ResendVerification(u) \/ ForgotPassword(u) \/ Anonymize(u)
    \/ \E r \in inflight : InviteCommit(r)
    \/ MailNext
InflightChange == (\E r : RequestBegins(r)) \/ \E r \in inflight : RequestNext(r)
RacedChange ==
    \/ \E r \in inflight : DeleteMeCommit(r) \/ AcceptCommit(r)
    \/ \E o \in Users : \E s \in Statuses : SetOrganizationStatus(o, s)
PlanChange == \E o \in Users : \E p \in Plans : ChangePlan(o, p)
LateChange == \E r \in inflight : InviteCommit(r) \/ AcceptCommit(r)

Framed ==
    /\ UNCHANGED users \/ UsersChange
    /\ UNCHANGED orgs \/ OrgsChange
    /\ UNCHANGED member \/ MembersChange
    /\ UNCHANGED inv \/ InvChange
    /\ UNCHANGED tok \/ TokChange
    /\ UNCHANGED live \/ LiveChange
    /\ UNCHANGED mailVars \/ MailChange
    /\ UNCHANGED inflight \/ InflightChange
    /\ UNCHANGED raced \/ RacedChange
    /\ UNCHANGED plan \/ PlanChange
    /\ UNCHANGED late \/ LateChange
    /\ UNCHANGED calls \/ Counted

LEMMA Frame ==
  ASSUME Next
  PROVE  Framed
<1> USE DEF Framed, UsersChange, OrgsChange, MembersChange, InvChange, TokChange, LiveChange, MailChange,
            InflightChange, RacedChange, PlanChange, LateChange
<1>1. ASSUME NEW u \in Users, UserNext(u)
      PROVE  Framed
  <2>1. CASE Register(u) \/ ResendVerification(u) \/ ForgotPassword(u)
    BY <2>1 DEF Register, ResendVerification, ForgotPassword
  <2>2. CASE DeleteMe(u) \/ CancelDeletion(u)
    BY <2>2 DEF DeleteMe, CancelDeletion, RequestBegins
  <2>3. CASE Anonymize(u)
    BY <2>3 DEF Anonymize
  <2>4. CASE RevokeSessions(u)
    BY <2>4 DEF RevokeSessions
  <2>5. ASSUME NEW s \in Statuses, SetUserStatus(u, s) \/ SetOrganizationStatus(u, s)
        PROVE  Framed
    BY <2>5 DEF SetUserStatus, SetOrganizationStatus
  <2>6. ASSUME NEW o \in Users, Login(u, o) \/ Switch(u, o)
        PROVE  Framed
    BY <2>6 DEF Login, Switch, RequestBegins
  <2>7. ASSUME NEW o \in Users, AcceptInvitation(o, u) \/ RemoveMember(o, u)
        PROVE  Framed
    BY <2>7 DEF AcceptInvitation, RemoveMember, RequestBegins
  <2>8. ASSUME NEW o \in Users, NEW role \in InvitationRoles, PatchMember(o, u, role)
        PROVE  Framed
    BY <2>8 DEF PatchMember
  <2>9. ASSUME NEW p \in Plans, ChangePlan(u, p)
        PROVE  Framed
    BY <2>9 DEF ChangePlan
  <2> HIDE DEF Framed
  <2> QED
    BY <1>1, <2>1, <2>2, <2>3, <2>4, <2>5, <2>6, <2>7, <2>8, <2>9 DEF UserNext, Statuses
<1>2. ASSUME NEW r \in inflight, RequestNext(r)
      PROVE  Framed
  BY <1>2 DEF RequestNext, SaveRefresh, RefreshCommit, DeleteMeCommit, CancelDeletionCommit, InviteChecked,
              InviteCommit, InviteDenied, AcceptCommit
<1>3. ASSUME NEW t \in DOMAIN tok, TokenNext(t)
      PROVE  Framed
  BY <1>3 DEF TokenNext, Refresh, RefreshReused, Logout, ExpireToken, CleanupToken, RequestBegins
<1>4. ASSUME NEW m \in live, VerifyEmail(m) \/ ResetPassword(m) \/ ExpireAccountToken(m)
      PROVE  Framed
  BY <1>4 DEF VerifyEmail, ResetPassword, ExpireAccountToken
<1>5. ASSUME NEW o \in Users, NEW e \in Recipients, Invite(o, e) \/ RevokeInvitation(o, e) \/ ExpireInvitation(o, e)
      PROVE  Framed
  BY <1>5 DEF Invite, RevokeInvitation, ExpireInvitation, RequestBegins
<1>6. CASE MailNext
  BY <1>6 DEF MailNext
<1> HIDE DEF Framed
<1> QED
  BY <1>1, <1>2, <1>3, <1>4, <1>5, <1>6 DEF Next

LEMMA RequestFacts ==
  ASSUME Types, NEW r \in inflight
  PROVE  /\ r.op \in {"session", "refresh", "delete", "cancelDelete", "invite", "upsert", "accept"}
         /\ r.op = "session" => r.user \in Users /\ r.org \in Users
         /\ r.op = "refresh" => r.token \in 1..MaxTokens /\ r = [op |-> "refresh", token |-> r.token]
         /\ r.op \in {"delete", "cancelDelete"} => r.user \in Users
         /\ r.op \in {"invite", "upsert"} => r.org \in Users /\ r.email \in Recipients
         /\ r.op = "upsert" => r.checked \in {"NONE"} \cup Plans
         /\ r.op = "accept" => r.org \in Users /\ r.user \in Users
<1>1. r \in Request
  BY DEF Types
<1> QED
  BY <1>1 DEF Request

LEMMA TokFacts ==
  ASSUME Types
  PROVE  /\ tok \in Seq(Token) /\ Len(tok) \in Nat /\ Len(tok) <= MaxTokens /\ DOMAIN tok = 1..Len(tok)
         /\ \A t \in DOMAIN tok : tok[t] \in Token /\ t \in 1..MaxTokens
<1>1. tok \in Seq(Token) /\ Len(tok) \in Nat /\ DOMAIN tok = 1..Len(tok) /\ Len(tok) <= MaxTokens
  BY LenProperties DEF Types
<1>2. \A t \in DOMAIN tok : tok[t] \in Token
  BY <1>1, ElementOfSeq
<1> QED
  BY <1>1, <1>2, AccountsAssumption

\* Messages are added at the end; who they are for does not change.
Grows ==
    /\ DOMAIN outbox \subseteq DOMAIN outbox'
    /\ \A m \in DOMAIN outbox : outbox'[m].to = outbox[m].to /\ outbox'[m].template = outbox[m].template

\* Message n is new.
Added(n, to, template) ==
    /\ n = Len(outbox) + 1 /\ n \in 1..MaxMails /\ n \notin DOMAIN outbox
    /\ DOMAIN outbox' = DOMAIN outbox \cup {n} /\ outbox'[n].to = to /\ outbox'[n].template = template
    /\ Grows

LEMMA QueuesStep ==
  ASSUME MailOK, NEW to \in Recipients, NEW template \in Templates, Queues(to, template)
  PROVE  MailOK' /\ Added(Len(outbox) + 1, to, template)
  BY QueueStep DEF Queues, Added, Grows

AccountEmail(u, template) ==
    \/ (Register(u) \/ ResendVerification(u)) /\ template = "VERIFY_EMAIL"
    \/ ForgotPassword(u) /\ template = "RESET_PASSWORD"

LEMMA AccountEmailStep ==
  ASSUME MailOK, NEW u \in Users, NEW t, AccountEmail(u, t)
  PROVE  /\ Queues(u, t) /\ Added(Len(outbox) + 1, u, t) /\ MailOK'
         /\ live' = (live \ OfKind(u, t)) \cup {Len(outbox) + 1}
         /\ t \in {"VERIFY_EMAIL", "RESET_PASSWORD"}
<1>1. /\ Queues(u, t) /\ live' = (live \ OfKind(u, t)) \cup {Len(outbox) + 1}
      /\ t \in {"VERIFY_EMAIL", "RESET_PASSWORD"}
  BY DEF AccountEmail, Register, ResendVerification, ForgotPassword, QueueAccountEmail, Queues
<1>2. t \in Templates /\ u \in Recipients
  BY <1>1, AccountsAssumption DEF Templates
<1> QED
  BY <1>1, <1>2, QueuesStep

LEMMA AnonymizeMail ==
  ASSUME MailOK, NEW u \in Users, Anonymize(u)
  PROVE  MailOK' /\ Addressed
<1>1. /\ outbox' = [m \in DOMAIN outbox |-> IF outbox[m].to = u THEN [outbox[m] EXCEPT !.status = "ROW_DELETED"]
                                            ELSE outbox[m]]
      /\ UNCHANGED <<mailer, suppressed, mailEvents, sent, mailFaults>>
  BY DEF Anonymize
<1>2. /\ outbox \in Seq(Mail) /\ \A m \in DOMAIN outbox : outbox[m] \in Mail
      /\ suppressed \subseteq Recipients /\ mailEvents \subseteq (1..MaxMails) \X EventTypes
  BY MailTypes DEF MailOK, MailTypeOK
<1>3. \A r \in Mail : /\ [r EXCEPT !.status = "ROW_DELETED"] \in Mail
                      /\ [r EXCEPT !.status = "ROW_DELETED"].to = r.to
                      /\ [r EXCEPT !.status = "ROW_DELETED"].template = r.template
                      /\ [r EXCEPT !.status = "ROW_DELETED"].status = "ROW_DELETED"
  BY DEF Mail
<1>4. /\ DOMAIN outbox' = DOMAIN outbox /\ outbox' = [m \in DOMAIN outbox' |-> outbox'[m]]
      /\ \A m \in DOMAIN outbox :
            outbox'[m] = IF outbox[m].to = u THEN [outbox[m] EXCEPT !.status = "ROW_DELETED"] ELSE outbox[m]
  BY <1>1
<1>5. \A m \in DOMAIN outbox : /\ outbox'[m] \in Mail /\ outbox'[m].to = outbox[m].to
                               /\ outbox'[m].template = outbox[m].template
                               /\ outbox'[m] = outbox[m] \/ outbox'[m].status = "ROW_DELETED"
  <2> TAKE m \in DOMAIN outbox
  <2>1. CASE outbox[m].to = u
    <3>1. outbox'[m] = [outbox[m] EXCEPT !.status = "ROW_DELETED"] /\ outbox[m] \in Mail
      BY <1>2, <1>4, <2>1
    <3> QED
      BY <1>3, <3>1
  <2>2. CASE outbox[m].to # u
    <3>1. outbox'[m] = outbox[m] /\ outbox[m] \in Mail
      BY <1>2, <1>4, <2>2
    <3> QED
      BY <3>1
  <2> QED
    BY <2>1, <2>2
<1>6. outbox' \in Seq(Mail) /\ Len(outbox') = Len(outbox)
  BY <1>2, <1>4, <1>5, Rewritten
<1>7. \A m \in DOMAIN outbox : Waiting(m)' => Waiting(m)
  BY <1>1, <1>5 DEF Waiting
<1>8. Addressed
  BY <1>4, <1>5 DEF Addressed
<1> QED
  BY <1>1, <1>2, <1>6, <1>7, <1>8, QuietStep

LEMMA InviteMail ==
  ASSUME Types, MailOK, NEW r \in inflight, InviteCommit(r)
  PROVE  MailOK' /\ Added(Len(outbox) + 1, r.email, "INVITE_MEMBER") /\ Grows
<1>1. Queues(r.email, "INVITE_MEMBER") /\ r.op = "upsert"
  BY DEF InviteCommit, Queues
<1>2. r.email \in Recipients /\ "INVITE_MEMBER" \in Templates
  BY <1>1, RequestFacts DEF Templates
<1> QED
  BY <1>1, <1>2, QueuesStep DEF Added

LEMMA MailStep ==
  ASSUME Types, MailOK, Next \/ UNCHANGED vars
  PROVE  MailOK' /\ Grows
<1>1. CASE UNCHANGED mailVars
  <2>1. MailTypeOK' /\ Items' /\ Deliveries'
    BY <1>1 DEF MailOK, MailTypeOK, Items, Deliveries, Carriers, Waiting, mailVars
  <2> QED
    BY <1>1, <2>1 DEF MailOK, Grows, mailVars
<1>2. ASSUME NEW u \in Users, Register(u) \/ ResendVerification(u) \/ ForgotPassword(u)
      PROVE  MailOK' /\ Grows
  <2>1. PICK t : AccountEmail(u, t)
    BY <1>2 DEF AccountEmail
  <2> QED
    BY <2>1, AccountEmailStep DEF Added
<1>3. ASSUME NEW u \in Users, Anonymize(u)
      PROVE  MailOK' /\ Grows
  BY <1>3, AnonymizeMail DEF Addressed, Grows
<1>4. CASE MailNext
  BY <1>4, MailNextStep DEF Addressed, Grows
<1>5. ASSUME NEW r \in inflight, InviteCommit(r)
      PROVE  MailOK' /\ Grows
  BY <1>5, InviteMail
<1>6. UNCHANGED mailVars \/ MailChange
  BY Frame DEF Framed, vars
<1> QED
  BY <1>1, <1>2, <1>3, <1>4, <1>5, <1>6 DEF MailChange

-----------------------------------------------------------------------------
(* The inductive invariant.                                                *)

InFlight(t) == [op |-> "refresh", token |-> t] \in inflight
SameFamily(t, i) == tok[t].family = tok[i].family
Tip(t) == \A i \in DOMAIN tok : SameFamily(i, t) => i <= t

\* A family starts with the token it is named for and belongs to one session.
Families ==
    \A t \in DOMAIN tok :
        /\ tok[t].family \in 1..t
        /\ \A i \in DOMAIN tok : SameFamily(t, i) => tok[t].user = tok[i].user /\ tok[t].org = tok[i].org

\* Only the last token of a family is usable, was until it expired, or is being exchanged.
Tips == \A t \in DOMAIN tok : tok[t].status \in {"LIVE", "EXPIRED"} \/ InFlight(t) => Tip(t)

\* A token that is being exchanged is usable, or was until the family was revoked.
Exchanged ==
    \A r \in inflight : r.op = "refresh" =>
        /\ r.token \in DOMAIN tok
        /\ tok[r.token].status = "LIVE" \/ (tok[r.token].status = "REVOKED" /\ tok[r.token].ended)

Sessions == Families /\ Tips /\ Exchanged /\ SessionsEnd

\* The user has verified the address.
Entered(u) == users[u].status \notin {"NONE", "PENDING"}

\* A deletion is requested, and cancelled, by somebody who could sign in.
Verified ==
    /\ \A u \in Users : users[u].erased => Entered(u)
    /\ \A r \in inflight : r.op \in {"delete", "cancelDelete"} => Entered(r.user)

\* Account tokens are the users', and one to verify an address is usable at a time.
AccountTokens ==
    /\ \A m \in live : outbox[m].to \in Users /\ outbox[m].template \in {"VERIFY_EMAIL", "RESET_PASSWORD"}
    /\ \A m, i \in live : outbox[m].to = outbox[i].to /\ outbox[m].template = "VERIFY_EMAIL"
                          /\ outbox[i].template = "VERIFY_EMAIL" => m = i

\* No session or membership is being made for an erased user.
NoneRevived ==
    \A r \in inflight : /\ r.op = "session" => ~users[r.user].erased
                        /\ r.op = "refresh" => ~users[tok[r.token].user].erased
                        /\ r.op = "accept" => ~users[r.user].erased

\* The owner is who registered the workspace, and is alone in it when about to leave.
Owners ==
    /\ \A o, u \in Users : member[o][u] = "OWNER" => o = u
    /\ ~raced => \A u \in Users :
          users[u].status = "DELETION_PENDING" /\ member[u][u] = "OWNER" => Members(u) = {u}

\* Nothing belongs to a workspace before its registration.
Unborn ==
    \A o \in Users : users[o].status = "NONE" =>
        /\ Members(o) = {} /\ LiveInvitations(o) = {}
        /\ \A r \in inflight : r.op \in {"invite", "upsert", "accept"} => r.org # o

\* One invitation of a workspace is between its check and its commit, and the seat it was
\* granted is still there, or was taken late.
Holds(r) == r.op = "upsert" /\ r.checked # "NONE"
Granted ==
    /\ \A r, i \in inflight : Holds(r) /\ Holds(i) /\ r.org = i.org => r = i
    /\ \A r \in inflight : Holds(r) => Seats(r.org) < Limit(r.checked) + late[r.org]

AccInv ==
    /\ MailOK /\ Types
    /\ Sessions
    /\ Verified /\ AccountTokens /\ LiveVerifyMeansPending
    /\ NoneRevived /\ ErasedStaysErased
    /\ Owners /\ OwnerRemains
    /\ Unborn /\ Granted

LEMMA Cell ==
  ASSUME NEW A, NEW B, NEW C, NEW f \in [A -> [B -> C]], NEW a \in A, NEW b \in B, NEW c \in C,
         NEW g, g = [f EXCEPT ![a][b] = c]
  PROVE  /\ g \in [A -> [B -> C]] /\ g[a][b] = c
         /\ \A x \in A, y \in B : x # a \/ y # b => g[x][y] = f[x][y]
  OBVIOUS

\* The status of one user changes.
UserMoves(u, s) == users' = [users EXCEPT ![u].status = s]
LEMMA UserMoved ==
  ASSUME Types, NEW u \in Users, NEW s \in UserStatus, UserMoves(u, s)
  PROVE  /\ users' \in [Users -> [status : UserStatus, erased : BOOLEAN]]
         /\ users'[u].status = s
         /\ \A v \in Users : users'[v].erased = users[v].erased /\ (v # u => users'[v] = users[v])
<1>1. \A r \in [status : UserStatus, erased : BOOLEAN] :
         /\ [r EXCEPT !.status = s] \in [status : UserStatus, erased : BOOLEAN]
         /\ [r EXCEPT !.status = s].status = s /\ [r EXCEPT !.status = s].erased = r.erased
  OBVIOUS
<1>2. users \in [Users -> [status : UserStatus, erased : BOOLEAN]]
  BY DEF Types
<1>3. users' = [users EXCEPT ![u] = [users[u] EXCEPT !.status = s]] /\ users[u] \in [status : UserStatus, erased : BOOLEAN]
  BY <1>2 DEF UserMoves
<1> DEFINE q == [users[u] EXCEPT !.status = s]
<1>4. q \in [status : UserStatus, erased : BOOLEAN] /\ q.status = s /\ q.erased = users[u].erased
  BY <1>1, <1>3
<1> HIDE DEF q
<1>5. users' = [users EXCEPT ![u] = q]
  BY <1>3 DEF q
<1> QED
  BY <1>2, <1>4, <1>5

\* How the status of a user changes.
LEMMA UsersStep ==
  ASSUME AccInv, Next, users' # users
  PROVE  \/ \E u \in Users : Anonymize(u)
         \/ \E u \in Users, s \in UserStatus :
               /\ UserMoves(u, s)
               /\ \/ Register(u) /\ s = "PENDING" /\ users[u].status = "NONE"
                  \/ \E m \in live : VerifyEmail(m) /\ outbox[m].to = u /\ s = "ACTIVE"
                                     /\ users[u].status = "PENDING"
                  \/ \E r \in inflight : /\ DeleteMeCommit(r) /\ r.op = "delete" /\ r.user = u
                                         /\ s = "DELETION_PENDING" /\ Entered(u)
                  \/ \E r \in inflight : /\ CancelDeletionCommit(r) /\ s = "ACTIVE" /\ Entered(u)
                                         /\ r.op = "cancelDelete" /\ r.user = u
                  \/ SetUserStatus(u, s) /\ s \in Statuses /\ Entered(u)
<1> DEFINE Goal == \/ \E u \in Users : Anonymize(u)
                   \/ \E u \in Users, s \in UserStatus :
                         /\ UserMoves(u, s)
                         /\ \/ Register(u) /\ s = "PENDING" /\ users[u].status = "NONE"
                            \/ \E m \in live : VerifyEmail(m) /\ outbox[m].to = u /\ s = "ACTIVE"
                                               /\ users[u].status = "PENDING"
                            \/ \E r \in inflight : /\ DeleteMeCommit(r) /\ r.op = "delete" /\ r.user = u
                                                   /\ s = "DELETION_PENDING" /\ Entered(u)
                            \/ \E r \in inflight : /\ CancelDeletionCommit(r) /\ s = "ACTIVE" /\ Entered(u)
                                                   /\ r.op = "cancelDelete" /\ r.user = u
                            \/ SetUserStatus(u, s) /\ s \in Statuses /\ Entered(u)
<1>t. {"PENDING", "ACTIVE", "SUSPENDED", "DELETION_PENDING"} \subseteq UserStatus
  BY DEF UserStatus
<1>1. ASSUME NEW u \in Users, Register(u)
      PROVE  Goal
  BY <1>1, <1>t DEF Register, UserMoves
<1>2. ASSUME NEW u \in Users, NEW s \in Statuses, SetUserStatus(u, s)
      PROVE  Goal
  <2>1. UserMoves(u, s) /\ Entered(u) /\ s \in UserStatus
    BY <1>2, <1>t DEF SetUserStatus, UserMoves, Entered, Statuses
  <2> QED
    BY <1>2, <2>1
<1>3. ASSUME NEW m \in live, VerifyEmail(m)
      PROVE  Goal
  <2>1. UserMoves(outbox[m].to, "ACTIVE") /\ outbox[m].template = "VERIFY_EMAIL"
    BY <1>3 DEF VerifyEmail, UserMoves
  <2>2. outbox[m].to \in Users /\ users[outbox[m].to].status = "PENDING"
    BY <2>1 DEF AccInv, AccountTokens, LiveVerifyMeansPending
  <2> QED
    BY <1>3, <1>t, <2>1, <2>2
<1>4. ASSUME NEW r \in inflight, DeleteMeCommit(r)
      PROVE  Goal
  <2>1. UserMoves(r.user, "DELETION_PENDING") /\ r.op = "delete"
    BY <1>4 DEF DeleteMeCommit, UserMoves
  <2>2. r.user \in Users /\ Entered(r.user)
    BY <2>1, RequestFacts DEF AccInv, Verified
  <2> QED
    BY <1>4, <1>t, <2>1, <2>2
<1>5. ASSUME NEW r \in inflight, CancelDeletionCommit(r)
      PROVE  Goal
  <2>1. UserMoves(r.user, "ACTIVE") /\ r.op = "cancelDelete"
    BY <1>5 DEF CancelDeletionCommit, UserMoves
  <2>2. r.user \in Users /\ Entered(r.user)
    BY <2>1, RequestFacts DEF AccInv, Verified
  <2> QED
    BY <1>5, <1>t, <2>1, <2>2
<1>6. UsersChange
  BY Frame DEF Framed
<1> HIDE DEF Goal
<1>7. (\E u \in Users : Anonymize(u)) => Goal
  BY DEF Goal
<1>8. Goal
  BY <1>1, <1>2, <1>3, <1>4, <1>5, <1>6, <1>7 DEF UsersChange
<1> QED
  BY <1>8 DEF Goal

-----------------------------------------------------------------------------
(* Sessions.                                                               *)

\* A revocation: what it does to each token.
LEMMA RevokedFacts ==
  ASSUME Types, NEW S, tok' = Revoked(S)
  PROVE  /\ tok' \in Seq(Token) /\ Len(tok') = Len(tok) /\ DOMAIN tok' = DOMAIN tok
         /\ \A t \in DOMAIN tok :
               /\ tok'[t].user = tok[t].user /\ tok'[t].org = tok[t].org /\ tok'[t].family = tok[t].family
               /\ tok'[t].survivor = tok[t].survivor
               /\ t \in S /\ tok[t].status # "ROW_DELETED" => tok'[t].status = "REVOKED" /\ tok'[t].ended
               /\ t \notin S \/ tok[t].status = "ROW_DELETED" => tok'[t] = tok[t]
<1>1. tok \in Seq(Token) /\ DOMAIN tok = 1..Len(tok) /\ Len(tok) \in Nat /\ \A t \in DOMAIN tok : tok[t] \in Token
  BY TokFacts
<1> DEFINE Ends(x) == [x EXCEPT !.status = "REVOKED", !.ended = TRUE]
<1>2. \A x \in Token :
         /\ Ends(x) \in Token /\ Ends(x).user = x.user /\ Ends(x).org = x.org /\ Ends(x).family = x.family
         /\ Ends(x).survivor = x.survivor /\ Ends(x).status = "REVOKED" /\ Ends(x).ended
  BY DEF Token
<1>3. /\ tok' = [t \in DOMAIN tok |-> IF t \in S /\ tok[t].status # "ROW_DELETED" THEN Ends(tok[t]) ELSE tok[t]]
  BY DEF Revoked
<1> HIDE DEF Ends
<1>4. /\ DOMAIN tok' = DOMAIN tok /\ tok' = [t \in DOMAIN tok' |-> tok'[t]]
      /\ \A t \in DOMAIN tok : tok'[t] = IF t \in S /\ tok[t].status # "ROW_DELETED" THEN Ends(tok[t]) ELSE tok[t]
  BY <1>3
<1>5. ASSUME NEW t \in DOMAIN tok
      PROVE  /\ tok'[t] \in Token
             /\ tok'[t].user = tok[t].user /\ tok'[t].org = tok[t].org /\ tok'[t].family = tok[t].family
             /\ tok'[t].survivor = tok[t].survivor
             /\ t \in S /\ tok[t].status # "ROW_DELETED" => tok'[t].status = "REVOKED" /\ tok'[t].ended
             /\ t \notin S \/ tok[t].status = "ROW_DELETED" => tok'[t] = tok[t]
  <2>1. CASE t \in S /\ tok[t].status # "ROW_DELETED"
    <3>1. tok'[t] = Ends(tok[t]) /\ tok[t] \in Token
      BY <1>1, <1>4, <2>1
    <3> QED
      BY <1>2, <2>1, <3>1
  <2>2. CASE ~(t \in S /\ tok[t].status # "ROW_DELETED")
    <3>1. tok'[t] = tok[t] /\ tok[t] \in Token
      BY <1>1, <1>4, <2>2
    <3> QED
      BY <2>2, <3>1
  <2> QED
    BY <2>1, <2>2
<1>6. tok' \in Seq(Token) /\ Len(tok') = Len(tok)
  BY <1>1, <1>4, <1>5, Rewritten
<1> QED
  BY <1>4, <1>5, <1>6

\* Tokens that expire or whose rows are deleted.
Faded(t) ==
    /\ tok'[t].user = tok[t].user /\ tok'[t].org = tok[t].org /\ tok'[t].family = tok[t].family
    /\ tok'[t].survivor = tok[t].survivor /\ tok'[t].ended = tok[t].ended
    /\ \/ tok'[t].status = tok[t].status
       \/ ~InFlight(t) /\ (tok'[t].status = "ROW_DELETED"
                           \/ (tok'[t].status = "EXPIRED" /\ tok[t].status = "LIVE"))
Fades ==
    /\ inflight' = inflight
    /\ tok' \in Seq(Token) /\ Len(tok') = Len(tok) /\ DOMAIN tok' = DOMAIN tok
    /\ \A t \in DOMAIN tok : Faded(t)

\* No usable token of a revoked family is left out.
Closed(S) ==
    \A i \in S, t \in DOMAIN tok :
        tok[i].status # "ROW_DELETED" /\ tok[t].status = "LIVE" /\ SameFamily(i, t) => t \in S

RevokeKind(S) == S \subseteq DOMAIN tok /\ tok' = Revoked(S) /\ Closed(S) /\ inflight' \subseteq inflight

LEMMA FadesStep ==
  ASSUME Types, NEW t0 \in DOMAIN tok, ~InFlight(t0), inflight' = inflight, NEW s \in {"EXPIRED", "ROW_DELETED"},
         s = "EXPIRED" => tok[t0].status = "LIVE", tok' = [tok EXCEPT ![t0].status = s]
  PROVE  Fades
<1>1. tok \in Seq(Token) /\ DOMAIN tok = 1..Len(tok) /\ tok[t0] \in Token
  BY TokFacts
<1> DEFINE q == [tok[t0] EXCEPT !.status = s]
<1>2. /\ q \in Token /\ q.user = tok[t0].user /\ q.org = tok[t0].org /\ q.family = tok[t0].family
      /\ q.survivor = tok[t0].survivor /\ q.ended = tok[t0].ended /\ q.status = s
  BY <1>1 DEF Token
<1>3. tok' = [tok EXCEPT ![t0] = q]
  OBVIOUS
<1> HIDE DEF q
<1>4. tok' \in Seq(Token) /\ Len(tok') = Len(tok) /\ DOMAIN tok' = DOMAIN tok
      /\ \A t \in DOMAIN tok : tok'[t] = IF t = t0 THEN q ELSE tok[t]
  BY <1>1, <1>2, <1>3, ExceptSeq
<1>5. ASSUME NEW t \in DOMAIN tok
      PROVE  Faded(t)
  <2>1. CASE t = t0
    <3>1. tok'[t] = q /\ ~InFlight(t) /\ tok[t] = tok[t0]
      BY <1>4, <2>1
    <3>2. s = "ROW_DELETED" \/ (s = "EXPIRED" /\ tok[t].status = "LIVE")
      BY <3>1
    <3> QED
      BY <1>2, <3>1, <3>2 DEF Faded
  <2>2. CASE t # t0
    <3>1. tok'[t] = tok[t]
      BY <1>4, <2>2
    <3> QED
      BY <3>1 DEF Faded
  <2> QED
    BY <2>1, <2>2
<1> QED
  BY <1>4, <1>5 DEF Fades

LEMMA AnonymizeFades ==
  ASSUME Types, Exchanged, NEW u \in Users, Anonymize(u)
  PROVE  Fades /\ \A t \in DOMAIN tok : tok[t].user = u => tok'[t].status = "ROW_DELETED"
<1> DEFINE Gone(x) == [x EXCEPT !.status = "ROW_DELETED"]
<1>1. tok \in Seq(Token) /\ DOMAIN tok = 1..Len(tok) /\ \A t \in DOMAIN tok : tok[t] \in Token /\ t \in 1..MaxTokens
  BY TokFacts
<1>2. \A x \in Token :
         /\ Gone(x) \in Token /\ Gone(x).user = x.user /\ Gone(x).org = x.org /\ Gone(x).family = x.family
         /\ Gone(x).survivor = x.survivor /\ Gone(x).ended = x.ended /\ Gone(x).status = "ROW_DELETED"
  BY DEF Token
<1>3. tok' = [t \in DOMAIN tok |-> IF tok[t].user = u THEN Gone(tok[t]) ELSE tok[t]] /\ inflight' = inflight
  BY DEF Anonymize
<1>4. \A t \in DOMAIN tok : tok[t].user = u => ~InFlight(t)
  <2> SUFFICES ASSUME NEW t \in DOMAIN tok, tok[t].user = u, InFlight(t)
               PROVE  FALSE
    OBVIOUS
  <2>1. [op |-> "refresh", token |-> t].op = "refresh" /\ [op |-> "refresh", token |-> t].token = t
    OBVIOUS
  <2> QED
    BY <2>1 DEF Anonymize, Overdue, InFlight
<1> HIDE DEF Gone
<1>5. /\ DOMAIN tok' = DOMAIN tok /\ tok' = [t \in DOMAIN tok' |-> tok'[t]]
      /\ \A t \in DOMAIN tok : tok'[t] = IF tok[t].user = u THEN Gone(tok[t]) ELSE tok[t]
  BY <1>3
<1>6. ASSUME NEW t \in DOMAIN tok
      PROVE  /\ tok'[t] \in Token
             /\ tok'[t].user = tok[t].user /\ tok'[t].org = tok[t].org /\ tok'[t].family = tok[t].family
             /\ tok'[t].survivor = tok[t].survivor /\ tok'[t].ended = tok[t].ended
             /\ tok'[t].status = tok[t].status \/ (tok[t].user = u /\ tok'[t].status = "ROW_DELETED")
             /\ tok[t].user = u => tok'[t].status = "ROW_DELETED"
  BY <1>1, <1>2, <1>5
<1>7. tok' \in Seq(Token) /\ Len(tok') = Len(tok)
  BY <1>1, <1>5, <1>6, Rewritten
<1>8. \A t \in DOMAIN tok : Faded(t)
  <2> TAKE t \in DOMAIN tok
  <2>1. tok'[t].status = tok[t].status \/ (~InFlight(t) /\ tok'[t].status = "ROW_DELETED")
    BY <1>4, <1>6
  <2> QED
    BY <1>6, <2>1 DEF Faded
<1> QED
  BY <1>3, <1>5, <1>6, <1>7, <1>8 DEF Fades

RefreshesKept ==
    \A r \in inflight' : r.op = "refresh" =>
        r \in inflight \/ (r.token \in DOMAIN tok /\ tok[r.token].status = "LIVE")

\* What a step does to the tokens and to the exchanges in flight.
TokKinds ==
    \/ tok' = tok /\ RefreshesKept
    \/ \E S \in SUBSET DOMAIN tok : RevokeKind(S)
    \/ \E r \in inflight : SaveRefresh(r) \/ RefreshCommit(r)
    \/ Fades

LEMMA RevocationsClosed ==
  ASSUME Types, Sessions
  PROVE  /\ \A u : Closed(TokensOf(u)) /\ Closed({t \in TokensOf(u) : tok[t].status # "REVOKED"})
         /\ \A u, o : Closed(TokensIn(u, o))
         /\ \A o : Closed({t \in DOMAIN tok : tok[t].org = o})
         /\ \A f : Closed({t \in DOMAIN tok : tok[t].family = f})
         /\ \A i \in DOMAIN tok : tok[i].status \in {"LIVE", "EXPIRED"} => Closed({i})
<1>1. \A t, i \in DOMAIN tok : SameFamily(t, i) => tok[t].user = tok[i].user /\ tok[t].org = tok[i].org
  BY DEF Sessions, Families
<1>2. \A u : Closed(TokensOf(u)) /\ Closed({t \in TokensOf(u) : tok[t].status # "REVOKED"})
  BY <1>1 DEF Closed, TokensOf
<1>3. \A u, o : Closed(TokensIn(u, o))
  BY <1>1 DEF Closed, TokensOf, TokensIn
<1>4. \A o : Closed({t \in DOMAIN tok : tok[t].org = o})
  BY <1>1 DEF Closed
<1>5. \A f : Closed({t \in DOMAIN tok : tok[t].family = f})
  BY DEF Closed, SameFamily
<1>6. ASSUME NEW i \in DOMAIN tok, tok[i].status \in {"LIVE", "EXPIRED"}
      PROVE  Closed({i})
  <2> SUFFICES ASSUME NEW t \in DOMAIN tok, tok[t].status = "LIVE", SameFamily(i, t)
               PROVE  t = i
    BY DEF Closed
  <2>1. Tip(i) /\ Tip(t) /\ SameFamily(t, i)
    BY <1>6 DEF Sessions, Tips, SameFamily
  <2>2. t <= i /\ i <= t
    BY <2>1 DEF Tip, SameFamily
  <2>3. t \in Nat /\ i \in Nat
    BY TokFacts
  <2> QED
    BY <2>2, <2>3
<1> QED
  BY <1>2, <1>3, <1>4, <1>5, <1>6

LEMMA RequestsBegin ==
  ASSUME NEW r, RequestBegins(r)
  PROVE  /\ inflight' = inflight \cup {r} /\ r \notin inflight
         /\ UNCHANGED <<users, orgs, member, inv, tok, live, raced, mailVars>>
         /\ r.op = "refresh" => r.token \in DOMAIN tok /\ tok[r.token].status = "LIVE"
<1>1. ASSUME NEW u \in Users, NEW o \in Users, Login(u, o) \/ Switch(u, o), r = [op |-> "session", user |-> u, org |-> o]
      PROVE  /\ inflight' = inflight \cup {r} /\ r \notin inflight /\ r.op # "refresh"
             /\ UNCHANGED <<users, orgs, member, inv, tok, live, raced, mailVars>>
  BY <1>1 DEF Login, Switch, Begin
<1>2. ASSUME NEW t \in DOMAIN tok, Refresh(t), r = [op |-> "refresh", token |-> t]
      PROVE  /\ inflight' = inflight \cup {r} /\ r \notin inflight /\ r.token = t /\ tok[t].status = "LIVE"
             /\ UNCHANGED <<users, orgs, member, inv, tok, live, raced, mailVars>>
  BY <1>2 DEF Refresh, Begin
<1>3. ASSUME NEW u \in Users, DeleteMe(u), r = [op |-> "delete", user |-> u]
      PROVE  /\ inflight' = inflight \cup {r} /\ r \notin inflight /\ r.op # "refresh"
             /\ UNCHANGED <<users, orgs, member, inv, tok, live, raced, mailVars>>
  BY <1>3 DEF DeleteMe, Begin
<1>4. ASSUME NEW u \in Users, CancelDeletion(u), r = [op |-> "cancelDelete", user |-> u]
      PROVE  /\ inflight' = inflight \cup {r} /\ r \notin inflight /\ r.op # "refresh"
             /\ UNCHANGED <<users, orgs, member, inv, tok, live, raced, mailVars>>
  BY <1>4 DEF CancelDeletion, Begin
<1>5. ASSUME NEW o \in Users, NEW e \in Recipients, Invite(o, e),
             r = [op |-> "invite", org |-> o, email |-> e, seen |-> LiveInvitations(o)]
      PROVE  /\ inflight' = inflight \cup {r} /\ r \notin inflight /\ r.op # "refresh"
             /\ UNCHANGED <<users, orgs, member, inv, tok, live, raced, mailVars>>
  BY <1>5 DEF Invite, Begin
<1>6. ASSUME NEW o \in Users, NEW u \in Users, AcceptInvitation(o, u), r = [op |-> "accept", org |-> o, user |-> u]
      PROVE  /\ inflight' = inflight \cup {r} /\ r \notin inflight /\ r.op # "refresh"
             /\ UNCHANGED <<users, orgs, member, inv, tok, live, raced, mailVars>>
  BY <1>6 DEF AcceptInvitation, Begin
<1> QED
  BY <1>1, <1>2, <1>3, <1>4, <1>5, <1>6 DEF RequestBegins

LEMMA RequestsEnd ==
  ASSUME NEW r, RequestNext(r)
  PROVE  \/ inflight' = inflight \ {r}
         \/ \E k : Upserts(r, k)
<1>1. CASE InviteChecked(r)
  <2>1. PICK c \in {"NONE"} \cup Plans :
           /\ inflight' = (inflight \ {r}) \cup {[op |-> "upsert", org |-> r.org, email |-> r.email, checked |-> c]}
           /\ c # "NONE" => c = plan[r.org] /\ ~QuotaLocked(r.org) /\ enforceMemberQuota(r.org, r.seen)
    BY <1>1 DEF InviteChecked
  <2> QED
    BY <1>1, <2>1 DEF Upserts
<1>2. CASE ~InviteChecked(r)
  BY <1>2 DEF RequestNext, SaveRefresh, RefreshCommit, DeleteMeCommit, CancelDeletionCommit, InviteCommit, InviteDenied,
              AcceptCommit, End
<1> QED
  BY <1>1, <1>2

\* A request in flight was, begins, or is an invitation that goes on.
LEMMA RequestsFlow ==
  ASSUME Next \/ UNCHANGED vars
  PROVE  \A r \in inflight' : \/ r \in inflight \/ RequestBegins(r)
                             \/ \E i \in inflight : Upserts(i, r) /\ r.op = "upsert"
<1>1. ASSUME NEW i, NEW k, Upserts(i, k)
      PROVE  k.op = "upsert" /\ inflight' = (inflight \ {i}) \cup {k}
  BY <1>1 DEF Upserts
<1>2. ASSUME NEW i \in inflight, RequestNext(i), NEW r \in inflight'
      PROVE  r \in inflight \/ (Upserts(i, r) /\ r.op = "upsert")
  BY <1>1, <1>2, RequestsEnd
<1>3. ASSUME NEW i, RequestBegins(i), NEW r \in inflight'
      PROVE  r \in inflight \/ RequestBegins(r)
  BY <1>3, RequestsBegin
<1> QED
  BY <1>2, <1>3, Frame DEF Framed, InflightChange, vars, acctVars

LEMMA TokStep ==
  ASSUME AccInv, Next
  PROVE  TokKinds
<1>t. Types /\ Sessions
  BY DEF AccInv
<1>1. CASE UNCHANGED tok
  <2>1. CASE UNCHANGED inflight
    BY <1>1, <2>1 DEF TokKinds, RefreshesKept
  <2>2. ASSUME NEW r, RequestBegins(r)
        PROVE  TokKinds
    BY <1>1, <2>2, RequestsBegin DEF TokKinds, RefreshesKept
  <2>3. ASSUME NEW r \in inflight, RequestNext(r)
        PROVE  TokKinds
    <3>1. ASSUME NEW k, Upserts(r, k)
          PROVE  RefreshesKept
      BY <3>1 DEF Upserts, RefreshesKept
    <3>2. inflight' = inflight \ {r} => RefreshesKept
      BY DEF RefreshesKept
    <3>3. RefreshesKept
      BY <2>3, <3>1, <3>2, RequestsEnd
    <3> QED
      BY <1>1, <3>3 DEF TokKinds
  <2> QED
    BY <2>1, <2>2, <2>3, Frame DEF Framed, InflightChange
<1>2. ASSUME NEW S \in SUBSET DOMAIN tok, tok' = Revoked(S), Closed(S), inflight' \subseteq inflight
      PROVE  TokKinds
  BY <1>2 DEF TokKinds, RevokeKind
<1>s. \A u, o : TokensOf(u) \subseteq DOMAIN tok /\ TokensIn(u, o) \subseteq DOMAIN tok
  BY DEF TokensOf, TokensIn
<1>3. ASSUME NEW r \in inflight, DeleteMeCommit(r)
      PROVE  TokKinds
  <2>1. tok' = Revoked(TokensOf(r.user)) /\ inflight' \subseteq inflight
    BY <1>3 DEF DeleteMeCommit, End
  <2> QED
    BY <1>2, <1>s, <1>t, <2>1, RevocationsClosed
<1>4. ASSUME NEW m \in live, ResetPassword(m)
      PROVE  TokKinds
  <2>1. tok' = Revoked(TokensOf(outbox[m].to)) /\ inflight' \subseteq inflight
    BY <1>4 DEF ResetPassword
  <2> QED
    BY <1>2, <1>s, <1>t, <2>1, RevocationsClosed
<1>5. ASSUME NEW t \in DOMAIN tok, RefreshReused(t)
      PROVE  TokKinds
  <2> DEFINE S == {i \in DOMAIN tok : tok[i].family = tok[t].family}
  <2>1. tok' = Revoked(S) /\ inflight' \subseteq inflight /\ S \subseteq DOMAIN tok
    BY <1>5 DEF RefreshReused
  <2>2. Closed(S)
    BY <1>t, RevocationsClosed
  <2> QED
    BY <1>2, <2>1, <2>2
<1>6. ASSUME NEW t \in DOMAIN tok, Logout(t)
      PROVE  TokKinds
  <2>1. tok' = Revoked({t}) /\ inflight' \subseteq inflight /\ tok[t].status \in {"LIVE", "EXPIRED"}
    BY <1>6 DEF Logout
  <2>2. Closed({t})
    BY <1>t, <2>1, RevocationsClosed
  <2> QED
    BY <1>2, <2>1, <2>2
<1>7. ASSUME NEW t \in DOMAIN tok, ExpireToken(t) \/ CleanupToken(t)
      PROVE  TokKinds
  <2>1. /\ ~InFlight(t) /\ inflight' = inflight
        /\ \/ tok' = [tok EXCEPT ![t].status = "EXPIRED"] /\ tok[t].status = "LIVE"
           \/ tok' = [tok EXCEPT ![t].status = "ROW_DELETED"]
    BY <1>7 DEF ExpireToken, CleanupToken, Unlocked, InFlight
  <2>2. Fades
    BY <1>t, <2>1, FadesStep
  <2> QED
    BY <2>2 DEF TokKinds
<1>8. ASSUME NEW u \in Users, Anonymize(u)
      PROVE  TokKinds
  BY <1>t, <1>8, AnonymizeFades DEF TokKinds, Sessions
<1>9. ASSUME NEW u \in Users, RevokeSessions(u)
      PROVE  TokKinds
  <2> DEFINE S == {t \in TokensOf(u) : tok[t].status # "REVOKED"}
  <2>1. tok' = Revoked(S) /\ inflight' \subseteq inflight /\ S \subseteq DOMAIN tok
    BY <1>9, <1>s DEF RevokeSessions
  <2>2. Closed(S)
    BY <1>t, RevocationsClosed
  <2> QED
    BY <1>2, <2>1, <2>2
<1>10. ASSUME NEW u \in Users, NEW s \in Statuses, SetUserStatus(u, s), tok' # tok
       PROVE  TokKinds
  <2>1. tok' = Revoked(TokensOf(u)) /\ inflight' \subseteq inflight
    BY <1>10 DEF SetUserStatus
  <2> QED
    BY <1>2, <1>s, <1>t, <2>1, RevocationsClosed
<1>11. ASSUME NEW o \in Users, NEW s \in Statuses, SetOrganizationStatus(o, s), tok' # tok
       PROVE  TokKinds
  <2> DEFINE S == {t \in DOMAIN tok : tok[t].org = o}
  <2>1. tok' = Revoked(S) /\ inflight' \subseteq inflight /\ S \subseteq DOMAIN tok
    BY <1>11 DEF SetOrganizationStatus
  <2>2. Closed(S)
    BY <1>t, RevocationsClosed
  <2> QED
    BY <1>2, <2>1, <2>2
<1>12. ASSUME NEW u \in Users, NEW o \in Users, RemoveMember(o, u) \/ \E role \in InvitationRoles : PatchMember(o, u, role)
       PROVE  TokKinds
  <2>1. tok' = Revoked(TokensIn(u, o)) /\ inflight' \subseteq inflight
    BY <1>12 DEF RemoveMember, PatchMember
  <2> QED
    BY <1>2, <1>s, <1>t, <2>1, RevocationsClosed
<1>13. (\E r \in inflight : SaveRefresh(r) \/ RefreshCommit(r)) => TokKinds
  BY DEF TokKinds
<1>14. UNCHANGED tok \/ TokChange
  BY Frame DEF Framed
<1> QED
  BY <1>1, <1>3, <1>4, <1>5, <1>6, <1>7, <1>8, <1>9, <1>10, <1>11, <1>12, <1>13, <1>14 DEF TokChange

LEMMA RevokeKeepsSessions ==
  ASSUME Types, Sessions, NEW S, RevokeKind(S)
  PROVE  Sessions'
<1>1. /\ DOMAIN tok' = DOMAIN tok
      /\ \A t \in DOMAIN tok :
            /\ tok'[t].user = tok[t].user /\ tok'[t].org = tok[t].org /\ tok'[t].family = tok[t].family
            /\ tok'[t].survivor = tok[t].survivor
            /\ t \in S /\ tok[t].status # "ROW_DELETED" => tok'[t].status = "REVOKED" /\ tok'[t].ended
            /\ t \notin S \/ tok[t].status = "ROW_DELETED" => tok'[t] = tok[t]
  BY RevokedFacts DEF RevokeKind
<1>2. inflight' \subseteq inflight /\ Closed(S)
  BY DEF RevokeKind
<1>3. \A t, i \in DOMAIN tok : SameFamily(t, i)' <=> SameFamily(t, i)
  BY <1>1 DEF SameFamily
<1>4. Families'
  BY <1>1, <1>3 DEF Sessions, Families
<1>5. \A t \in DOMAIN tok : tok'[t].status \in {"LIVE", "EXPIRED"} => t \notin S /\ tok'[t] = tok[t]
  BY <1>1
<1>6. Tips'
  <2> SUFFICES ASSUME NEW t \in DOMAIN tok, tok'[t].status \in {"LIVE", "EXPIRED"} \/ InFlight(t)'
               PROVE  Tip(t)'
    BY <1>1 DEF Tips
  <2>1. tok[t].status \in {"LIVE", "EXPIRED"} \/ InFlight(t)
    BY <1>2, <1>5 DEF InFlight
  <2>2. Tip(t)
    BY <2>1 DEF Sessions, Tips
  <2> QED
    BY <1>1, <1>3, <2>2 DEF Tip
<1>7. Exchanged'
  <2> SUFFICES ASSUME NEW r \in inflight', r.op = "refresh"
               PROVE  /\ r.token \in DOMAIN tok
                      /\ tok'[r.token].status = "LIVE" \/ (tok'[r.token].status = "REVOKED" /\ tok'[r.token].ended)
    BY <1>1 DEF Exchanged
  <2>1. r \in inflight
    BY <1>2
  <2>2. r.token \in DOMAIN tok /\ (tok[r.token].status = "LIVE" \/ (tok[r.token].status = "REVOKED" /\ tok[r.token].ended))
    BY <2>1 DEF Sessions, Exchanged
  <2> DEFINE t == r.token
  <2>3. t \in DOMAIN tok /\ (tok[t].status = "LIVE" \/ (tok[t].status = "REVOKED" /\ tok[t].ended))
    BY <2>2
  <2> HIDE DEF t
  <2>4. tok'[t].status = "LIVE" \/ (tok'[t].status = "REVOKED" /\ tok'[t].ended)
    <3>1. CASE t \in S
      <4>1. tok[t].status # "ROW_DELETED"
        BY <2>3
      <4> QED
        BY <1>1, <2>3, <3>1, <4>1
    <3>2. CASE t \notin S
      <4>1. tok'[t] = tok[t]
        BY <1>1, <2>3, <3>2
      <4> QED
        BY <2>3, <4>1
    <3> QED
      BY <3>1, <3>2
  <2> QED
    BY <2>3, <2>4 DEF t
<1>8. SessionsEnd'
  <2> SUFFICES ASSUME NEW t \in DOMAIN tok, NEW i \in DOMAIN tok, tok'[t].status = "LIVE", tok'[i].ended,
                      tok'[i].family = tok'[t].family
               PROVE  \E s \in (i + 1)..t : tok'[s].family = tok'[t].family /\ tok'[s].survivor
    BY <1>1 DEF SessionsEnd
  <2>1. t \notin S /\ tok[t].status = "LIVE" /\ tok'[t].family = tok[t].family /\ SameFamily(i, t)
    <3>1. t \notin S /\ tok'[t] = tok[t]
      BY <1>5
    <3>2. SameFamily(i, t)'
      BY DEF SameFamily
    <3> QED
      BY <1>1, <1>3, <3>1, <3>2
  <2>2. i \notin S \/ tok[i].status = "ROW_DELETED"
    BY <1>2, <2>1 DEF Closed
  <2>3. tok'[i] = tok[i]
    BY <1>1, <2>2
  <2>4. PICK s \in (i + 1)..t : tok[s].family = tok[t].family /\ tok[s].survivor
    BY <2>1, <2>3 DEF Sessions, SessionsEnd, SameFamily
  <2>5. s \in DOMAIN tok
    BY <2>4, TokFacts
  <2> QED
    BY <1>1, <2>1, <2>4, <2>5
<1> QED
  BY <1>4, <1>6, <1>7, <1>8 DEF Sessions

LEMMA FadeKeepsSessions ==
  ASSUME Types, Sessions, Fades
  PROVE  Sessions'
<1>1. /\ DOMAIN tok' = DOMAIN tok /\ inflight' = inflight
      /\ \A t \in DOMAIN tok :
            /\ tok'[t].user = tok[t].user /\ tok'[t].org = tok[t].org /\ tok'[t].family = tok[t].family
            /\ tok'[t].survivor = tok[t].survivor /\ tok'[t].ended = tok[t].ended
            /\ tok'[t].status = "LIVE" => tok[t].status = "LIVE"
            /\ tok'[t].status = "EXPIRED" => tok[t].status \in {"LIVE", "EXPIRED"}
            /\ InFlight(t) => tok'[t].status = tok[t].status
  BY DEF Fades, Faded
<1>2. \A t, i \in DOMAIN tok : SameFamily(t, i)' <=> SameFamily(t, i)
  BY <1>1 DEF SameFamily
<1>3. Families'
  BY <1>1, <1>2 DEF Sessions, Families
<1>4. Tips'
  <2> SUFFICES ASSUME NEW t \in DOMAIN tok, tok'[t].status \in {"LIVE", "EXPIRED"} \/ InFlight(t)'
               PROVE  Tip(t)'
    BY <1>1 DEF Tips
  <2>1. tok[t].status \in {"LIVE", "EXPIRED"} \/ InFlight(t)
    BY <1>1 DEF InFlight
  <2>2. Tip(t)
    BY <2>1 DEF Sessions, Tips
  <2> QED
    BY <1>1, <1>2, <2>2 DEF Tip
<1>5. Exchanged'
  <2> SUFFICES ASSUME NEW r \in inflight, r.op = "refresh"
               PROVE  /\ r.token \in DOMAIN tok
                      /\ tok'[r.token].status = "LIVE" \/ (tok'[r.token].status = "REVOKED" /\ tok'[r.token].ended)
    BY <1>1 DEF Exchanged
  <2>1. r.token \in DOMAIN tok /\ (tok[r.token].status = "LIVE" \/ (tok[r.token].status = "REVOKED" /\ tok[r.token].ended))
    BY DEF Sessions, Exchanged
  <2>2. InFlight(r.token)
    BY RequestFacts DEF InFlight
  <2> QED
    BY <1>1, <2>1, <2>2
<1>6. SessionsEnd'
  <2> SUFFICES ASSUME NEW t \in DOMAIN tok, NEW i \in DOMAIN tok, tok'[t].status = "LIVE", tok'[i].ended,
                      tok'[i].family = tok'[t].family
               PROVE  \E s \in (i + 1)..t : tok'[s].family = tok'[t].family /\ tok'[s].survivor
    BY <1>1 DEF SessionsEnd
  <2>1. PICK s \in (i + 1)..t : tok[s].family = tok[t].family /\ tok[s].survivor
    BY <1>1 DEF Sessions, SessionsEnd
  <2>2. s \in DOMAIN tok
    BY <2>1, TokFacts
  <2> QED
    BY <1>1, <2>1, <2>2
<1> QED
  BY <1>3, <1>4, <1>5, <1>6 DEF Sessions

LEMMA AppendedFacts ==
  ASSUME Types, NEW base \in Seq(Token), Len(base) = Len(tok), NEW x \in Token, tok' = Append(base, x)
  PROVE  /\ tok' \in Seq(Token) /\ Len(tok') = Len(tok) + 1 /\ DOMAIN tok = 1..Len(tok) /\ Len(tok) \in Nat
         /\ DOMAIN tok' = DOMAIN tok \cup {Len(tok) + 1} /\ tok'[Len(tok) + 1] = x
         /\ \A t \in DOMAIN tok : tok'[t] = base[t] /\ t # Len(tok) + 1 /\ t \in 1..(Len(tok) + 1)
<1>1. DOMAIN tok = 1..Len(tok) /\ Len(tok) \in Nat
  BY TokFacts
<1>2. tok' \in Seq(Token) /\ Len(tok') = Len(base) + 1 /\ tok'[Len(base) + 1] = x
      /\ \A i \in 1..Len(base) : tok'[i] = base[i]
  BY AppendProperties
<1>3. DOMAIN tok' = 1..Len(tok')
  BY <1>2, LenProperties
<1> QED
  BY <1>1, <1>2, <1>3

LEMMA NewTokenFacts ==
  ASSUME NEW u \in Users, NEW o \in Users, NEW f \in Nat
  PROVE  /\ NewToken(u, o, f) \in Token /\ ~NewToken(u, o, f).ended /\ NewToken(u, o, f).family = f
         /\ NewToken(u, o, f).user = u /\ NewToken(u, o, f).org = o
  BY DEF NewToken, Token

LEMMA NewSession ==
  ASSUME Types, Sessions, NEW r \in inflight, SaveRefresh(r)
  PROVE  /\ Sessions' /\ tok' \in Seq(Token) /\ Len(tok') <= MaxTokens
         /\ DOMAIN tok' = DOMAIN tok \cup {Len(tok) + 1} /\ \A t \in DOMAIN tok : tok'[t] = tok[t]
         /\ tok'[Len(tok) + 1].user = r.user
<1>0. PICK n : n = Len(tok) + 1
  OBVIOUS
<1> DEFINE x == NewToken(r.user, r.org, n)
<1>1. tok \in Seq(Token) /\ Len(tok) \in Nat /\ \A t \in DOMAIN tok : t \in 1..Len(tok)
  BY TokFacts
<1>2. r.user \in Users /\ r.org \in Users /\ n \in Nat /\ tok' = Append(tok, x) /\ Len(tok) < MaxTokens
      /\ inflight' \subseteq inflight
  BY <1>0, <1>1, RequestFacts DEF SaveRefresh, End
<1>3. x \in Token /\ ~x.ended /\ x.family = n /\ x.user = r.user /\ x.org = r.org
  BY <1>2, NewTokenFacts
<1> HIDE DEF x
<1>4. /\ tok' \in Seq(Token) /\ Len(tok') = n /\ DOMAIN tok' = DOMAIN tok \cup {n} /\ tok'[n] = x
      /\ \A t \in DOMAIN tok : tok'[t] = tok[t] /\ t # n /\ t \in 1..n
  BY <1>0, <1>1, <1>2, <1>3, AppendedFacts
<1>5. \A t \in DOMAIN tok : tok[t].family \in 1..t /\ tok[t].family # n
  BY <1>0, <1>1 DEF Sessions, Families
<1>6. \A t, i \in DOMAIN tok : SameFamily(t, i)' <=> SameFamily(t, i)
  BY <1>4 DEF SameFamily
<1>7. \A t \in DOMAIN tok : ~SameFamily(t, n)' /\ ~SameFamily(n, t)'
  BY <1>3, <1>4, <1>5 DEF SameFamily
<1>8. n \in 1..n
  BY <1>0, <1>1
<1>9. Families'
  <2>1. \A t \in DOMAIN tok' : tok'[t].family \in 1..t
    BY <1>3, <1>4, <1>5, <1>8
  <2>2. \A t, i \in DOMAIN tok' : SameFamily(t, i)' => tok'[t].user = tok'[i].user /\ tok'[t].org = tok'[i].org
    BY <1>4, <1>6, <1>7 DEF Sessions, Families
  <2> QED
    BY <2>1, <2>2 DEF Families
<1>10. Tips'
  <2>1. Tip(n)'
    BY <1>4, <1>7, <1>8 DEF Tip
  <2>2. ASSUME NEW t \in DOMAIN tok, tok'[t].status \in {"LIVE", "EXPIRED"} \/ InFlight(t)'
        PROVE  Tip(t)'
    <3>1. tok[t].status \in {"LIVE", "EXPIRED"} \/ InFlight(t)
      BY <1>2, <1>4, <2>2 DEF InFlight
    <3>2. Tip(t)
      BY <3>1 DEF Sessions, Tips
    <3> QED
      BY <1>4, <1>6, <1>7, <3>2 DEF Tip
  <2> QED
    BY <1>4, <2>1, <2>2 DEF Tips
<1>11. Exchanged'
  BY <1>2, <1>4 DEF Sessions, Exchanged
<1>12. SessionsEnd'
  <2> SUFFICES ASSUME NEW t \in DOMAIN tok', NEW i \in DOMAIN tok', tok'[t].status = "LIVE", tok'[i].ended,
                      tok'[i].family = tok'[t].family
               PROVE  \E s \in (i + 1)..t : tok'[s].family = tok'[t].family /\ tok'[s].survivor
    BY DEF SessionsEnd
  <2>1. i # n /\ i \in DOMAIN tok
    BY <1>3, <1>4
  <2>2. t \in DOMAIN tok
    BY <1>4, <1>7, <2>1 DEF SameFamily
  <2>3. PICK s \in (i + 1)..t : tok[s].family = tok[t].family /\ tok[s].survivor
    BY <1>4, <2>1, <2>2 DEF Sessions, SessionsEnd
  <2>4. s \in DOMAIN tok
    BY <2>1, <2>2, <2>3, TokFacts
  <2> QED
    BY <1>4, <2>2, <2>3, <2>4
<1>13. n <= MaxTokens
  BY <1>0, <1>1, <1>2, AccountsAssumption
<1> QED
  BY <1>0, <1>3, <1>4, <1>9, <1>10, <1>11, <1>12, <1>13 DEF Sessions

LEMMA Rotation ==
  ASSUME Types, Sessions, NEW r \in inflight, RefreshCommit(r)
  PROVE  /\ Sessions' /\ tok' \in Seq(Token) /\ Len(tok') <= MaxTokens
         /\ DOMAIN tok' = DOMAIN tok \cup {Len(tok) + 1} /\ r.token \in DOMAIN tok
         /\ \A t \in DOMAIN tok : tok'[t].user = tok[t].user /\ tok'[t].org = tok[t].org
                                  /\ (tok'[t] = tok[t] \/ t = r.token)
         /\ tok'[Len(tok) + 1].user = tok[r.token].user
<1>0. PICK n : n = Len(tok) + 1
  OBVIOUS
<1> DEFINE k == r.token
           q == [tok[k] EXCEPT !.status = "REVOKED"]
           x == NextToken(tok[k])
           base == [tok EXCEPT ![k] = q]
<1>1. tok \in Seq(Token) /\ Len(tok) \in Nat /\ DOMAIN tok = 1..Len(tok) /\ \A t \in DOMAIN tok : tok[t] \in Token
  BY TokFacts
<1>2. /\ tok' = Append(base, x) /\ Len(tok) < MaxTokens /\ r.op = "refresh" /\ inflight' = inflight \ {r}
  BY DEF RefreshCommit, End
<1>3. /\ k \in DOMAIN tok /\ (tok[k].status = "LIVE" \/ (tok[k].status = "REVOKED" /\ tok[k].ended))
      /\ r = [op |-> "refresh", token |-> k] /\ InFlight(k) /\ Tip(k)
  <2>1. k \in DOMAIN tok /\ (tok[k].status = "LIVE" \/ (tok[k].status = "REVOKED" /\ tok[k].ended))
    BY <1>2 DEF Sessions, Exchanged
  <2>2. r = [op |-> "refresh", token |-> k]
    BY <1>2, RequestFacts
  <2>3. InFlight(k)
    BY <2>2 DEF InFlight
  <2> QED
    BY <2>1, <2>2, <2>3 DEF Sessions, Tips
<1>4. tok[k] \in Token
  BY <1>1, <1>3
<1>5. /\ q \in Token /\ q.user = tok[k].user /\ q.org = tok[k].org /\ q.family = tok[k].family
      /\ q.survivor = tok[k].survivor /\ q.ended = tok[k].ended /\ q.status = "REVOKED"
  BY <1>4 DEF Token
<1>6. /\ x \in Token /\ x.user = tok[k].user /\ x.org = tok[k].org /\ x.family = tok[k].family
      /\ x.survivor = tok[k].ended /\ ~x.ended
  BY <1>4 DEF Token, NextToken, NewToken
<1> HIDE DEF q, x
<1>7. base \in Seq(Token) /\ Len(base) = Len(tok) /\ \A t \in DOMAIN tok : base[t] = IF t = k THEN q ELSE tok[t]
  BY <1>1, <1>3, <1>5, ExceptSeq
<1> HIDE DEF base
<1>8. /\ tok' \in Seq(Token) /\ Len(tok') = n /\ DOMAIN tok' = DOMAIN tok \cup {n} /\ tok'[n] = x
      /\ \A t \in DOMAIN tok : tok'[t] = base[t] /\ t # n /\ t \in 1..n
  BY <1>0, <1>2, <1>6, <1>7, AppendedFacts
<1>9. \A t \in DOMAIN tok : tok'[t] = IF t = k THEN q ELSE tok[t]
  BY <1>7, <1>8
<1>10. /\ n \in DOMAIN tok' /\ n \notin DOMAIN tok /\ n \in 1..n /\ k \in 1..n
       /\ \A t \in DOMAIN tok : t \in Nat /\ t <= n
  BY <1>0, <1>1, <1>3, <1>8
<1> HIDE DEF k
<1>11. \A t \in DOMAIN tok : /\ tok'[t].user = tok[t].user /\ tok'[t].org = tok[t].org
                             /\ tok'[t].family = tok[t].family /\ tok'[t].survivor = tok[t].survivor
                             /\ tok'[t].ended = tok[t].ended
                             /\ t # k => tok'[t] = tok[t]
                             /\ t = k => tok'[t].status = "REVOKED"
  BY <1>5, <1>9
<1>12. \A t, i \in DOMAIN tok : SameFamily(t, i)' <=> SameFamily(t, i)
  BY <1>11 DEF SameFamily
<1>13. \A t \in DOMAIN tok : (SameFamily(t, n)' <=> SameFamily(t, k)) /\ (SameFamily(n, t)' <=> SameFamily(t, k))
  BY <1>6, <1>8, <1>11 DEF SameFamily
<1>14. ASSUME NEW t \in DOMAIN tok, Tip(t), t # k
       PROVE  ~SameFamily(t, k)
  <2>1. SameFamily(t, k) => k <= t /\ t <= k
    BY <1>3, <1>14 DEF Tip, SameFamily
  <2> QED
    BY <1>3, <1>10, <1>14, <2>1
<1>15. ASSUME NEW t \in DOMAIN tok, tok'[t].status \in {"LIVE", "EXPIRED"} \/ InFlight(t)'
       PROVE  t # k /\ tok'[t] = tok[t] /\ Tip(t) /\ ~SameFamily(t, k)
  <2>1. t # k
    BY <1>2, <1>3, <1>11, <1>15 DEF InFlight
  <2>2. tok[t].status \in {"LIVE", "EXPIRED"} \/ InFlight(t)
    BY <1>2, <1>11, <1>15, <2>1 DEF InFlight
  <2>3. Tip(t)
    BY <2>2 DEF Sessions, Tips
  <2> QED
    BY <1>11, <1>14, <2>1, <2>3
<1>16. Families'
  <2>0. \A t \in DOMAIN tok : tok[t].family \in 1..t /\ t \in 1..n
    BY <1>8 DEF Sessions, Families
  <2>1. \A t \in DOMAIN tok' : tok'[t].family \in 1..t
    <3>1. tok'[n].family \in 1..n
      BY <1>3, <1>6, <1>8, <1>10, <2>0
    <3> QED
      BY <1>8, <1>11, <2>0, <3>1
  <2>2. \A t, i \in DOMAIN tok : SameFamily(t, i) => tok[t].user = tok[i].user /\ tok[t].org = tok[i].org
    BY DEF Sessions, Families
  <2>3. tok'[n].user = tok[k].user /\ tok'[n].org = tok[k].org
    BY <1>6, <1>8
  <2>4. \A t, i \in DOMAIN tok' : SameFamily(t, i)' => tok'[t].user = tok'[i].user /\ tok'[t].org = tok'[i].org
    BY <1>3, <1>8, <1>11, <1>12, <1>13, <2>2, <2>3
  <2> QED
    BY <2>1, <2>4 DEF Families
<1>17. Tips'
  <2>1. Tip(n)'
    BY <1>8, <1>10 DEF Tip
  <2>2. ASSUME NEW t \in DOMAIN tok, tok'[t].status \in {"LIVE", "EXPIRED"} \/ InFlight(t)'
        PROVE  Tip(t)'
    <3>1. Tip(t) /\ ~SameFamily(t, k)
      BY <1>15, <2>2
    <3>2. \A i \in DOMAIN tok : SameFamily(i, t)' => i <= t
      BY <1>12, <3>1 DEF Tip
    <3>3. ~SameFamily(n, t)'
      BY <1>13, <3>1
    <3> QED
      BY <1>8, <3>2, <3>3 DEF Tip
  <2> QED
    BY <1>8, <2>1, <2>2 DEF Tips
<1>18. Exchanged'
  <2> SUFFICES ASSUME NEW c \in inflight', c.op = "refresh"
               PROVE  /\ c.token \in DOMAIN tok'
                      /\ tok'[c.token].status = "LIVE" \/ (tok'[c.token].status = "REVOKED" /\ tok'[c.token].ended)
    BY DEF Exchanged
  <2>1. c \in inflight /\ c # r /\ c = [op |-> "refresh", token |-> c.token]
    BY <1>2, RequestFacts
  <2>2. c.token # k
    BY <1>3, <2>1
  <2>3. c.token \in DOMAIN tok
        /\ (tok[c.token].status = "LIVE" \/ (tok[c.token].status = "REVOKED" /\ tok[c.token].ended))
    BY <2>1 DEF Sessions, Exchanged
  <2>4. tok'[c.token] = tok[c.token] /\ c.token \in DOMAIN tok'
    BY <1>8, <1>11, <2>2, <2>3
  <2> QED
    BY <2>3, <2>4
<1>19. SessionsEnd'
  <2> SUFFICES ASSUME NEW t \in DOMAIN tok', NEW i \in DOMAIN tok', tok'[t].status = "LIVE", tok'[i].ended,
                      tok'[i].family = tok'[t].family
               PROVE  \E s \in (i + 1)..t : tok'[s].family = tok'[t].family /\ tok'[s].survivor
    BY DEF SessionsEnd
  <2>1. i # n /\ i \in DOMAIN tok /\ tok[i].ended /\ i \in 1..n
    BY <1>6, <1>8, <1>11
  <2>2. SameFamily(i, t)'
    BY DEF SameFamily
  <2>3. CASE t = n /\ tok[k].ended
    <3>1. n \in (i + 1)..n
      BY <1>10, <2>1
    <3> QED
      BY <1>6, <1>8, <2>3, <3>1
  <2>4. CASE t = n /\ ~tok[k].ended
    <3>1. tok[k].status = "LIVE" /\ SameFamily(i, k)
      BY <1>3, <1>13, <2>1, <2>2, <2>4
    <3>2. PICK s \in (i + 1)..k : tok[s].family = tok[k].family /\ tok[s].survivor
      BY <1>3, <2>1, <3>1 DEF Sessions, SessionsEnd, SameFamily
    <3>3. s \in DOMAIN tok /\ s \in (i + 1)..n
      BY <1>1, <1>3, <1>10, <2>1, <3>2
    <3> QED
      BY <1>6, <1>8, <1>11, <2>4, <3>2, <3>3
  <2>5. CASE t # n
    <3>1. t \in DOMAIN tok /\ tok'[t] = tok[t] /\ tok[t].status = "LIVE" /\ SameFamily(i, t)
      BY <1>8, <1>12, <1>15, <2>1, <2>2, <2>5
    <3>2. PICK s \in (i + 1)..t : tok[s].family = tok[t].family /\ tok[s].survivor
      BY <2>1, <3>1 DEF Sessions, SessionsEnd, SameFamily
    <3>3. s \in DOMAIN tok
      BY <1>1, <2>1, <3>1, <3>2
    <3> QED
      BY <1>11, <3>1, <3>2, <3>3
  <2> QED
    BY <2>3, <2>4, <2>5
<1>20. n <= MaxTokens
  BY <1>0, <1>1, <1>2, AccountsAssumption
<1>21. tok'[n].user = tok[k].user
  BY <1>6, <1>8
<1> QED
  BY <1>0, <1>3, <1>8, <1>11, <1>16, <1>17, <1>18, <1>19, <1>20, <1>21 DEF Sessions, k

LEMMA SessionsStep ==
  ASSUME AccInv, Next \/ UNCHANGED vars
  PROVE  Sessions'
<1>1. Types /\ Sessions
  BY DEF AccInv
<1>2. ASSUME tok' = tok, RefreshesKept
      PROVE  Sessions'
  <2>1. ASSUME NEW t \in DOMAIN tok, InFlight(t)'
        PROVE  InFlight(t) \/ tok[t].status = "LIVE"
    BY <1>2, <2>1 DEF RefreshesKept, InFlight
  <2>2. Tips'
    BY <1>1, <1>2, <2>1 DEF Sessions, Tips, Tip, SameFamily
  <2>3. Exchanged'
    BY <1>1, <1>2 DEF Sessions, Exchanged, RefreshesKept
  <2>4. Families' /\ SessionsEnd'
    BY <1>1, <1>2 DEF Sessions, Families, SessionsEnd, SameFamily
  <2> QED
    BY <2>2, <2>3, <2>4 DEF Sessions
<1>3. UNCHANGED vars => tok' = tok /\ RefreshesKept
  BY DEF vars, acctVars, RefreshesKept
<1> QED
  BY <1>1, <1>2, <1>3, TokStep, RevokeKeepsSessions, FadeKeepsSessions, NewSession, Rotation DEF TokKinds

-----------------------------------------------------------------------------
(* How memberships, invitations and account tokens change.                 *)

\* One membership changes.
MemberMoves(o, u, role) == member' = [member EXCEPT ![o][u] = role]
LEMMA MemberMoved ==
  ASSUME Types, NEW o \in Users, NEW u \in Users, NEW role \in Roles, MemberMoves(o, u, role)
  PROVE  /\ member' \in [Users -> [Users -> Roles]] /\ member'[o][u] = role
         /\ \A p, v \in Users : p # o \/ v # u => member'[p][v] = member[p][v]
  BY Cell DEF Types, MemberMoves

LEMMA MembersStep ==
  ASSUME Types, Next, member' # member
  PROVE  \/ \E u \in Users : Anonymize(u)
         \/ \E o, u \in Users, role \in Roles :
               /\ MemberMoves(o, u, role)
               /\ \/ Register(u) /\ o = u /\ role = "OWNER"
                  \/ Accepts(o, u) /\ role \in InvitationRoles /\ member[o][u] = "NONE"
                  \/ RemoveMember(o, u) /\ role = "NONE" /\ member[o][u] \in InvitationRoles
                  \/ PatchMember(o, u, role) /\ role \in InvitationRoles /\ member[o][u] \in InvitationRoles
<1> DEFINE Goal == \/ \E u \in Users : Anonymize(u)
                   \/ \E o, u \in Users, role \in Roles :
                         /\ MemberMoves(o, u, role)
                         /\ \/ Register(u) /\ o = u /\ role = "OWNER"
                            \/ Accepts(o, u) /\ role \in InvitationRoles /\ member[o][u] = "NONE"
                            \/ RemoveMember(o, u) /\ role = "NONE" /\ member[o][u] \in InvitationRoles
                            \/ PatchMember(o, u, role) /\ role \in InvitationRoles
                               /\ member[o][u] \in InvitationRoles
<1>t. member \in [Users -> [Users -> Roles]] /\ {"NONE", "OWNER"} \cup InvitationRoles \subseteq Roles
  BY DEF Types, Roles
<1>1. ASSUME NEW u \in Users, Register(u)
      PROVE  Goal
  BY <1>1, <1>t DEF Register, MemberMoves
<1>2. ASSUME NEW r \in inflight, AcceptCommit(r)
      PROVE  Goal
  <2>0. PICK o \in Users, u \in Users : r.org = o /\ r.user = u /\ Accepts(o, u)
    BY <1>2, RequestFacts DEF AcceptCommit, Accepts
  <2>1. PICK role \in InvitationRoles : member' = [member EXCEPT ![o][u] = IF @ = "NONE" THEN role ELSE @]
    BY <1>2, <2>0 DEF AcceptCommit
  <2>2. CASE member[o][u] = "NONE"
    <3>1. MemberMoves(o, u, role)
      BY <2>1, <2>2 DEF MemberMoves
    <3> QED
      BY <1>t, <2>0, <2>2, <3>1
  <2>3. CASE member[o][u] # "NONE"
    <3>1. member' = member
      BY <1>t, <2>1, <2>3
    <3> QED
      BY <3>1
  <2> QED
    BY <2>2, <2>3
<1>3. ASSUME NEW o \in Users, NEW u \in Users, RemoveMember(o, u)
      PROVE  Goal
  BY <1>3, <1>t DEF RemoveMember, MemberMoves
<1>4. ASSUME NEW o \in Users, NEW u \in Users, NEW role \in InvitationRoles, PatchMember(o, u, role)
      PROVE  Goal
  BY <1>4, <1>t DEF PatchMember, MemberMoves
<1>5. MembersChange
  BY Frame DEF Framed
<1> HIDE DEF Goal
<1>6. (\E u \in Users : Anonymize(u)) => Goal
  BY DEF Goal
<1>7. Goal
  BY <1>1, <1>2, <1>3, <1>4, <1>5, <1>6 DEF MembersChange
<1> QED
  BY <1>7 DEF Goal

\* One invitation changes.
InvMoves(o, e, v) == inv' = [inv EXCEPT ![o][e] = v]
LEMMA InvMoved ==
  ASSUME Types, NEW o \in Users, NEW e \in Recipients, NEW v \in Invitation, InvMoves(o, e, v)
  PROVE  /\ inv' \in [Users -> [Recipients -> Invitation]] /\ inv'[o][e] = v
         /\ \A p \in Users, a \in Recipients : p # o \/ a # e => inv'[p][a] = inv[p][a]
  BY Cell DEF Types, InvMoves

LEMMA InvStep ==
  ASSUME Types, MailOK, Next, inv' # inv
  PROVE  \E o \in Users, e \in Recipients, v \in Invitation :
            /\ InvMoves(o, e, v)
            /\ \/ \E r \in inflight : /\ InviteCommit(r) /\ r.op = "upsert" /\ r.org = o /\ r.email = e
                                      /\ v.status = "LIVE" /\ v.mail = Len(outbox) + 1
               \/ Accepts(o, e) /\ e \in Users /\ v.status = "ACCEPTED"
               \/ RevokeInvitation(o, e) /\ v.status = "REVOKED"
               \/ ExpireInvitation(o, e) /\ v.status = "EXPIRED"
<1> DEFINE How(o, e, v) ==
              /\ InvMoves(o, e, v)
              /\ \/ \E r \in inflight : /\ InviteCommit(r) /\ r.op = "upsert" /\ r.org = o /\ r.email = e
                                        /\ v.status = "LIVE" /\ v.mail = Len(outbox) + 1
                 \/ Accepts(o, e) /\ e \in Users /\ v.status = "ACCEPTED"
                 \/ RevokeInvitation(o, e) /\ v.status = "REVOKED"
                 \/ ExpireInvitation(o, e) /\ v.status = "EXPIRED"
<1>t. inv \in [Users -> [Recipients -> Invitation]] /\ Users \subseteq Recipients
  BY AccountsAssumption DEF Types
<1>1. ASSUME NEW r \in inflight, InviteCommit(r)
      PROVE  \E o \in Users, e \in Recipients, v \in Invitation : How(o, e, v)
  <2> DEFINE v == [status |-> "LIVE", mail |-> Len(outbox) + 1]
  <2>1. r.op = "upsert" /\ inv' = [inv EXCEPT ![r.org][r.email] = v]
    BY <1>1 DEF InviteCommit
  <2>2. r.org \in Users /\ r.email \in Recipients
    BY <2>1, RequestFacts
  <2>3. Len(outbox) + 1 \in 0..MaxMails
    BY <1>1, InviteMail DEF Added
  <2>4. v \in Invitation /\ v.status = "LIVE" /\ v.mail = Len(outbox) + 1
    BY <2>3 DEF Invitation
  <2>5. How(r.org, r.email, v)
    BY <1>1, <2>1, <2>4 DEF InvMoves
  <2> QED
    BY <2>2, <2>4, <2>5
<1>2. ASSUME NEW o \in Users, NEW e \in Recipients, NEW s \in {"ACCEPTED", "REVOKED", "EXPIRED"},
             inv' = [inv EXCEPT ![o][e].status = s]
      PROVE  \E v \in Invitation : InvMoves(o, e, v) /\ v.status = s
  <2> DEFINE v == [inv[o][e] EXCEPT !.status = s]
  <2>1. \A x \in Invitation : [x EXCEPT !.status = s] \in Invitation /\ [x EXCEPT !.status = s].status = s
    BY DEF Invitation
  <2>2. v \in Invitation /\ v.status = s
    BY <1>t, <2>1
  <2>3. InvMoves(o, e, v)
    BY <1>2 DEF InvMoves
  <2> QED
    BY <2>2, <2>3
<1>3. ASSUME NEW r \in inflight, AcceptCommit(r)
      PROVE  \E o \in Users, e \in Recipients, v \in Invitation : How(o, e, v)
  <2>0. PICK o \in Users, u \in Users : r.org = o /\ r.user = u /\ Accepts(o, u)
    BY <1>3, RequestFacts DEF AcceptCommit, Accepts
  <2>1. inv' = [inv EXCEPT ![o][u].status = "ACCEPTED"]
    BY <1>3, <2>0 DEF AcceptCommit
  <2>2. PICK v \in Invitation : InvMoves(o, u, v) /\ v.status = "ACCEPTED"
    BY <1>2, <1>t, <2>1
  <2>3. How(o, u, v)
    BY <2>0, <2>2
  <2> QED
    BY <1>t, <2>2, <2>3
<1>4. ASSUME NEW o \in Users, NEW e \in Recipients, RevokeInvitation(o, e)
      PROVE  \E v \in Invitation : How(o, e, v)
  <2>1. inv' = [inv EXCEPT ![o][e].status = "REVOKED"]
    BY <1>4 DEF RevokeInvitation
  <2>2. PICK v \in Invitation : InvMoves(o, e, v) /\ v.status = "REVOKED"
    BY <1>2, <2>1
  <2> QED
    BY <1>4, <2>2
<1>5. ASSUME NEW o \in Users, NEW e \in Recipients, ExpireInvitation(o, e)
      PROVE  \E v \in Invitation : How(o, e, v)
  <2>1. inv' = [inv EXCEPT ![o][e].status = "EXPIRED"]
    BY <1>5 DEF ExpireInvitation
  <2>2. PICK v \in Invitation : InvMoves(o, e, v) /\ v.status = "EXPIRED"
    BY <1>2, <2>1
  <2> QED
    BY <1>5, <2>2
<1>6. InvChange
  BY Frame DEF Framed
<1> HIDE DEF How
<1>7. \E o \in Users, e \in Recipients, v \in Invitation : How(o, e, v)
  BY <1>1, <1>3, <1>4, <1>5, <1>6, <1>t DEF InvChange
<1> QED
  BY <1>7 DEF How

\* Account tokens disappear, except when a new one is queued.
LEMMA LiveStep ==
  ASSUME Next
  PROVE  live' \subseteq live \/ \E u \in Users : \E t : AccountEmail(u, t)
<1>1. ASSUME NEW u \in Users, Register(u) \/ ResendVerification(u) \/ ForgotPassword(u)
      PROVE  \E t : AccountEmail(u, t)
  BY <1>1 DEF AccountEmail
<1>2. ASSUME NEW u \in Users, Anonymize(u)
      PROVE  live' \subseteq live
  BY <1>2 DEF Anonymize
<1>3. ASSUME NEW m \in live, VerifyEmail(m) \/ ResetPassword(m) \/ ExpireAccountToken(m)
      PROVE  live' \subseteq live
  BY <1>3 DEF VerifyEmail, ResetPassword, ExpireAccountToken
<1>4. UNCHANGED live \/ LiveChange
  BY Frame DEF Framed
<1> QED
  BY <1>1, <1>2, <1>3, <1>4 DEF LiveChange

-----------------------------------------------------------------------------
(* Types.                                                                  *)

LEMMA UserTypes ==
  ASSUME AccInv, Next
  PROVE  users' \in [Users -> [status : UserStatus, erased : BOOLEAN]]
<1>1. users \in [Users -> [status : UserStatus, erased : BOOLEAN]] /\ Types
  BY DEF AccInv, Types
<1>2. ASSUME NEW u \in Users, Anonymize(u)
      PROVE  users' \in [Users -> [status : UserStatus, erased : BOOLEAN]]
  <2>1. users' = [users EXCEPT ![u] = [status |-> "DELETED", erased |-> TRUE]]
    BY <1>2 DEF Anonymize
  <2>2. [status |-> "DELETED", erased |-> TRUE] \in [status : UserStatus, erased : BOOLEAN]
    BY DEF UserStatus
  <2> QED
    BY <1>1, <2>1, <2>2
<1>3. CASE users' = users
  BY <1>1, <1>3
<1> QED
  BY <1>1, <1>2, <1>3, UsersStep, UserMoved

LEMMA OrgTypes ==
  ASSUME Types, Next
  PROVE  orgs' \in [Users -> {"NONE", "ACTIVE", "SUSPENDED", "CLOSED"}]
<1>1. orgs \in [Users -> {"NONE", "ACTIVE", "SUSPENDED", "CLOSED"}]
  BY DEF Types
<1>2. ASSUME NEW o \in Users, Register(o) \/ \E s \in Statuses : SetOrganizationStatus(o, s)
      PROVE  orgs' \in [Users -> {"NONE", "ACTIVE", "SUSPENDED", "CLOSED"}]
  BY <1>1, <1>2 DEF Register, SetOrganizationStatus, Statuses
<1>3. ASSUME NEW u \in Users, Anonymize(u)
      PROVE  orgs' \in [Users -> {"NONE", "ACTIVE", "SUSPENDED", "CLOSED"}]
  <2>1. orgs' = [o \in Users |-> IF member[o][u] = "OWNER" /\ Members(o) = {u} THEN "CLOSED" ELSE orgs[o]]
    BY <1>3 DEF Anonymize
  <2> QED
    BY <1>1, <2>1
<1>4. UNCHANGED orgs \/ OrgsChange
  BY Frame DEF Framed
<1> QED
  BY <1>1, <1>2, <1>3, <1>4 DEF OrgsChange

LEMMA MemberTypes ==
  ASSUME Types, Next
  PROVE  member' \in [Users -> [Users -> Roles]]
<1>1. member \in [Users -> [Users -> Roles]] /\ "NONE" \in Roles
  BY DEF Types, Roles
<1>2. ASSUME NEW u \in Users, Anonymize(u)
      PROVE  member' \in [Users -> [Users -> Roles]]
  <2>1. member' = [o \in Users |-> [member[o] EXCEPT ![u] = "NONE"]]
    BY <1>2 DEF Anonymize
  <2> QED
    BY <1>1, <2>1
<1>3. CASE member' = member
  BY <1>1, <1>3
<1> QED
  BY <1>2, <1>3, MembersStep, MemberMoved

LEMMA InvTypes ==
  ASSUME Types, MailOK, Next
  PROVE  inv' \in [Users -> [Recipients -> Invitation]]
<1>1. CASE inv' = inv
  BY <1>1 DEF Types
<1>2. CASE inv' # inv
  BY <1>2, InvStep, InvMoved
<1> QED
  BY <1>1, <1>2

LEMMA TokTypes ==
  ASSUME AccInv, Next
  PROVE  tok' \in Seq(Token) /\ Len(tok') <= MaxTokens
<1>1. Types /\ Sessions /\ tok \in Seq(Token) /\ Len(tok) <= MaxTokens
  BY DEF AccInv, Types
<1>2. ASSUME NEW S, RevokeKind(S)
      PROVE  tok' \in Seq(Token) /\ Len(tok') <= MaxTokens
  BY <1>1, <1>2, RevokedFacts DEF RevokeKind
<1>3. CASE Fades
  BY <1>1, <1>3 DEF Fades
<1>4. CASE tok' = tok
  BY <1>1, <1>4
<1> QED
  BY <1>1, <1>2, <1>3, <1>4, TokStep, NewSession, Rotation DEF TokKinds

LEMMA LiveTypes ==
  ASSUME Types, MailOK, Next
  PROVE  live' \subseteq DOMAIN outbox'
<1>1. Grows /\ live \subseteq DOMAIN outbox
  BY MailStep DEF Types
<1>2. CASE live' \subseteq live
  BY <1>1, <1>2 DEF Grows
<1>3. ASSUME NEW u \in Users, NEW t, AccountEmail(u, t)
      PROVE  live' \subseteq DOMAIN outbox'
  <2>1. Added(Len(outbox) + 1, u, t) /\ live' \subseteq live \cup {Len(outbox) + 1}
    BY <1>3, AccountEmailStep
  <2> QED
    BY <1>1, <2>1 DEF Added
<1> QED
  BY <1>2, <1>3, LiveStep

LEMMA InflightTypes ==
  ASSUME Types, Next
  PROVE  inflight' \subseteq Request
<1>1. inflight \subseteq Request
  BY DEF Types
<1>2. ASSUME NEW r, RequestBegins(r)
      PROVE  r \in Request
  <2>1. ASSUME NEW u \in Users, NEW o \in Users, r = [op |-> "session", user |-> u, org |-> o]
        PROVE  r \in Request
    BY <2>1 DEF Request
  <2>2. ASSUME NEW t \in DOMAIN tok, r = [op |-> "refresh", token |-> t]
        PROVE  r \in Request
    BY <2>2, TokFacts DEF Request
  <2>3. ASSUME NEW u \in Users, r = [op |-> "delete", user |-> u] \/ r = [op |-> "cancelDelete", user |-> u]
        PROVE  r \in Request
    BY <2>3 DEF Request
  <2>4. ASSUME NEW o \in Users, NEW e \in Recipients,
               r = [op |-> "invite", org |-> o, email |-> e, seen |-> LiveInvitations(o)]
        PROVE  r \in Request
    <3>1. LiveInvitations(o) \in SUBSET Recipients
      BY DEF LiveInvitations
    <3> QED
      BY <2>4, <3>1 DEF Request
  <2>5. ASSUME NEW o \in Users, NEW u \in Users, r = [op |-> "accept", org |-> o, user |-> u]
        PROVE  r \in Request
    BY <2>5 DEF Request
  <2> QED
    BY <1>2, <2>1, <2>2, <2>3, <2>4, <2>5 DEF RequestBegins
<1>3. ASSUME NEW i \in inflight, NEW r, Upserts(i, r)
      PROVE  r \in Request
  <2>1. i.org \in Users /\ i.email \in Recipients
    BY <1>3, RequestFacts DEF Upserts, InviteChecked
  <2>2. PICK c \in {"NONE"} \cup Plans : r = [op |-> "upsert", org |-> i.org, email |-> i.email, checked |-> c]
    BY <1>3 DEF Upserts
  <2> QED
    BY <2>1, <2>2 DEF Request
<1> QED
  BY <1>1, <1>2, <1>3, RequestsFlow

LEMMA RacedTypes ==
  ASSUME Types, Next
  PROVE  raced' \in BOOLEAN /\ calls' \in 0..MaxCalls /\ plan' \in [Users -> Plans] /\ late' \in [Users -> Nat]
<1>1. raced \in BOOLEAN /\ plan \in [Users -> Plans] /\ late \in [Users -> Nat] /\ calls \in 0..MaxCalls
  BY DEF Types
<1>2. ASSUME NEW r, DeleteMeCommit(r) \/ AcceptCommit(r)
      PROVE  raced' \in BOOLEAN
  BY <1>2 DEF DeleteMeCommit, AcceptCommit
<1>3. ASSUME NEW o, NEW s, SetOrganizationStatus(o, s)
      PROVE  raced' \in BOOLEAN
  BY <1>3 DEF SetOrganizationStatus
<1>4. UNCHANGED raced \/ RacedChange
  BY Frame DEF Framed
<1>5. raced' \in BOOLEAN
  BY <1>1, <1>2, <1>3, <1>4 DEF RacedChange
<1>6. UNCHANGED calls \/ Counted
  BY Frame DEF Framed
<1>7. calls' \in 0..MaxCalls
  BY <1>1, <1>6, AccountsAssumption DEF Counted
<1>8. plan' \in [Users -> Plans]
  <2>1. ASSUME NEW o \in Users, NEW p \in Plans, ChangePlan(o, p)
        PROVE  plan' \in [Users -> Plans]
    BY <1>1, <2>1 DEF ChangePlan
  <2> QED
    BY <1>1, <2>1, Frame DEF Framed, PlanChange
<1>9. late' \in [Users -> Nat]
  <2>1. ASSUME NEW r \in inflight, InviteCommit(r) \/ AcceptCommit(r)
        PROVE  late' \in [Users -> Nat]
    <3>1. r.org \in Users
      BY <2>1, RequestFacts DEF InviteCommit, AcceptCommit
    <3>2. late' = late \/ late' = [late EXCEPT ![r.org] = @ + 1]
      BY <2>1 DEF InviteCommit, AcceptCommit
    <3> QED
      BY <1>1, <3>1, <3>2
  <2> QED
    BY <1>1, <2>1, Frame DEF Framed, LateChange
<1> QED
  BY <1>5, <1>7, <1>8, <1>9

LEMMA TypesStep ==
  ASSUME AccInv, Next \/ UNCHANGED vars
  PROVE  Types'
<1>1. Types /\ MailOK
  BY DEF AccInv
<1>2. CASE UNCHANGED vars
  BY <1>1, <1>2 DEF Types, vars, acctVars, mailVars
<1>3. CASE Next
  BY <1>1, <1>3, UserTypes, OrgTypes, MemberTypes, InvTypes, TokTypes, LiveTypes, InflightTypes, RacedTypes
  DEF Types
<1> QED
  BY <1>2, <1>3

-----------------------------------------------------------------------------
(* Users and their account tokens.                                         *)

LEMMA UserTrail ==
  ASSUME AccInv, Next \/ UNCHANGED vars, NEW u \in Users
  PROVE  /\ Entered(u) => Entered(u)'
         /\ users'[u].erased => users[u].erased \/ (Anonymize(u) /\ Entered(u)')
         /\ users'[u].status = "NONE" => users[u].status = "NONE"
         /\ users'[u].status = "DELETION_PENDING" =>
               \/ users[u].status = "DELETION_PENDING"
               \/ \E r \in inflight : DeleteMeCommit(r) /\ r.op = "delete" /\ r.user = u
<1>1. users \in [Users -> [status : UserStatus, erased : BOOLEAN]] /\ Types
  BY DEF AccInv, Types
<1>2. CASE users' = users
  BY <1>2 DEF Entered
<1>3. ASSUME NEW v \in Users, Anonymize(v)
      PROVE  /\ v # u => users'[u] = users[u]
             /\ v = u => Anonymize(u) /\ users'[u].status = "DELETED"
  <2>1. users' = [users EXCEPT ![v] = [status |-> "DELETED", erased |-> TRUE]]
    BY <1>3 DEF Anonymize
  <2> QED
    BY <1>1, <1>3, <2>1
<1>4. ASSUME NEW v \in Users, Anonymize(v)
      PROVE  /\ Entered(u) => Entered(u)'
             /\ users'[u].erased => users[u].erased \/ (Anonymize(u) /\ Entered(u)')
             /\ users'[u].status \in {"NONE", "DELETION_PENDING"} => users[u].status = users'[u].status
  <2>1. CASE v = u
    BY <1>3, <1>4, <2>1 DEF Entered
  <2>2. CASE v # u
    BY <1>3, <1>4, <2>2 DEF Entered
  <2> QED
    BY <2>1, <2>2
<1>5. ASSUME NEW v \in Users, NEW s \in UserStatus, UserMoves(v, s), v # u
      PROVE  users'[u] = users[u]
  BY <1>1, <1>5, UserMoved
<1>6. ASSUME NEW s \in UserStatus, UserMoves(u, s)
      PROVE  users'[u].status = s /\ users'[u].erased = users[u].erased
  BY <1>1, <1>6, UserMoved
<1>7. CASE Next /\ users' # users
  BY <1>4, <1>5, <1>6, <1>7, UsersStep DEF Entered, Statuses
<1>8. UNCHANGED vars => users' = users
  BY DEF vars, acctVars
<1> QED
  BY <1>2, <1>7, <1>8

LEMMA VerifiedStep ==
  ASSUME AccInv, Next \/ UNCHANGED vars
  PROVE  Verified'
<1>1. Verified /\ Types
  BY DEF AccInv
<1>2. \A u \in Users : users'[u].erased => Entered(u)'
  BY <1>1, UserTrail DEF Verified
<1>3. ASSUME NEW r \in inflight, r.op \in {"delete", "cancelDelete"}
      PROVE  Entered(r.user)'
  <2>1. r.user \in Users /\ Entered(r.user)
    BY <1>1, <1>3, RequestFacts DEF Verified
  <2> QED
    BY <2>1, UserTrail
<1>4. ASSUME NEW r, RequestBegins(r), r.op \in {"delete", "cancelDelete"}
      PROVE  Entered(r.user)'
  <2>1. PICK u \in Users : /\ DeleteMe(u) \/ CancelDeletion(u)
                           /\ r = [op |-> "delete", user |-> u] \/ r = [op |-> "cancelDelete", user |-> u]
    BY <1>4 DEF RequestBegins
  <2>2. users[u].status \in {"ACTIVE", "DELETION_PENDING"} /\ r.user = u /\ users' = users
    BY <2>1 DEF DeleteMe, CancelDeletion, Authenticated
  <2> QED
    BY <2>2 DEF Entered
<1> QED
  BY <1>2, <1>3, <1>4, RequestsFlow DEF Verified

LEMMA AccountTokensStep ==
  ASSUME AccInv, Next \/ UNCHANGED vars
  PROVE  AccountTokens'
<1>1. AccountTokens /\ MailOK /\ Types /\ Grows /\ live \subseteq DOMAIN outbox
  BY MailStep DEF AccInv, Types
<1>2. CASE live' \subseteq live
  <2>1. \A m \in live' : /\ m \in live /\ outbox'[m].to = outbox[m].to
                         /\ outbox'[m].template = outbox[m].template
    BY <1>1, <1>2 DEF Grows
  <2> QED
    BY <1>1, <2>1 DEF AccountTokens
<1>3. ASSUME NEW u \in Users, NEW t, AccountEmail(u, t)
      PROVE  AccountTokens'
  <2>0. PICK n : n = Len(outbox) + 1
    OBVIOUS
  <2>1. Added(n, u, t) /\ live' = (live \ OfKind(u, t)) \cup {n} /\ t \in {"VERIFY_EMAIL", "RESET_PASSWORD"}
    BY <1>1, <1>3, <2>0, AccountEmailStep
  <2>2. outbox'[n].to = u /\ outbox'[n].template = t /\ n \notin live
    BY <1>1, <2>1 DEF Added
  <2>3. \A m \in live' : \/ m = n
                         \/ /\ m \in live \ OfKind(u, t) /\ outbox'[m].to = outbox[m].to
                            /\ outbox'[m].template = outbox[m].template
    BY <1>1, <2>1 DEF Grows
  <2>4. \A m \in live' : outbox'[m].to \in Users /\ outbox'[m].template \in {"VERIFY_EMAIL", "RESET_PASSWORD"}
    BY <1>1, <2>1, <2>2, <2>3 DEF AccountTokens
  <2>5. ASSUME NEW m \in live', NEW i \in live', outbox'[m].to = outbox'[i].to,
               outbox'[m].template = "VERIFY_EMAIL", outbox'[i].template = "VERIFY_EMAIL"
        PROVE  m = i
    <3>1. ASSUME NEW x \in live', x # n, outbox'[x].to = u, outbox'[x].template = "VERIFY_EMAIL"
          PROVE  t # "VERIFY_EMAIL"
      BY <2>3, <3>1 DEF OfKind
    <3>2. CASE m = n \/ i = n
      BY <2>2, <2>5, <3>1, <3>2
    <3>3. CASE m # n /\ i # n
      BY <1>1, <2>3, <2>5, <3>3 DEF AccountTokens
    <3> QED
      BY <3>2, <3>3
  <2> QED
    BY <2>4, <2>5 DEF AccountTokens
<1>4. UNCHANGED vars => live' \subseteq live
  BY DEF vars, acctVars
<1> QED
  BY <1>2, <1>3, <1>4, LiveStep

\* A verification token leaves the set with the user's wait for it.
LEMMA PendingStep ==
  ASSUME AccInv, Next \/ UNCHANGED vars
  PROVE  LiveVerifyMeansPending'
<1>1. LiveVerifyMeansPending /\ AccountTokens /\ MailOK /\ Types /\ Grows /\ live \subseteq DOMAIN outbox
  BY MailStep DEF AccInv, Types
<1> SUFFICES ASSUME NEW m \in live', outbox'[m].template = "VERIFY_EMAIL"
             PROVE  users'[outbox'[m].to].status = "PENDING"
  BY DEF LiveVerifyMeansPending
<1>2. ASSUME m \in live
      PROVE  users'[outbox'[m].to].status = "PENDING"
  <2>0. PICK u : u = outbox[m].to
    OBVIOUS
  <2>1. outbox'[m].to = u /\ outbox[m].template = "VERIFY_EMAIL"
    BY <1>1, <1>2, <2>0 DEF Grows
  <2>2. u \in Users /\ users[u].status = "PENDING" /\ users \in [Users -> [status : UserStatus, erased : BOOLEAN]]
    BY <1>1, <1>2, <2>0, <2>1 DEF AccountTokens, LiveVerifyMeansPending, Types
  <2>3. CASE users' = users
    BY <2>1, <2>2, <2>3
  <2>4. ASSUME NEW v \in Users, Anonymize(v)
        PROVE  users'[u] = users[u]
    <3>1. users' = [users EXCEPT ![v] = [status |-> "DELETED", erased |-> TRUE]] /\ v # u
      BY <2>2, <2>4 DEF Anonymize, Overdue
    <3> QED
      BY <2>2, <3>1
  <2>5. ASSUME NEW v \in Users, NEW s \in UserStatus, UserMoves(v, s), v # u
        PROVE  users'[u] = users[u]
    BY <1>1, <2>2, <2>5, UserMoved
  <2>6. ASSUME NEW i \in live, VerifyEmail(i)
        PROVE  outbox[i].to # u
    <3> SUFFICES ASSUME outbox[i].to = u
                 PROVE  FALSE
      OBVIOUS
    <3>1. outbox[i].template = "VERIFY_EMAIL" /\ live' = live \ {i}
      BY <2>6 DEF VerifyEmail
    <3>2. i = m
      BY <1>1, <1>2, <2>0, <2>1, <3>1 DEF AccountTokens
    <3> QED
      BY <3>1, <3>2
  <2>7. CASE Next /\ users' # users
    <3>1. users'[u] = users[u]
      BY <2>2, <2>4, <2>5, <2>6, <2>7, UsersStep DEF Entered
    <3> QED
      BY <2>1, <2>2, <3>1
  <2> QED
    BY <2>3, <2>7 DEF vars, acctVars
<1>3. ASSUME NEW u \in Users, NEW t, AccountEmail(u, t), m \notin live
      PROVE  users'[outbox'[m].to].status = "PENDING"
  <2>0. PICK n : n = Len(outbox) + 1
    OBVIOUS
  <2>1. Added(n, u, t) /\ m = n
    BY <1>1, <1>3, <2>0, AccountEmailStep
  <2>2. outbox'[m].to = u /\ outbox'[m].template = t
    BY <2>1 DEF Added
  <2>3. Register(u) \/ ResendVerification(u)
    BY <1>3, <2>2 DEF AccountEmail
  <2>4. users'[u].status = "PENDING"
    <3>1. CASE Register(u)
      <4>1. UserMoves(u, "PENDING") /\ "PENDING" \in UserStatus
        BY <3>1 DEF Register, UserMoves, UserStatus
      <4> QED
        BY <1>1, <4>1, UserMoved
    <3>2. CASE ResendVerification(u)
      BY <3>2 DEF ResendVerification
    <3> QED
      BY <2>3, <3>1, <3>2
  <2> QED
    BY <2>2, <2>4
<1>4. m \in live \/ \E u \in Users : \E t : AccountEmail(u, t)
  BY LiveStep DEF vars, acctVars
<1> QED
  BY <1>2, <1>3, <1>4

-----------------------------------------------------------------------------
(* Erased users.                                                           *)

\* A token keeps its user; a new one is for a user whose session is being made.
LEMMA TokensKept ==
  ASSUME AccInv, Next \/ UNCHANGED vars
  PROVE  /\ \A t \in DOMAIN tok : /\ t \in DOMAIN tok' /\ tok'[t].user = tok[t].user
                                  /\ tok[t].status = "ROW_DELETED" => tok'[t].status = "ROW_DELETED"
         /\ \A t \in DOMAIN tok' : \/ t \in DOMAIN tok
                                   \/ \E r \in inflight : \/ r.op = "session" /\ tok'[t].user = r.user
                                                          \/ r.op = "refresh" /\ tok'[t].user = tok[r.token].user
<1> DEFINE Kept == \A t \in DOMAIN tok : /\ t \in DOMAIN tok' /\ tok'[t].user = tok[t].user
                                         /\ tok[t].status = "ROW_DELETED" => tok'[t].status = "ROW_DELETED"
           New == \A t \in DOMAIN tok' : \/ t \in DOMAIN tok
                                         \/ \E r \in inflight :
                                               \/ r.op = "session" /\ tok'[t].user = r.user
                                               \/ r.op = "refresh" /\ tok'[t].user = tok[r.token].user
<1>1. Types /\ Sessions
  BY DEF AccInv
<1>2. CASE tok' = tok
  BY <1>2
<1>3. ASSUME NEW S, RevokeKind(S)
      PROVE  Kept /\ New
  BY <1>1, <1>3, RevokedFacts DEF RevokeKind
<1>4. CASE Fades
  BY <1>4 DEF Fades, Faded
<1>5. ASSUME NEW r \in inflight, SaveRefresh(r)
      PROVE  Kept /\ New
  <2>1. r.op = "session"
    BY <1>5 DEF SaveRefresh
  <2> QED
    BY <1>1, <1>5, <2>1, NewSession
<1>6. ASSUME NEW r \in inflight, RefreshCommit(r)
      PROVE  Kept /\ New
  <2>1. r.op = "refresh" /\ tok[r.token].status # "ROW_DELETED"
    BY <1>1, <1>6 DEF RefreshCommit, Sessions, Exchanged
  <2> QED
    BY <1>1, <1>6, <2>1, Rotation
<1>7. UNCHANGED vars => tok' = tok
  BY DEF vars, acctVars
<1> HIDE DEF Kept, New
<1>8. Kept /\ New
  BY <1>2, <1>3, <1>4, <1>5, <1>6, <1>7, TokStep DEF TokKinds, Kept, New
<1> QED
  BY <1>8 DEF Kept, New

LEMMA NoneRevivedStep ==
  ASSUME AccInv, Next \/ UNCHANGED vars
  PROVE  NoneRevived'
<1>1. Types /\ Sessions /\ NoneRevived /\ ErasedStaysErased
  BY DEF AccInv
<1>2. ASSUME NEW r \in inflight, r.op \in {"session", "accept"}
      PROVE  ~users'[r.user].erased
  <2>1. r.user \in Users /\ ~users[r.user].erased
    BY <1>1, <1>2, RequestFacts DEF NoneRevived
  <2>2. ~Anonymize(r.user)
    BY <1>2 DEF Anonymize, Overdue
  <2> QED
    BY <2>1, <2>2, UserTrail
<1>3. ASSUME NEW r \in inflight, r.op = "refresh"
      PROVE  ~users'[tok'[r.token].user].erased
  <2>1. r.token \in DOMAIN tok
    BY <1>1, <1>3 DEF Sessions, Exchanged
  <2>2. tok[r.token].user \in Users
    BY <1>1, <2>1, TokFacts DEF Token
  <2>3. ~users[tok[r.token].user].erased /\ ~Anonymize(tok[r.token].user)
    BY <1>1, <1>3 DEF NoneRevived, Anonymize, Overdue
  <2>4. tok'[r.token].user = tok[r.token].user
    BY <2>1, TokensKept
  <2> QED
    BY <2>2, <2>3, <2>4, UserTrail
<1>4. \A u, o \in Users : member[o][u] # "NONE" => ~users[u].erased
  BY <1>1 DEF ErasedStaysErased
<1>5. ASSUME NEW r, RequestBegins(r)
      PROVE  /\ r.op = "session" => ~users'[r.user].erased
             /\ r.op = "refresh" => ~users'[tok'[r.token].user].erased
             /\ r.op = "accept" => ~users'[r.user].erased
  <2>1. UNCHANGED <<users, tok>>
    BY <1>5, RequestsBegin
  <2>2. ASSUME NEW u \in Users, NEW o \in Users, Login(u, o) \/ Switch(u, o)
        PROVE  ~users[u].erased
    BY <1>4, <2>2 DEF Login, Switch
  <2>3. ASSUME NEW t \in DOMAIN tok, Refresh(t)
        PROVE  ~users[tok[t].user].erased
    <3>1. tok[t].user \in Users /\ tok[t].org \in Users
      BY <1>1, TokFacts DEF Token
    <3> QED
      BY <1>4, <2>3, <3>1 DEF Refresh
  <2>4. CASE r.op = "session"
    <3>1. PICK u \in Users, o \in Users : (Login(u, o) \/ Switch(u, o)) /\ r = [op |-> "session", user |-> u, org |-> o]
      BY <1>5, <2>4 DEF RequestBegins
    <3> QED
      BY <2>1, <2>2, <2>4, <3>1
  <2>5. CASE r.op = "refresh"
    <3>1. PICK t \in DOMAIN tok : Refresh(t) /\ r = [op |-> "refresh", token |-> t]
      BY <1>5, <2>5 DEF RequestBegins
    <3> QED
      BY <2>1, <2>3, <2>5, <3>1
  <2>6. CASE r.op = "accept"
    <3>1. PICK u \in Users, o \in Users : AcceptInvitation(o, u) /\ r = [op |-> "accept", org |-> o, user |-> u]
      BY <1>5, <2>6 DEF RequestBegins
    <3> QED
      BY <2>1, <2>6, <3>1 DEF AcceptInvitation
  <2> QED
    BY <2>4, <2>5, <2>6
<1> QED
  BY <1>2, <1>3, <1>5, RequestsFlow DEF NoneRevived

LEMMA ErasedStep ==
  ASSUME AccInv, Next \/ UNCHANGED vars
  PROVE  ErasedStaysErased'
<1>1. Types /\ Sessions /\ NoneRevived /\ ErasedStaysErased /\ Verified /\ AccountTokens /\ MailOK /\ Grows
      /\ live \subseteq DOMAIN outbox
  BY MailStep DEF AccInv, Types
<1> DEFINE Gone(u) == /\ \A o \in Users : member[o][u] = "NONE"
                      /\ \A t \in DOMAIN tok : tok[t].user = u => tok[t].status = "ROW_DELETED"
                      /\ \A m \in live : outbox[m].to # u
<1> SUFFICES ASSUME NEW u \in Users, users'[u].erased
             PROVE  Gone(u)'
  BY DEF ErasedStaysErased
<1>2. ASSUME Anonymize(u)
      PROVE  Gone(u)'
  <2>1. \A o \in Users : member'[o][u] = "NONE"
    <3>1. member' = [o \in Users |-> [member[o] EXCEPT ![u] = "NONE"]] /\ member \in [Users -> [Users -> Roles]]
      BY <1>1, <1>2 DEF Anonymize, Types
    <3> QED
      BY <3>1
  <2>2. \A t \in DOMAIN tok' : tok'[t].user = u => tok'[t].status = "ROW_DELETED"
    <3>1. Fades /\ \A t \in DOMAIN tok : tok[t].user = u => tok'[t].status = "ROW_DELETED"
      BY <1>1, <1>2, AnonymizeFades DEF Sessions
    <3> QED
      BY <3>1 DEF Fades, Faded
  <2>3. \A m \in live' : outbox'[m].to # u
    <3>1. live' = {m \in live : outbox[m].to # u \/ outbox[m].template = "INVITE_MEMBER"}
      BY <1>2 DEF Anonymize
    <3>2. \A m \in live' : m \in live /\ outbox[m].to # u
      BY <1>1, <3>1 DEF AccountTokens
    <3> QED
      BY <1>1, <3>2 DEF Grows
  <2> QED
    BY <2>1, <2>2, <2>3
<1>3. ASSUME users[u].erased
      PROVE  Gone(u)'
  <2>1. Gone(u) /\ Entered(u)
    BY <1>1, <1>3 DEF ErasedStaysErased, Verified
  <2>2. \A o \in Users : member'[o][u] = "NONE"
    <3> TAKE o \in Users
    <3>1. member[o][u] = "NONE" /\ "NONE" \notin InvitationRoles
      BY <2>1, AccountsAssumption
    <3>2. CASE member' = member
      BY <3>1, <3>2
    <3>3. ASSUME NEW v \in Users, Anonymize(v)
          PROVE  member'[o][u] = "NONE"
      <4>1. member' = [p \in Users |-> [member[p] EXCEPT ![v] = "NONE"]] /\ member \in [Users -> [Users -> Roles]]
        BY <1>1, <3>3 DEF Anonymize, Types
      <4> QED
        BY <3>1, <4>1
    <3>4. ASSUME NEW p \in Users, NEW v \in Users, NEW role \in Roles, MemberMoves(p, v, role), p # o \/ v # u
          PROVE  member'[o][u] = "NONE"
      BY <1>1, <3>1, <3>4, MemberMoved
    <3>5. ~Register(u) /\ ~Accepts(o, u)
      BY <1>1, <1>3, <2>1 DEF Register, Accepts, AcceptCommit, NoneRevived, Entered
    <3>6. CASE Next /\ member' # member
      BY <1>1, <3>1, <3>3, <3>4, <3>5, <3>6, MembersStep
    <3> QED
      BY <3>2, <3>6 DEF vars, acctVars
  <2>3. \A t \in DOMAIN tok' : tok'[t].user = u => tok'[t].status = "ROW_DELETED"
    <3> SUFFICES ASSUME NEW t \in DOMAIN tok', tok'[t].user = u
                 PROVE  tok'[t].status = "ROW_DELETED"
      OBVIOUS
    <3>1. CASE t \in DOMAIN tok
      BY <2>1, <3>1, TokensKept
    <3>2. CASE t \notin DOMAIN tok
      <4>1. PICK r \in inflight : \/ r.op = "session" /\ tok'[t].user = r.user
                                  \/ r.op = "refresh" /\ tok'[t].user = tok[r.token].user
        BY <3>2, TokensKept
      <4> QED
        BY <1>1, <1>3, <4>1 DEF NoneRevived
    <3> QED
      BY <3>1, <3>2
  <2>4. \A m \in live' : outbox'[m].to # u
    <3>1. CASE live' \subseteq live
      BY <1>1, <2>1, <3>1 DEF Grows
    <3>2. ASSUME NEW v \in Users, NEW t, AccountEmail(v, t)
          PROVE  \A m \in live' : outbox'[m].to # u
      <4>0. PICK n : n = Len(outbox) + 1
        OBVIOUS
      <4>1. Added(n, v, t) /\ live' \subseteq live \cup {n}
        BY <1>1, <3>2, <4>0, AccountEmailStep
      <4>2. v # u
        BY <1>3, <2>1, <3>2 DEF AccountEmail, Register, ResendVerification, ForgotPassword, Entered
      <4>3. outbox'[n].to = v
        BY <4>1 DEF Added
      <4> QED
        BY <1>1, <2>1, <4>1, <4>2, <4>3 DEF Grows
    <3> QED
      BY <3>1, <3>2, LiveStep DEF vars, acctVars
  <2> QED
    BY <2>2, <2>3, <2>4
<1> QED
  BY <1>2, <1>3, UserTrail

-----------------------------------------------------------------------------
(* Owners.                                                                 *)

LEMMA RolesApart ==
  "NONE" \notin InvitationRoles /\ "OWNER" \notin InvitationRoles
  BY AccountsAssumption

LEMMA RacedGrows ==
  ASSUME Next \/ UNCHANGED vars
  PROVE  raced => raced'
<1>1. ASSUME NEW r, DeleteMeCommit(r) \/ AcceptCommit(r)
      PROVE  raced => raced'
  BY <1>1 DEF DeleteMeCommit, AcceptCommit
<1>2. ASSUME NEW o, NEW s, SetOrganizationStatus(o, s)
      PROVE  raced => raced'
  BY <1>2 DEF SetOrganizationStatus
<1> QED
  BY <1>1, <1>2, Frame DEF Framed, RacedChange, vars, acctVars

\* A workspace loses members, or gains one who registers it or accepts an invitation.
LEMMA MembersOf ==
  ASSUME AccInv, Next \/ UNCHANGED vars, NEW o \in Users
  PROVE  \/ Members(o)' \subseteq Members(o)
         \/ \E u \in Users : /\ Members(o)' = Members(o) \cup {u}
                             /\ \/ Register(o) /\ u = o
                                \/ Accepts(o, u) /\ member[o][u] = "NONE"
<1>1. Types /\ member \in [Users -> [Users -> Roles]]
  BY DEF AccInv, Types
<1>2. CASE member' = member
  BY <1>2 DEF Members
<1>3. ASSUME NEW v \in Users, Anonymize(v)
      PROVE  Members(o)' \subseteq Members(o)
  <2>1. member' = [p \in Users |-> [member[p] EXCEPT ![v] = "NONE"]]
    BY <1>3 DEF Anonymize
  <2> QED
    BY <1>1, <2>1 DEF Members
<1>4. ASSUME NEW p \in Users, NEW v \in Users, NEW role \in Roles, MemberMoves(p, v, role)
      PROVE  /\ p # o => Members(o)' = Members(o)
             /\ p = o /\ role = "NONE" => Members(o)' \subseteq Members(o)
             /\ p = o /\ role # "NONE" => Members(o)' = Members(o) \cup {v}
             /\ v \in Members(o) => Members(o)' \subseteq Members(o)
  <2>1. /\ member'[p][v] = role
        /\ \A q, u \in Users : q # p \/ u # v => member'[q][u] = member[q][u]
    BY <1>1, <1>4, MemberMoved
  <2> QED
    BY <2>1 DEF Members
<1>5. ASSUME NEW p \in Users, NEW v \in Users, member[p][v] \in InvitationRoles, p = o
      PROVE  v \in Members(o)
  BY <1>5, RolesApart DEF Members
<1>6. CASE Next /\ member' # member
  <2>1. CASE \E v \in Users : Anonymize(v)
    BY <1>3, <2>1
  <2>2. ASSUME NEW p \in Users, NEW v \in Users, NEW role \in Roles, MemberMoves(p, v, role),
               \/ Register(v) /\ p = v /\ role = "OWNER"
               \/ Accepts(p, v) /\ role \in InvitationRoles /\ member[p][v] = "NONE"
        PROVE  \/ Members(o)' \subseteq Members(o)
               \/ \E u \in Users : /\ Members(o)' = Members(o) \cup {u}
                                   /\ \/ Register(o) /\ u = o
                                      \/ Accepts(o, u) /\ member[o][u] = "NONE"
    BY <1>4, <2>2, RolesApart
  <2>3. ASSUME NEW p \in Users, NEW v \in Users, NEW role \in Roles, MemberMoves(p, v, role),
               member[p][v] \in InvitationRoles
        PROVE  Members(o)' \subseteq Members(o)
    BY <1>4, <1>5, <2>3
  <2> QED
    BY <1>1, <1>6, <2>1, <2>2, <2>3, MembersStep
<1> QED
  BY <1>2, <1>6 DEF vars, acctVars

\* An owner's role ends when the account is anonymized.
LEMMA OwnerTrail ==
  ASSUME AccInv, Next \/ UNCHANGED vars, NEW o \in Users, NEW u \in Users
  PROVE  /\ member'[o][u] = "OWNER" => member[o][u] = "OWNER" \/ (Register(u) /\ o = u)
         /\ member[o][u] = "OWNER" => member'[o][u] = "OWNER" \/ Anonymize(u)
<1>1. Types /\ member \in [Users -> [Users -> Roles]]
  BY DEF AccInv, Types
<1>2. CASE member' = member
  BY <1>2
<1>3. ASSUME NEW v \in Users, Anonymize(v)
      PROVE  member'[o][u] = member[o][u] \/ (v = u /\ member'[o][u] = "NONE")
  <2>1. member' = [p \in Users |-> [member[p] EXCEPT ![v] = "NONE"]]
    BY <1>3 DEF Anonymize
  <2> QED
    BY <1>1, <2>1
<1>4. ASSUME NEW p \in Users, NEW v \in Users, NEW role \in Roles, MemberMoves(p, v, role), p # o \/ v # u
      PROVE  member'[o][u] = member[o][u]
  BY <1>1, <1>4, MemberMoved
<1>5. ASSUME NEW role \in Roles, MemberMoves(o, u, role)
      PROVE  member'[o][u] = role
  BY <1>1, <1>5, MemberMoved
<1>6. CASE Next /\ member' # member
  <2>1. ASSUME NEW v \in Users, Anonymize(v)
        PROVE  /\ member'[o][u] = "OWNER" => member[o][u] = "OWNER" \/ (Register(u) /\ o = u)
               /\ member[o][u] = "OWNER" => member'[o][u] = "OWNER" \/ Anonymize(u)
    BY <1>3, <2>1
  <2>2. ASSUME NEW p \in Users, NEW v \in Users, NEW role \in Roles, MemberMoves(p, v, role),
               \/ Register(v) /\ p = v /\ role = "OWNER"
               \/ Accepts(p, v) /\ role \in InvitationRoles /\ member[p][v] = "NONE"
               \/ RemoveMember(p, v) /\ role = "NONE" /\ member[p][v] \in InvitationRoles
               \/ PatchMember(p, v, role) /\ role \in InvitationRoles /\ member[p][v] \in InvitationRoles
        PROVE  /\ member'[o][u] = "OWNER" => member[o][u] = "OWNER" \/ (Register(u) /\ o = u)
               /\ member[o][u] = "OWNER" => member'[o][u] = "OWNER" \/ Anonymize(u)
    BY <1>4, <1>5, <2>2, RolesApart
  <2> QED
    BY <1>1, <1>6, <2>1, <2>2, MembersStep
<1> QED
  BY <1>2, <1>6 DEF vars, acctVars

LEMMA OwnersStep ==
  ASSUME AccInv, Next \/ UNCHANGED vars
  PROVE  Owners'
<1>1. Types /\ Owners /\ ~raced' => ~raced
  BY RacedGrows DEF AccInv
<1>2. \A o, u \in Users : member'[o][u] = "OWNER" => o = u
  BY OwnerTrail DEF AccInv, Owners
<1>3. ASSUME ~raced', NEW u \in Users, users'[u].status = "DELETION_PENDING", member'[u][u] = "OWNER"
      PROVE  Members(u)' = {u}
  <2>0. Owners /\ Types /\ ~raced
    BY <1>3, RacedGrows DEF AccInv
  <2>1. ~Register(u)
    <3> SUFFICES ASSUME Register(u)
                 PROVE  FALSE
      OBVIOUS
    <3>1. UserMoves(u, "PENDING") /\ "PENDING" \in UserStatus
      BY DEF Register, UserMoves, UserStatus
    <3> QED
      BY <1>3, <2>0, <3>1, UserMoved
  <2>2. member[u][u] = "OWNER" /\ u \in Members(u)'
    BY <1>3, <2>1, OwnerTrail DEF Members
  <2>3. Members(u) = {u}
    <3>1. CASE users[u].status = "DELETION_PENDING"
      BY <2>0, <2>2, <3>1 DEF Owners
    <3>2. ASSUME NEW r \in inflight, DeleteMeCommit(r), r.user = u
          PROVE  Members(u) = {u}
      BY <1>3, <2>2, <3>2 DEF DeleteMeCommit
    <3> QED
      BY <1>3, <3>1, <3>2, UserTrail
  <2>4. users[u].status # "DELETION_PENDING" => UNCHANGED member
    <3>1. ASSUME NEW r \in inflight, DeleteMeCommit(r)
          PROVE  UNCHANGED member
      BY <3>1 DEF DeleteMeCommit
    <3> QED
      BY <1>3, <3>1, UserTrail
  <2>5. CASE Members(u)' \subseteq Members(u)
    BY <2>2, <2>3, <2>5
  <2>6. ASSUME NEW v \in Users, Accepts(u, v), users[u].status = "DELETION_PENDING"
        PROVE  FALSE
    BY <1>3, <2>2, <2>6 DEF Accepts, AcceptCommit
  <2>7. UNCHANGED member => Members(u)' = Members(u)
    BY DEF Members
  <2> QED
    BY <2>1, <2>3, <2>4, <2>5, <2>6, <2>7, MembersOf
<1> QED
  BY <1>2, <1>3 DEF Owners

LEMMA OwnerRemainsStep ==
  ASSUME AccInv, Next \/ UNCHANGED vars
  PROVE  OwnerRemains'
<1> SUFFICES ASSUME ~raced', NEW o \in Users, orgs'[o] \in {"ACTIVE", "SUSPENDED"}
             PROVE  member'[o][o] = "OWNER"
  BY DEF OwnerRemains
<1>1. Types /\ Owners /\ OwnerRemains /\ ~raced
      /\ orgs \in [Users -> {"NONE", "ACTIVE", "SUSPENDED", "CLOSED"}]
  BY RacedGrows DEF AccInv, Types
<1>2. CASE Register(o)
  <2>1. MemberMoves(o, o, "OWNER") /\ "OWNER" \in Roles
    BY <1>2 DEF Register, MemberMoves, Roles
  <2> QED
    BY <1>1, <2>1, MemberMoved
<1>3. CASE orgs[o] \in {"ACTIVE", "SUSPENDED"}
  <2>1. member[o][o] = "OWNER"
    BY <1>1, <1>3 DEF Owners, OwnerRemains
  <2>2. CASE Anonymize(o)
    <3>1. users[o].status = "DELETION_PENDING"
          /\ orgs' = [p \in Users |-> IF member[p][o] = "OWNER" /\ Members(p) = {o} THEN "CLOSED" ELSE orgs[p]]
      BY <2>2 DEF Anonymize, Overdue
    <3>2. Members(o) = {o}
      BY <1>1, <2>1, <3>1 DEF Owners
    <3> QED
      BY <2>1, <3>1, <3>2
  <2> QED
    BY <2>1, <2>2, OwnerTrail
<1>4. ASSUME orgs[o] \notin {"ACTIVE", "SUSPENDED"}
      PROVE  Register(o)
  <2>1. ASSUME NEW p \in Users, Register(p)
        PROVE  p = o
    BY <1>1, <1>4, <2>1 DEF Register
  <2>2. ASSUME NEW p \in Users, NEW s \in Statuses, SetOrganizationStatus(p, s)
        PROVE  FALSE
    <3>1. orgs' = [orgs EXCEPT ![p] = s] /\ orgs[p] # "NONE" /\ (orgs[p] = "CLOSED" => raced')
      BY <2>2 DEF SetOrganizationStatus
    <3>2. p = o
      BY <1>1, <1>4, <3>1
    <3> QED
      BY <1>1, <1>4, <3>1, <3>2
  <2>3. ASSUME NEW p \in Users, Anonymize(p)
        PROVE  FALSE
    BY <1>1, <1>4, <2>3 DEF Anonymize
  <2>4. ~UNCHANGED orgs
    BY <1>4
  <2> QED
    BY <2>1, <2>2, <2>3, <2>4, Frame DEF Framed, OrgsChange, vars, acctVars
<1> QED
  BY <1>2, <1>3, <1>4

-----------------------------------------------------------------------------
(* Seats.                                                                  *)

\* A workspace gains a live invitation when one is created or renewed.
LEMMA InvitationsOf ==
  ASSUME AccInv, Next \/ UNCHANGED vars, NEW o \in Users
  PROVE  \/ LiveInvitations(o)' \subseteq LiveInvitations(o)
         \/ \E r \in inflight : /\ InviteCommit(r) /\ r.op = "upsert" /\ r.org = o
                                /\ LiveInvitations(o)' = LiveInvitations(o) \cup {r.email}
<1>1. Types /\ MailOK
  BY DEF AccInv
<1>2. CASE inv' = inv
  BY <1>2 DEF LiveInvitations
<1>3. ASSUME NEW p \in Users, NEW e \in Recipients, NEW v \in Invitation, InvMoves(p, e, v)
      PROVE  /\ p # o \/ v.status # "LIVE" => LiveInvitations(o)' \subseteq LiveInvitations(o)
             /\ p = o /\ v.status = "LIVE" => LiveInvitations(o)' = LiveInvitations(o) \cup {e}
  <2>1. inv'[p][e] = v /\ \A q \in Users, a \in Recipients : q # p \/ a # e => inv'[q][a] = inv[q][a]
    BY <1>1, <1>3, InvMoved
  <2> QED
    BY <2>1 DEF LiveInvitations
<1>4. CASE Next /\ inv' # inv
  <2>1. PICK p \in Users, e \in Recipients, v \in Invitation :
            /\ InvMoves(p, e, v)
            /\ \/ \E r \in inflight : InviteCommit(r) /\ r.op = "upsert" /\ r.org = p /\ r.email = e /\ v.status = "LIVE"
               \/ v.status # "LIVE"
    BY <1>1, <1>4, InvStep
  <2> QED
    BY <1>3, <2>1
<1> QED
  BY <1>2, <1>4 DEF vars, acctVars

\* Acceptance uses an invitation up.
LEMMA Accepted ==
  ASSUME AccInv, NEW o \in Users, NEW u \in Users, Accepts(o, u)
  PROVE  LiveInvitations(o)' = LiveInvitations(o) \ {u}
<1>1. Types /\ inv \in [Users -> [Recipients -> Invitation]] /\ u \in Recipients
  BY AccountsAssumption DEF AccInv, Types
<1>2. inv' = [inv EXCEPT ![o][u].status = "ACCEPTED"]
  BY DEF Accepts, AcceptCommit
<1> DEFINE v == [inv[o][u] EXCEPT !.status = "ACCEPTED"]
<1>3. \A x \in Invitation : [x EXCEPT !.status = "ACCEPTED"] \in Invitation
                            /\ [x EXCEPT !.status = "ACCEPTED"].status = "ACCEPTED"
  BY DEF Invitation
<1>4. v \in Invitation /\ v.status = "ACCEPTED"
  BY <1>1, <1>3
<1>5. InvMoves(o, u, v)
  BY <1>2 DEF InvMoves
<1> HIDE DEF v
<1>6. inv'[o][u] = v /\ \A a \in Recipients : a # u => inv'[o][a] = inv[o][a]
  BY <1>1, <1>4, <1>5, InvMoved
<1> QED
  BY <1>1, <1>2, <1>4, <1>6 DEF LiveInvitations

LEMMA UnbornStep ==
  ASSUME AccInv, Next \/ UNCHANGED vars
  PROVE  Unborn'
<1> SUFFICES ASSUME NEW o \in Users, users'[o].status = "NONE"
             PROVE  /\ Members(o)' = {} /\ LiveInvitations(o)' = {}
                    /\ \A r \in inflight' : r.op \in {"invite", "upsert", "accept"} => r.org # o
  BY DEF Unborn
<1>1. /\ Types /\ Members(o) = {} /\ LiveInvitations(o) = {}
      /\ \A r \in inflight : r.op \in {"invite", "upsert", "accept"} => r.org # o
  BY UserTrail DEF AccInv, Unborn
<1>2. ~Register(o)
  <2> SUFFICES ASSUME Register(o)
               PROVE  FALSE
    OBVIOUS
  <2>1. UserMoves(o, "PENDING") /\ "PENDING" \in UserStatus
    BY DEF Register, UserMoves, UserStatus
  <2> QED
    BY <1>1, <2>1, UserMoved
<1>3. \A u \in Users : ~Accepts(o, u)
  BY <1>1 DEF Accepts, AcceptCommit
<1>4. Members(o)' = {}
  BY <1>1, <1>2, <1>3, MembersOf
<1>5. LiveInvitations(o)' = {}
  BY <1>1, InvitationsOf
<1>6. ASSUME NEW r, RequestBegins(r), r.op \in {"invite", "upsert", "accept"}
      PROVE  r.org # o
  <2>1. CASE r.op = "accept"
    <3>1. PICK p \in Users, u \in Users : AcceptInvitation(p, u) /\ r.org = p
      BY <1>6, <2>1 DEF RequestBegins
    <3>2. u \in LiveInvitations(p)
      BY <3>1, AccountsAssumption DEF AcceptInvitation, LiveInvitations
    <3> QED
      BY <1>1, <3>1, <3>2
  <2>2. CASE r.op # "accept"
    <3>1. PICK p \in Users, e \in Recipients : Invite(p, e) /\ r.org = p
      BY <1>6, <2>2 DEF RequestBegins
    <3>2. Members(p) # {}
      BY <3>1 DEF Invite, Actor, Authenticated, Members
    <3> QED
      BY <1>1, <3>1, <3>2
  <2> QED
    BY <2>1, <2>2
<1>7. ASSUME NEW i \in inflight, NEW r, Upserts(i, r)
      PROVE  r.org # o
  BY <1>1, <1>7 DEF Upserts, InviteChecked
<1> QED
  BY <1>1, <1>4, <1>5, <1>6, <1>7, RequestsFlow

LEMMA SeatsFinite ==
  ASSUME NEW o
  PROVE  /\ IsFiniteSet(Members(o)) /\ IsFiniteSet(LiveInvitations(o)) /\ IsFiniteSet(Users)
         /\ Cardinality(Members(o)) \in Nat /\ Cardinality(LiveInvitations(o)) \in Nat
<1>1. IsFiniteSet(Recipients)
  BY MailAssumption
<1>2. Members(o) \in SUBSET Recipients /\ LiveInvitations(o) \in SUBSET Recipients /\ Users \in SUBSET Recipients
  BY AccountsAssumption DEF Members, LiveInvitations
<1>3. IsFiniteSet(Members(o)) /\ IsFiniteSet(LiveInvitations(o)) /\ IsFiniteSet(Users)
  BY <1>1, <1>2, FS_Subset
<1> QED
  BY <1>3, FS_CardinalityType

LEMMA LateGrows ==
  ASSUME Types, Next \/ UNCHANGED vars, NEW o \in Users
  PROVE  late[o] \in Nat /\ late'[o] \in Nat /\ late[o] <= late'[o]
<1>1. late \in [Users -> Nat]
  BY DEF Types
<1>2. ASSUME NEW r \in inflight, InviteCommit(r) \/ AcceptCommit(r)
      PROVE  late'[o] \in Nat /\ late[o] <= late'[o]
  <2>1. r.org \in Users
    BY <1>2, RequestFacts DEF InviteCommit, AcceptCommit
  <2>2. late' = late \/ late' = [late EXCEPT ![r.org] = @ + 1]
    BY <1>2 DEF InviteCommit, AcceptCommit
  <2> QED
    BY <1>1, <2>1, <2>2
<1>3. UNCHANGED late => late'[o] \in Nat /\ late[o] <= late'[o]
  BY <1>1
<1>4. UNCHANGED late \/ LateChange
  BY Frame DEF Framed, vars, acctVars
<1> QED
  BY <1>1, <1>2, <1>3, <1>4 DEF LateChange

\* How the seats of a workspace change: they become fewer, or as many more as were taken
\* late; it is registered; or an invitation that was granted a seat takes it.
LEMMA SeatsStep ==
  ASSUME AccInv, Next \/ UNCHANGED vars, NEW o \in Users
  PROVE  /\ Seats(o) \in Nat /\ Seats(o)' \in Nat
         /\ \/ Seats(o)' - late'[o] <= Seats(o) - late[o]
            \/ users[o].status = "NONE" /\ Seats(o)' <= 1
            \/ \E r \in inflight : /\ Holds(r) /\ r.org = o /\ r \notin inflight'
                                   /\ Seats(o)' <= Seats(o) + 1 /\ late'[o] = late[o]
<1> DEFINE M == Members(o)
           L == LiveInvitations(o)
<1>1. Types /\ Unborn /\ late \in [Users -> Nat]
  BY DEF AccInv, Types
<1>2. /\ IsFiniteSet(M) /\ IsFiniteSet(L) /\ Cardinality(M) \in Nat /\ Cardinality(L) \in Nat
      /\ Cardinality(M)' \in Nat /\ Cardinality(L)' \in Nat /\ IsFiniteSet(M') /\ IsFiniteSet(L')
  <2>1. IsFiniteSet(M) /\ IsFiniteSet(L) /\ Cardinality(M) \in Nat /\ Cardinality(L) \in Nat
    BY SeatsFinite
  <2>2. (IsFiniteSet(M) /\ IsFiniteSet(L) /\ Cardinality(M) \in Nat /\ Cardinality(L) \in Nat)'
    BY SeatsFinite, PTL
  <2> QED
    BY <2>1, <2>2
<1>3. late[o] \in Nat /\ late'[o] \in Nat /\ late[o] <= late'[o]
  BY <1>1, LateGrows
<1>4. Seats(o) = Cardinality(M) + Cardinality(L) /\ Seats(o)' = Cardinality(M') + Cardinality(L')
  BY DEF Seats
<1>5. Seats(o) \in Nat /\ Seats(o)' \in Nat
  BY <1>2, <1>4
<1> HIDE DEF M, L
<1>6. CASE M' \subseteq M /\ L' \subseteq L
  <2>1. M' \in SUBSET M /\ L' \in SUBSET L
    BY <1>6
  <2>2. Cardinality(M') <= Cardinality(M) /\ Cardinality(L') <= Cardinality(L)
    BY <1>2, <2>1, FS_Subset
  <2>3. Seats(o)' - late'[o] <= Seats(o) - late[o]
    BY <1>2, <1>3, <1>4, <2>2
  <2> QED
    BY <1>5, <2>3
<1>7. CASE Register(o)
  <2>1. M = {} /\ L = {} /\ L' = L /\ users[o].status = "NONE"
    BY <1>1, <1>7 DEF Register, Unborn, M, L, LiveInvitations
  <2>2. \A u \in Users : ~Accepts(o, u)
    BY <1>1, <2>1 DEF Unborn, Accepts, AcceptCommit
  <2>3. M' = {} \/ M' = {o}
    BY <2>1, <2>2, MembersOf DEF M
  <2>4. Cardinality(M') <= 1 /\ Cardinality(L') = 0
    BY <2>1, <2>3, FS_EmptySet, FS_Singleton
  <2>5. Seats(o)' <= 1
    BY <1>2, <1>4, <2>4
  <2> QED
    BY <1>5, <2>1, <2>5
<1>8. ASSUME NEW u \in Users, Accepts(o, u), member[o][u] = "NONE", M' = M \cup {u}
      PROVE  Seats(o)' - late'[o] <= Seats(o) - late[o]
  <2>1. L' = L \ {u}
    BY <1>8, Accepted DEF L
  <2>2. Cardinality(M') <= Cardinality(M) + 1
    BY <1>2, <1>8, FS_AddElement
  <2>3. CASE u \in L
    <3>1. Cardinality(L') = Cardinality(L) - 1
      BY <1>2, <2>1, <2>3, FS_RemoveElement
    <3> QED
      BY <1>2, <1>3, <1>4, <2>2, <3>1
  <2>4. CASE u \notin L
    <3>1. inv[o][u].status # "LIVE"
      BY <2>4, AccountsAssumption DEF L, LiveInvitations
    <3>2. late' = [late EXCEPT ![o] = @ + 1]
      BY <1>8, <3>1 DEF Accepts, AcceptCommit
    <3>3. late'[o] = late[o] + 1
      BY <1>1, <3>2
    <3>4. L' = L
      BY <2>1, <2>4
    <3> QED
      BY <1>2, <1>3, <1>4, <2>2, <3>3, <3>4
  <2> QED
    BY <2>3, <2>4
<1>9. ASSUME NEW r \in inflight, InviteCommit(r), r.op = "upsert", r.org = o, L' = L \cup {r.email}
      PROVE  \/ Seats(o)' - late'[o] <= Seats(o) - late[o]
             \/ /\ Holds(r) /\ r.org = o /\ r \notin inflight'
                /\ Seats(o)' <= Seats(o) + 1 /\ late'[o] = late[o]
  <2>1. M' = M /\ r \notin inflight'
    BY <1>9 DEF InviteCommit, End, M, Members
  <2>2. CASE r.email \in L
    <3>1. L' = L
      BY <1>9, <2>2
    <3> QED
      BY <1>2, <1>3, <1>4, <2>1, <3>1
  <2>3. CASE r.email \notin L
    <3>1. r.email \in Recipients
      BY <1>1, <1>9, RequestFacts
    <3>2. inv[o][r.email].status # "LIVE"
      BY <2>3, <3>1 DEF L, LiveInvitations
    <3>3. Cardinality(L') = Cardinality(L) + 1
      <4>1. Cardinality(L \cup {r.email}) = Cardinality(L) + 1
        BY <1>2, <2>3, FS_AddElement
      <4> QED
        BY <1>9, <4>1
    <3>4. Seats(o)' = Seats(o) + 1
      BY <1>2, <1>4, <2>1, <3>3
    <3>5. CASE Holds(r)
      <4>1. late' = late
        BY <1>9, <3>5 DEF InviteCommit, Holds
      <4> QED
        BY <1>5, <1>9, <2>1, <3>4, <3>5, <4>1
    <3>6. CASE ~Holds(r)
      <4>1. late' = [late EXCEPT ![o] = @ + 1]
        BY <1>9, <3>2, <3>6 DEF InviteCommit, Holds
      <4>2. late'[o] = late[o] + 1
        BY <1>1, <4>1
      <4> QED
        BY <1>3, <1>5, <3>4, <4>2
    <3> QED
      BY <3>5, <3>6
  <2> QED
    BY <2>2, <2>3
<1>10. \/ M' \subseteq M
       \/ Register(o)
       \/ \E u \in Users : Accepts(o, u) /\ member[o][u] = "NONE" /\ M' = M \cup {u}
  BY MembersOf DEF M
<1>11. \/ L' \subseteq L
       \/ \E r \in inflight : InviteCommit(r) /\ r.op = "upsert" /\ r.org = o /\ L' = L \cup {r.email}
  BY InvitationsOf DEF L
<1> QED
  BY <1>5, <1>6, <1>7, <1>8, <1>9, <1>10, <1>11

LEMMA Limits ==
  /\ \A p : Limit(p) \in Nat /\ Limit(p) >= 1
  BY AccountsAssumption DEF Limit

\* A granted seat stays free until it is taken: others take none but late ones.
LEMMA GrantKept ==
  ASSUME AccInv, Next \/ UNCHANGED vars, NEW r \in inflight, r \in inflight', Holds(r)
  PROVE  Seats(r.org)' < Limit(r.checked) + late'[r.org]
<1> PICK o \in Users : o = r.org
  BY RequestFacts DEF AccInv, Holds
<1>1. Types /\ Unborn /\ Granted
  BY DEF AccInv
<1>2. Seats(o) < Limit(r.checked) + late[o]
  BY <1>1 DEF Granted
<1>3. Limit(r.checked) \in Nat /\ late[o] \in Nat /\ late'[o] \in Nat
  BY <1>1, Limits, LateGrows
<1>4. users[o].status # "NONE"
  BY <1>1 DEF Unborn, Holds
<1>5. ASSUME NEW i \in inflight, Holds(i), i.org = o, i \notin inflight'
      PROVE  FALSE
  <2>1. i = r
    BY <1>1, <1>5 DEF Granted
  <2> QED
    BY <1>5, <2>1
<1>6. Seats(o) \in Nat /\ Seats(o)' \in Nat /\ Seats(o)' - late'[o] <= Seats(o) - late[o]
  BY <1>4, <1>5, SeatsStep
<1> HIDE DEF Limit
<1> QED
  BY <1>2, <1>3, <1>6

\* A seat is granted when the plan leaves one, and no other is granted meanwhile.
LEMMA SeatGranted ==
  ASSUME AccInv, NEW i \in inflight, NEW r, Upserts(i, r), Holds(r)
  PROVE  /\ Seats(r.org)' < Limit(r.checked) + late'[r.org]
         /\ \A k \in inflight : Holds(k) => k.org # r.org
<1>1. PICK c \in {"NONE"} \cup Plans :
         /\ r = [op |-> "upsert", org |-> i.org, email |-> i.email, checked |-> c]
         /\ c # "NONE" => c = plan[i.org] /\ ~QuotaLocked(i.org) /\ enforceMemberQuota(i.org, i.seen)
  BY DEF Upserts
<1>2. /\ r.org = i.org /\ r.checked = c /\ c # "NONE" /\ i.op = "invite"
      /\ UNCHANGED <<member, inv, late>>
  BY <1>1 DEF Upserts, InviteChecked, Holds
<1>3. PICK o \in Users : o = i.org
  BY <1>2, RequestFacts DEF AccInv
<1>4. ~QuotaLocked(o) /\ enforceMemberQuota(o, i.seen) /\ c = plan[o]
  BY <1>1, <1>2, <1>3
<1>5. \A k \in inflight : Holds(k) => k.org # o
  BY <1>4 DEF QuotaLocked, Holds
<1>6. Cardinality(LiveInvitations(o)) <= Cardinality(LiveSince(o, i.seen))
      /\ Cardinality(LiveSince(o, i.seen)) \in Nat
  <2>1. i.seen \in SUBSET Recipients
    BY <1>2 DEF AccInv, Types, Request
  <2>2. LiveSince(o, i.seen) \in SUBSET Recipients /\ LiveInvitations(o) \in SUBSET LiveSince(o, i.seen)
    BY <2>1 DEF LiveSince, LiveInvitations
  <2>3. IsFiniteSet(LiveSince(o, i.seen))
    BY <2>2, MailAssumption, FS_Subset
  <2> QED
    BY <2>2, <2>3, FS_Subset, FS_CardinalityType
<1>7. Seats(o) < Limit(c)
  <2>1. Cardinality(Members(o)) \in Nat /\ Cardinality(LiveInvitations(o)) \in Nat /\ Limit(c) \in Nat
    BY SeatsFinite, Limits
  <2>2. Cardinality(Members(o)) + Cardinality(LiveSince(o, i.seen)) < Limit(c)
    BY <1>4 DEF enforceMemberQuota
  <2> HIDE DEF Limit
  <2> QED
    BY <1>6, <2>1, <2>2 DEF Seats
<1>8. Seats(o)' = Seats(o) /\ late'[o] = late[o] /\ late[o] \in Nat
  BY <1>2 DEF Seats, Members, LiveInvitations, AccInv, Types
<1>9. Seats(o)' < Limit(c) + late'[o]
  <2>1. Seats(o) \in Nat /\ Limit(c) \in Nat
    BY SeatsFinite, Limits DEF Seats
  <2> HIDE DEF Limit
  <2> QED
    BY <1>7, <1>8, <2>1
<1> QED
  BY <1>2, <1>3, <1>5, <1>9

LEMMA GrantedStep ==
  ASSUME AccInv, Next \/ UNCHANGED vars
  PROVE  Granted'
<1>1. \A r, k \in inflight : Holds(r) /\ Holds(k) /\ r.org = k.org => r = k
  BY DEF AccInv, Granted
<1>2. ASSUME NEW r, RequestBegins(r)
      PROVE  ~Holds(r)
  BY <1>2 DEF RequestBegins, Holds
<1>3. \A r \in inflight' : Holds(r) => r \in inflight \/ \E i \in inflight : Upserts(i, r)
  BY <1>2, RequestsFlow
<1>4. ASSUME NEW r \in inflight', Holds(r)
      PROVE  Seats(r.org)' < Limit(r.checked) + late'[r.org]
  BY <1>3, <1>4, GrantKept, SeatGranted
<1>5. ASSUME NEW r \in inflight', NEW k \in inflight', Holds(r), Holds(k), r.org = k.org
      PROVE  r = k
  <2>1. CASE r \in inflight /\ k \in inflight
    BY <1>1, <1>5, <2>1
  <2>2. ASSUME NEW i \in inflight, Upserts(i, r)
        PROVE  r = k
    <3>1. k \notin inflight
      BY <1>5, <2>2, SeatGranted
    <3> QED
      BY <1>5, <2>2, <3>1 DEF Upserts
  <2>3. ASSUME NEW i \in inflight, Upserts(i, k)
        PROVE  r = k
    <3>1. r \notin inflight
      BY <1>5, <2>3, SeatGranted
    <3> QED
      BY <1>5, <2>3, <3>1 DEF Upserts
  <2> QED
    BY <1>3, <1>5, <2>1, <2>2, <2>3
<1>6. \A r : Holds(r)' <=> Holds(r)
  BY DEF Holds
<1> QED
  BY <1>4, <1>5, <1>6 DEF Granted

-----------------------------------------------------------------------------
(* The initial states.                                                     *)

LEMMA Listed ==
  ASSUME NEW S \in SUBSET Users, NEW s, s = SetToSeq(S)
  PROVE  /\ s \in Seq(S) /\ DOMAIN s = 1..Len(s) /\ Len(s) \in Nat /\ Len(s) <= Cardinality(Users)
         /\ \A i \in DOMAIN s : s[i] \in S
         /\ \A i, j \in DOMAIN s : s[i] = s[j] => i = j
<1>1. IsFiniteSet(Users)
  BY SeatsFinite
<1>2. IsFiniteSet(S) /\ Cardinality(S) <= Cardinality(Users)
  BY <1>1, FS_Subset
<1>3. Cardinality(S) \in Nat /\ ExistsBijection(1..Cardinality(S), S)
  BY <1>2, FS_CardinalityType
<1>4. PICK f \in [1..Cardinality(S) -> S] : IsInjective(f)
  BY <1>3, SMTT(30) DEF ExistsBijection, Bijection, Injection, Surjection, IsInjective
<1>5. s \in [1..Cardinality(S) -> S] /\ IsInjective(s)
  BY <1>4 DEF SetToSeq
<1>6. s \in Seq(S) /\ Len(s) = Cardinality(S)
  BY <1>3, <1>5
<1> QED
  BY <1>2, <1>3, <1>5, <1>6 DEF IsInjective

LEMMA InitUsers ==
  ASSUME Init
  PROVE  /\ users \in [Users -> [status : UserStatus, erased : BOOLEAN]]
         /\ \A u \in Users : ~users[u].erased /\ users[u].status \in {"NONE", "PENDING", "ACTIVE"}
         /\ \A o \in Users : orgs[o] = IF users[o].status = "NONE" THEN "NONE" ELSE "ACTIVE"
         /\ \A o, u \in Users : member[o][u] = IF o = u /\ orgs[o] = "ACTIVE" THEN "OWNER" ELSE "NONE"
         /\ \A o \in Users : LiveInvitations(o) = {}
         /\ orgs \in [Users -> {"NONE", "ACTIVE", "SUSPENDED", "CLOSED"}]
         /\ member \in [Users -> [Users -> Roles]]
         /\ inv \in [Users -> [Recipients -> Invitation]]
         /\ plan \in [Users -> Plans]
         /\ inflight = {} /\ calls = 0 /\ raced = FALSE /\ late = [o \in Users |-> 0]
<1>1. /\ users \in [Users -> [status : {"NONE", "PENDING", "ACTIVE"}, erased : {FALSE}]]
      /\ orgs = [u \in Users |-> IF users[u].status = "NONE" THEN "NONE" ELSE "ACTIVE"]
      /\ member = [o \in Users |-> [u \in Users |-> IF o = u /\ orgs[o] = "ACTIVE" THEN "OWNER" ELSE "NONE"]]
      /\ inv = [o \in Users |-> [e \in Recipients |-> [status |-> "NONE", mail |-> 0]]]
      /\ inflight = {} /\ calls = 0 /\ raced = FALSE /\ late = [o \in Users |-> 0]
  BY DEF Init
<1>2. \A u \in Users : users[u] \in [status : {"NONE", "PENDING", "ACTIVE"}, erased : {FALSE}]
  BY <1>1
<1>3. \A u \in Users : ~users[u].erased /\ users[u].status \in {"NONE", "PENDING", "ACTIVE"}
                       /\ users[u] \in [status : UserStatus, erased : BOOLEAN]
  BY <1>2 DEF UserStatus
<1>4. users \in [Users -> [status : UserStatus, erased : BOOLEAN]]
  BY <1>1, <1>3
<1>5. /\ \A o \in Users : orgs[o] = IF users[o].status = "NONE" THEN "NONE" ELSE "ACTIVE"
      /\ orgs \in [Users -> {"NONE", "ACTIVE", "SUSPENDED", "CLOSED"}]
  BY <1>1
<1>6. /\ \A o, u \in Users : member[o][u] = IF o = u /\ orgs[o] = "ACTIVE" THEN "OWNER" ELSE "NONE"
      /\ member \in [Users -> [Users -> Roles]]
  BY <1>1 DEF Roles
<1>7. [status |-> "NONE", mail |-> 0] \in Invitation
  BY MailAssumption DEF Invitation
<1>8. inv \in [Users -> [Recipients -> Invitation]] /\ \A o \in Users : LiveInvitations(o) = {}
  BY <1>1, <1>7 DEF LiveInvitations
<1>9. plan \in [Users -> Plans]
  BY AccountsAssumption DEF Init, Plans
<1> QED
  BY <1>1, <1>3, <1>4, <1>5, <1>6, <1>8, <1>9

LEMMA InitTokens ==
  ASSUME Init
  PROVE  tok \in Seq(Token) /\ Len(tok) <= MaxTokens /\ Sessions
<1> DEFINE S == {u \in Users : users[u].status = "ACTIVE"}
<1>1. PICK s : s = SetToSeq(S) /\ tok = [t \in DOMAIN s |-> NewToken(s[t], s[t], t)]
  BY DEF Init
<1>2. S \in SUBSET Users
  OBVIOUS
<1>3. /\ s \in Seq(S) /\ DOMAIN s = 1..Len(s) /\ Len(s) \in Nat /\ Len(s) <= Cardinality(Users)
      /\ \A i \in DOMAIN s : s[i] \in Users
  BY <1>1, <1>2, Listed
<1>4. DOMAIN tok = DOMAIN s /\ \A t \in DOMAIN tok : tok[t] = NewToken(s[t], s[t], t)
  BY <1>1
<1>5. \A t \in DOMAIN tok : tok[t] \in Token /\ ~tok[t].ended /\ tok[t].family = t
  BY <1>3, <1>4, NewTokenFacts
<1>6. tok \in Seq(Token) /\ Len(tok) = Len(s)
  BY <1>1, <1>3, <1>4, <1>5
<1>7. Cardinality(Users) \in Nat
  BY SeatsFinite, FS_CardinalityType
<1>8. Len(tok) <= MaxTokens
  BY <1>3, <1>6, <1>7, AccountsAssumption, RoomAssumption
<1>9. inflight = {}
  BY DEF Init
<1>10. \A t, i \in DOMAIN tok : SameFamily(t, i) => t = i
  BY <1>5 DEF SameFamily
<1>11. \A t \in DOMAIN tok : t \in Nat /\ t \in 1..t
  BY <1>3, <1>4
<1>12. Families
  BY <1>5, <1>10, <1>11 DEF Families
<1>13. Tips
  BY <1>10, <1>11 DEF Tips, Tip
<1> QED
  BY <1>5, <1>6, <1>8, <1>9, <1>12, <1>13 DEF Sessions, Exchanged, SessionsEnd

LEMMA InitMail ==
  ASSUME Init
  PROVE  /\ MailOK /\ AccountTokens /\ LiveVerifyMeansPending /\ live = DOMAIN outbox
<1> DEFINE S == {u \in Users : users[u].status = "PENDING"}
           q(to) == [to |-> to, template |-> "VERIFY_EMAIL", attempts |-> 0, messageId |-> FALSE,
                     status |-> "PENDING"]
<1>1. PICK s : s = SetToSeq(S) /\ outbox = [m \in DOMAIN s |-> Queued(<<>>, s[m], "VERIFY_EMAIL")[1]]
  BY DEF Init
<1>2. S \in SUBSET Users
  OBVIOUS
<1>3. /\ s \in Seq(S) /\ DOMAIN s = 1..Len(s) /\ Len(s) \in Nat /\ Len(s) <= Cardinality(Users)
      /\ \A i \in DOMAIN s : s[i] \in S
      /\ \A i, j \in DOMAIN s : s[i] = s[j] => i = j
  BY <1>1, <1>2, Listed
<1> HIDE DEF S
<1>4. \A to : Queued(<<>>, to, "VERIFY_EMAIL")[1] = q(to)
  BY DEF Queued
<1>5. \A to \in Users : /\ q(to) \in Mail /\ q(to).to = to /\ q(to).template = "VERIFY_EMAIL"
                        /\ q(to).status = "PENDING"
  BY AccountsAssumption DEF Mail, Templates
<1> HIDE DEF q
<1>6. DOMAIN outbox = DOMAIN s /\ \A m \in DOMAIN outbox : outbox[m] = q(s[m])
  BY <1>1, <1>4
<1>7. \A m \in DOMAIN s : s[m] \in Users /\ users[s[m]].status = "PENDING"
  BY <1>3 DEF S
<1>8. \A m \in DOMAIN outbox : /\ outbox[m] \in Mail /\ outbox[m].to = s[m]
                               /\ outbox[m].template = "VERIFY_EMAIL"
  BY <1>5, <1>6, <1>7
<1>9. outbox \in Seq(Mail) /\ Len(outbox) = Len(s)
  BY <1>1, <1>3, <1>6, <1>8
<1>10. Cardinality(Users) \in Nat
  BY SeatsFinite, FS_CardinalityType
<1>11. Len(outbox) <= MaxMails
  BY <1>3, <1>9, <1>10, MailAssumption, RoomAssumption
<1>12. /\ sent = [m \in DOMAIN outbox |-> 0] /\ live = DOMAIN outbox
       /\ mailer = [w \in Mailers |-> Idle] /\ suppressed = {} /\ mailEvents = {} /\ mailFaults = 0
  BY DEF Init, MailInit
<1>13. sent \in Seq(Nat) /\ Len(sent) = Len(outbox) /\ DOMAIN sent = DOMAIN outbox
       /\ \A m \in DOMAIN sent : sent[m] = 0
  BY <1>3, <1>6, <1>9, <1>12
<1>14. mailer \in [Mailers -> Mailer] /\ \A w \in Mailers : mailer[w] = Idle
  BY <1>12, IdleFacts
<1>15. MailTypeOK
  BY <1>9, <1>11, <1>12, <1>13, <1>14, MailAssumption DEF MailTypeOK
<1>16. Items
  BY <1>3, <1>9, <1>14, IdleFacts DEF Items
<1>17. Deliveries
  <2> SUFFICES ASSUME NEW m \in DOMAIN sent
               PROVE  sent[m] + Cardinality(Carriers(m)) + One(Waiting(m)) <= 1 + mailFaults
    BY DEF Deliveries
  <2>1. Carriers(m) = {}
    BY <1>14 DEF Carriers, Carries, Idle
  <2>2. Cardinality(Carriers(m)) = 0 /\ sent[m] = 0 /\ mailFaults = 0
    BY <1>12, <1>13, <2>1, FS_EmptySet
  <2>3. One(Waiting(m)) \in {0, 1}
    BY DEF One
  <2> QED
    BY <2>2, <2>3
<1>18. AccountTokens
  BY <1>3, <1>6, <1>7, <1>8, <1>12 DEF AccountTokens
<1>19. LiveVerifyMeansPending
  BY <1>6, <1>7, <1>8, <1>12 DEF LiveVerifyMeansPending
<1> QED
  BY <1>12, <1>15, <1>16, <1>17, <1>18, <1>19 DEF MailOK

LEMMA InitInvariant ==
  ASSUME Init
  PROVE  AccInv
<1>1. /\ MailOK /\ AccountTokens /\ LiveVerifyMeansPending /\ live = DOMAIN outbox
      /\ tok \in Seq(Token) /\ Len(tok) <= MaxTokens /\ Sessions
  BY InitMail, InitTokens
<1>2. /\ \A u \in Users : ~users[u].erased /\ users[u].status \in {"NONE", "PENDING", "ACTIVE"}
      /\ \A o \in Users : orgs[o] = IF users[o].status = "NONE" THEN "NONE" ELSE "ACTIVE"
      /\ \A o, u \in Users : member[o][u] = IF o = u /\ orgs[o] = "ACTIVE" THEN "OWNER" ELSE "NONE"
      /\ \A o \in Users : LiveInvitations(o) = {}
      /\ inflight = {}
  BY InitUsers
<1>3. Types
  BY <1>1, InitUsers, AccountsAssumption DEF Types
<1>4. Verified /\ NoneRevived /\ ErasedStaysErased
  BY <1>2 DEF Verified, NoneRevived, ErasedStaysErased
<1>5. Owners /\ OwnerRemains
  BY <1>2 DEF Owners, OwnerRemains
<1>6. Unborn
  BY <1>2 DEF Unborn, Members
<1>7. Granted
  BY <1>2 DEF Granted
<1> QED
  BY <1>1, <1>3, <1>4, <1>5, <1>6, <1>7 DEF AccInv

-----------------------------------------------------------------------------
(* The theorems.                                                           *)

\* What every reachable state satisfies.
THEOREM AccountsInvariant == Spec => []AccInv
<1>1. Init => AccInv
  BY InitInvariant
<1>2. AccInv /\ [Next]_vars => AccInv'
  <2> SUFFICES ASSUME AccInv, Next \/ UNCHANGED vars
               PROVE  AccInv'
    OBVIOUS
  <2>1. Types /\ MailOK
    BY DEF AccInv
  <2>2. MailOK'
    BY <2>1, MailStep
  <2>3. Types' /\ Sessions'
    BY TypesStep, SessionsStep
  <2>4. Verified' /\ AccountTokens' /\ LiveVerifyMeansPending'
    BY VerifiedStep, AccountTokensStep, PendingStep
  <2>5. NoneRevived' /\ ErasedStaysErased'
    BY NoneRevivedStep, ErasedStep
  <2>6. Owners' /\ OwnerRemains'
    BY OwnersStep, OwnerRemainsStep
  <2>7. Unborn' /\ Granted'
    BY UnbornStep, GrantedStep
  <2> QED
    BY <2>2, <2>3, <2>4, <2>5, <2>6, <2>7 DEF AccInv
<1> QED
  BY <1>1, <1>2, PTL DEF Spec

\* Every table keeps its type through every handler, request in flight and mail delivery.
THEOREM AccountsTypes == Spec => []TypeOK
<1>1. AccInv => TypeOK
  BY DEF AccInv, MailOK, Types, TypeOK
<1> QED
  BY <1>1, AccountsInvariant, PTL

\* For any number of mail workers that claim, crash, fail and overtake each other, a message is
\* handed to the provider once, and once more at most for each fault.
THEOREM MailSentOnce == Spec => []MailedOnce
<1>1. ASSUME MailOK
      PROVE  MailedOnce
  <2> SUFFICES ASSUME NEW m \in DOMAIN sent
               PROVE  sent[m] <= 1 + mailFaults
    BY DEF MailedOnce
  <2>1. sent[m] + Cardinality(Carriers(m)) + One(Waiting(m)) <= 1 + mailFaults
    BY <1>1 DEF MailOK, Deliveries
  <2>2. sent[m] \in Nat /\ mailFaults \in Nat /\ Cardinality(Carriers(m)) \in Nat
    BY <1>1, MailTypes, CarriersFinite DEF MailOK
  <2>3. One(Waiting(m)) \in Nat
    BY DEF One
  <2> QED
    BY <2>1, <2>2, <2>3
<1>2. AccInv => MailedOnce
  BY <1>1 DEF AccInv
<1> QED
  BY <1>2, AccountsInvariant, PTL

\* At most one token of a family can be used, for any number of overlapping refreshes,
\* logouts and revocations: only the last token of a family is not revoked.
THEOREM OneLiveToken == Spec => []OneLivePerFamily
<1>1. ASSUME Types, Tips
      PROVE  OneLivePerFamily
  <2> SUFFICES ASSUME NEW t \in DOMAIN tok, NEW i \in DOMAIN tok, tok[t].status = "LIVE",
                      tok[i].status = "LIVE", SameFamily(t, i), SameFamily(i, t)
               PROVE  t = i
    BY DEF OneLivePerFamily, SameFamily
  <2>1. t <= i /\ i <= t
    BY <1>1 DEF Tips, Tip
  <2>2. t \in Nat /\ i \in Nat
    BY <1>1, TokFacts
  <2> QED
    BY <2>1, <2>2
<1>2. AccInv => OneLivePerFamily
  BY <1>1 DEF AccInv, Sessions
<1> QED
  BY <1>2, AccountsInvariant, PTL

\* A reset, suspension, deletion request, role change, removal, administrator's revocation or
\* detected reuse ends the sessions of that moment: a later usable token of the family
\* descends from one that a refresh in flight has inserted unseen.
THEOREM RevokedSessionsEnd == Spec => []SessionsEnd
<1>1. AccInv => SessionsEnd
  BY DEF AccInv, Sessions
<1> QED
  BY <1>1, AccountsInvariant, PTL

\* POST /verify-email sets ACTIVE unconditionally; it never lifts a suspension or a deletion,
\* since a usable verification token belongs to a user who waits for verification.
THEOREM VerifyTokensPending == Spec => []LiveVerifyMeansPending
<1>1. AccInv => LiveVerifyMeansPending
  BY DEF AccInv
<1> QED
  BY <1>1, AccountsInvariant, PTL

\* After anonymization no request in flight, account token, invitation or cancelled deletion
\* brings a membership, a session or an account token of the person back.
THEOREM ErasedForGood == Spec => []ErasedStaysErased
<1>1. AccInv => ErasedStaysErased
  BY DEF AccInv
<1> QED
  BY <1>1, AccountsInvariant, PTL

\* Deletions, removals and role changes leave an owner in every workspace that is not closed,
\* apart from the two races the model records.
THEOREM OwnersRemain == Spec => []OwnerRemains
<1>1. AccInv => OwnerRemains
  BY DEF AccInv
<1> QED
  BY <1>1, AccountsInvariant, PTL

\* However invitations, acceptances, expiries and changes of the plan overlap, a workspace takes
\* another seat only within the plan it was checked against, apart from the seats that late
\* acceptances and renewals have taken, one each: the advisory lock keeps a granted seat free.
THEOREM SeatsStayInPlan == Spec => SeatsGrowWithinPlan
<1> DEFINE Taken(o) == Seats(o)' - late'[o] > Seats(o) - late[o]
           Within(o) == \E p \in Allowing(o) : Seats(o)' <= Limit(p) + late[o]
<1>1. AccInv /\ [Next]_vars => [\A o \in Users : Taken(o) => Within(o)]_vars
  <2> SUFFICES ASSUME AccInv, Next, NEW o \in Users, Taken(o)
               PROVE  Within(o)
    OBVIOUS
  <2>1. Types /\ Granted /\ late[o] \in Nat /\ late'[o] \in Nat
    BY LateGrows DEF AccInv
  <2>2. Seats(o) \in Nat /\ Seats(o)' \in Nat
    BY SeatsStep
  <2>3. ~(Seats(o)' - late'[o] <= Seats(o) - late[o])
    BY <2>1, <2>2
  <2>4. CASE Seats(o)' <= 1
    <3>1. Limit(plan[o]) \in Nat /\ Limit(plan[o]) >= 1 /\ plan[o] \in Allowing(o)
      BY Limits DEF Allowing
    <3> HIDE DEF Limit
    <3>2. Seats(o)' <= Limit(plan[o]) + late[o]
      BY <2>1, <2>2, <2>4, <3>1
    <3> QED
      BY <3>1, <3>2
  <2>5. ASSUME NEW r \in inflight, Holds(r), r.org = o, Seats(o)' <= Seats(o) + 1
        PROVE  Within(o)
    <3>1. Seats(o) < Limit(r.checked) + late[o] /\ Limit(r.checked) \in Nat /\ r.checked \in Allowing(o)
      BY <2>1, <2>5, Limits DEF Granted, Allowing, Holds
    <3> HIDE DEF Limit
    <3>2. Seats(o)' <= Limit(r.checked) + late[o]
      BY <2>1, <2>2, <2>5, <3>1
    <3> QED
      BY <3>1, <3>2
  <2> HIDE DEF Within
  <2> QED
    BY <2>3, <2>4, <2>5, SeatsStep
<1> QED
  BY <1>1, AccountsInvariant, PTL DEF Spec, SeatsGrowWithinPlan

=============================================================================
