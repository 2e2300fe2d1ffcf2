------------------------ MODULE OracleClientsProofs ------------------------
(***************************************************************************)
(* Proofs about OracleClients, for any calls and any number of hashes per  *)
(* call.  The invariant says where a notification can come from: it is of  *)
(* a transaction that was mined and notified once, so that what is on its  *)
(* way settles at most the call that waits for it.                         *)
(***************************************************************************)
EXTENDS OracleClients, SequenceTheorems, TLAPS

\* The oracle has sent no transaction before it was asked to.
SentWhenServed ==
    \A t \in Transactions : transaction[t] # "none" => call[t[1]] # "requested"

\* What an oracle has notified was mined.
PublishedIsMined ==
    \A c \in Clients : \A t \in published[c] : transaction[t] = "mined" /\ ClientOf(t[1]) = c

\* A client subscribes once, and hears only what was notified.
HeardIsPublished ==
    \A c \in Clients :
        /\ subscriptions[c] <= 1
        /\ emitted[c] \subseteq published[c]
        /\ \A i \in DOMAIN feed[c] : feed[c][i].hash \in published[c] /\ ~feed[c][i].error

\* No promise was rejected that nobody awaits.
NoneUnheard == unheard = {}

ClientsInv ==
    /\ ClientsTypeOK
    /\ SentWhenServed
    /\ PublishedIsMined
    /\ HeardIsPublished
    /\ ReturnedIsMined
    /\ RegisteredAreAwaited
    /\ NothingEmittedTwice
    /\ NoneUnheard

-----------------------------------------------------------------------------
(* Helpers. *)

\* A call of froClient has one transaction, which has its name.
LEMMA OneTransaction ==
    ASSUME NEW k \in FroCalls, NEW t \in TransactionsOf(k)
    PROVE  t = <<k, 1>>
<1>1. t \in Calls \X (1..MaxHashes) /\ t[1] = k /\ t[2] <= HashCount(t[1])
  BY DEF TransactionsOf, Transactions
<1>2. t[2] = 1
  BY <1>1 DEF HashCount, Calls
<1>3. QED
  BY <1>1, <1>2

LEMMA TransactionNames ==
    ASSUME NEW t \in Transactions
    PROVE  t[1] \in Calls /\ t[2] \in 1..MaxHashes
BY DEF Transactions

LEMMA ClientOfCall == \A k \in Calls : ClientOf(k) \in Clients
BY DEF ClientOf, Clients

LEMMA InitClients == Init => ClientsInv
<1> SUFFICES ASSUME Init PROVE ClientsInv
  OBVIOUS
<1> USE DEF Init
<1>1. ClientsTypeOK
  <2>1. 0 \in 0..MaxHashes
    BY ClientsAssumption
  <2>2. <<>> \in Seq(Message)
    OBVIOUS
  <2>3. QED
    BY <2>1, <2>2 DEF ClientsTypeOK
<1>2. SentWhenServed /\ PublishedIsMined /\ HeardIsPublished /\ NoneUnheard
  BY DEF SentWhenServed, PublishedIsMined, HeardIsPublished, NoneUnheard
<1>3. ReturnedIsMined
  BY DEF ReturnedIsMined, Calls
<1>4. RegisteredAreAwaited
  BY TransactionNames DEF RegisteredAreAwaited, Clients
<1>5. NothingEmittedTwice
  BY DEF NothingEmittedTwice
<1>6. QED
  BY <1>1, <1>2, <1>3, <1>4, <1>5 DEF ClientsInv

\* What a step leaves alone.  The calls and promises have the same fate as
\* long as the transactions that were mined stay so.
LEMMA SameCalls ==
    ASSUME ClientsInv, call' = call, sent' = sent, resolvers' = resolvers,
           \A t \in Transactions : transaction[t] = "mined" => transaction'[t] = "mined"
    PROVE  ReturnedIsMined' /\ RegisteredAreAwaited'
<1>1. \A k \in Calls : TransactionsOf(k)' = TransactionsOf(k)
  BY DEF TransactionsOf
<1>2. \A k \in Calls : TransactionsOf(k) \subseteq Transactions
  BY DEF TransactionsOf
<1>3. ReturnedIsMined'
  BY <1>1, <1>2 DEF ClientsInv, ReturnedIsMined, Calls
<1>4. RegisteredAreAwaited'
  BY <1>1, TransactionNames DEF ClientsInv, RegisteredAreAwaited
<1>5. QED
  BY <1>3, <1>4

LEMMA SameFeed ==
    ASSUME ClientsInv, UNCHANGED <<published, subscriptions, feed, emitted, unheard>>
    PROVE  HeardIsPublished' /\ NothingEmittedTwice' /\ NoneUnheard'
BY DEF ClientsInv, HeardIsPublished, NothingEmittedTwice, NoneUnheard

LEMMA SamePublished ==
    ASSUME ClientsInv, published' = published,
           \A t \in Transactions : transaction[t] = "mined" => transaction'[t] = "mined"
    PROVE  PublishedIsMined'
BY DEF ClientsInv, ClientsTypeOK, PublishedIsMined

-----------------------------------------------------------------------------
(* The steps. *)

LEMMA ServeStep ==
    ASSUME ClientsInv, NEW k \in Calls, Serve(k)
    PROVE  ClientsInv'
<1> USE ClientsAssumption
<1>1. PICK n \in 0..HashCount(k) :
         /\ sent' = [sent EXCEPT ![k] = n]
         /\ transaction' = [t \in Transactions |->
               IF t[1] = k /\ t[2] <= n THEN "pending" ELSE transaction[t]]
  BY DEF Serve
<1>2. PICK stage \in {"answered", "failed"} : call' = [call EXCEPT ![k] = stage]
  BY DEF Serve
<1>3. /\ call[k] = "requested" /\ ClientsTypeOK
      /\ UNCHANGED <<published, unpublished, link, subscriptions, feed, emitted, resolvers, missed,
                     unheard>>
  BY DEF Serve, ClientsInv, socketVars, clientVars
<1>4. n \in 0..MaxHashes
  BY <1>1 DEF HashCount
<1>5. ClientsTypeOK'
  BY <1>1, <1>2, <1>3, <1>4 DEF ClientsTypeOK
<1>6. /\ call'[k] = stage /\ \A j \in Calls \ {k} : call'[j] = call[j] /\ sent'[j] = sent[j]
  BY <1>1, <1>2, <1>3 DEF ClientsTypeOK
<1>7. SentWhenServed'
  BY <1>1, <1>2, <1>3, <1>6, TransactionNames DEF SentWhenServed, ClientsInv
<1>8. \A t \in Transactions : transaction[t] = "mined" => transaction'[t] = "mined"
  BY <1>1, <1>3 DEF ClientsInv, SentWhenServed
<1>9. PublishedIsMined'
  BY <1>3, <1>8, SamePublished
<1>10. \A j \in Calls \ {k} : TransactionsOf(j)' = TransactionsOf(j)
  BY <1>6 DEF TransactionsOf
<1>11. ReturnedIsMined'
  <2>1. \A j \in FroCalls : call'[j] = "returned" => j # k /\ call[j] = "returned"
    BY <1>2, <1>3, <1>6 DEF Calls
  <2>2. \A j \in FroCalls \ {k} : TransactionsOf(j)' = TransactionsOf(j)
    BY <1>10 DEF Calls
  <2>3. \A j \in Calls : TransactionsOf(j) \subseteq Transactions
    BY DEF TransactionsOf
  <2>4. QED
    BY <1>8, <2>1, <2>2, <2>3 DEF ReturnedIsMined, ClientsInv, Calls
<1>12. RegisteredAreAwaited'
  <2>1. ASSUME NEW t \in Transactions, t[1] = k
        PROVE  t \notin resolvers'["fro"] /\ call'[t[1]] # "waiting"
    BY <1>2, <1>3, <1>6, <2>1 DEF ClientsInv, RegisteredAreAwaited
  <2>2. ASSUME NEW t \in Transactions, t[1] # k
        PROVE  /\ call'[t[1]] = call[t[1]]
               /\ TransactionsOf(t[1])' = TransactionsOf(t[1])
    <3>1. t[1] \in Calls \ {k}
      BY <2>2, TransactionNames
    <3>2. QED
      BY <1>6, <1>10, <3>1
  <2>3. QED
    BY <1>3, <2>1, <2>2 DEF ClientsInv, RegisteredAreAwaited
<1>13. QED
  BY <1>3, <1>5, <1>7, <1>9, <1>11, <1>12, SameFeed DEF ClientsInv

LEMMA AnswerStep ==
    ASSUME ClientsInv, NEW k \in Calls, Answer(k)
    PROVE  ClientsInv'
<1> USE ClientsAssumption
<1> DEFINE stage == IF k \in FroCalls THEN "waiting" ELSE "returned"
<1>1. /\ call[k] = "answered" /\ call' = [call EXCEPT ![k] = stage]
      /\ resolvers' = [resolvers EXCEPT ![ClientOf(k)] = @ \cup TransactionsOf(k)]
      /\ UNCHANGED <<sent, transaction, published, unpublished, link, subscriptions, feed, emitted,
                     missed, unheard>>
      /\ ClientsTypeOK
  BY DEF Answer, getRegisteredPromise, ClientsInv, serverVars, socketVars
<1>2. TransactionsOf(k) \subseteq Transactions /\ \A t \in TransactionsOf(k) : t[1] = k
  BY DEF TransactionsOf
<1>3. ClientsTypeOK'
  BY <1>1, <1>2, ClientOfCall DEF ClientsTypeOK
<1>4. /\ call'[k] = stage /\ \A j \in Calls \ {k} : call'[j] = call[j]
      /\ \A j \in Calls : TransactionsOf(j)' = TransactionsOf(j)
  BY <1>1 DEF ClientsTypeOK, TransactionsOf
<1>5. SentWhenServed'
  BY <1>1, <1>4, TransactionNames DEF SentWhenServed, ClientsInv
<1>6. PublishedIsMined'
  BY <1>1, SamePublished
<1>7. ReturnedIsMined'
  <2>1. \A j \in FroCalls : call'[j] = "returned" => call[j] = "returned"
    BY <1>4 DEF Calls
  <2>2. QED
    BY <1>1, <1>4, <2>1 DEF ReturnedIsMined, ClientsInv, Calls
<1>8. RegisteredAreAwaited'
  <2>1. CASE k \in FroCalls
    <3>1. resolvers'["fro"] = resolvers["fro"] \cup TransactionsOf(k)
      BY <1>1, <2>1 DEF ClientsTypeOK, ClientOf, Clients
    <3>2. ASSUME NEW t \in Transactions
          PROVE  t \in resolvers'["fro"] <=>
                    call'[t[1]] = "waiting" /\ t[1] \in FroCalls /\ t \in TransactionsOf(t[1])'
      <4>1. t[1] \in Calls
        BY TransactionNames
      <4>2. CASE t[1] = k
        BY <1>1, <1>4, <2>1, <3>1, <4>2 DEF ClientsInv, RegisteredAreAwaited
      <4>3. CASE t[1] # k
        BY <1>2, <1>4, <3>1, <4>1, <4>3 DEF ClientsInv, RegisteredAreAwaited
      <4>4. QED
        BY <4>2, <4>3
    <3>3. QED
      BY <3>2 DEF RegisteredAreAwaited
  <2>2. CASE k \notin FroCalls
    <3>1. resolvers'["fro"] = resolvers["fro"]
      BY <1>1, <2>2 DEF ClientsTypeOK, ClientOf, Clients
    <3>2. \A j \in FroCalls : call'[j] = call[j]
      BY <1>4, <2>2 DEF Calls
    <3>3. \A t \in Transactions : TransactionsOf(t[1])' = TransactionsOf(t[1])
      BY <1>4, TransactionNames
    <3>4. QED
      BY <3>1, <3>2, <3>3 DEF ClientsInv, RegisteredAreAwaited
  <2>3. QED
    BY <2>1, <2>2
<1>9. QED
  BY <1>1, <1>3, <1>5, <1>6, <1>7, <1>8, SameFeed DEF ClientsInv

LEMMA MineStep ==
    ASSUME ClientsInv, NEW t \in Transactions, Mine(t)
    PROVE  ClientsInv'
<1>1. /\ transaction[t] = "pending" /\ transaction' = [transaction EXCEPT ![t] = "mined"]
      /\ UNCHANGED <<call, sent, published, unpublished, link, subscriptions, feed, emitted,
                     resolvers, missed, unheard>>
      /\ ClientsTypeOK
  BY DEF Mine, callVars, socketVars, clientVars, ClientsInv
<1>2. ClientsTypeOK'
  BY <1>1 DEF ClientsTypeOK
<1>3. \A u \in Transactions : /\ transaction[u] = "mined" => transaction'[u] = "mined"
                              /\ transaction'[u] # "none" => transaction[u] # "none"
  BY <1>1 DEF ClientsTypeOK
<1>4. SentWhenServed'
  BY <1>1, <1>3 DEF SentWhenServed, ClientsInv
<1>5. QED
  BY <1>1, <1>2, <1>3, <1>4, SameCalls, SameFeed, SamePublished DEF ClientsInv

\* An error is never published.
LEMMA RevertStep ==
    ASSUME ClientsInv, NEW t \in Transactions, Revert(t)
    PROVE  ClientsInv'
<1>1. /\ transaction[t] = "pending" /\ transaction' = [transaction EXCEPT ![t] = "reverted"]
      /\ UNCHANGED <<call, sent, published, unpublished, link, subscriptions, emitted, resolvers,
                     missed, unheard>>
      /\ ClientsTypeOK
  BY DEF Revert, callVars, socketVars, clientVars, ClientsInv
<1>2. \A c \in Clients : feed[c] \o errorNotification(t) = feed[c]
  BY <1>1, ConcatEmptySeq DEF ClientsTypeOK, errorNotification
<1>3. feed' = [c \in Clients |-> feed[c]]
  BY <1>2 DEF Revert
<1>4. feed' = feed
  BY <1>1, <1>3 DEF ClientsTypeOK
<1>5. ClientsTypeOK'
  BY <1>1, <1>4 DEF ClientsTypeOK
<1>6. \A u \in Transactions : /\ transaction[u] = "mined" => transaction'[u] = "mined"
                              /\ transaction'[u] # "none" => transaction[u] # "none"
  BY <1>1 DEF ClientsTypeOK
<1>7. SentWhenServed'
  BY <1>1, <1>6 DEF SentWhenServed, ClientsInv
<1>8. QED
  BY <1>1, <1>4, <1>5, <1>6, <1>7, SameCalls, SameFeed, SamePublished DEF ClientsInv

\* Sequences of one message, and the concatenation.
LEMMA Repeated ==
    ASSUME NEW n \in Nat, NEW S, NEW e \in S
    PROVE  /\ [i \in 1..n |-> e] \in Seq(S) /\ Len([i \in 1..n |-> e]) = n
           /\ \A i \in 1..n : [j \in 1..n |-> e][i] = e
OBVIOUS

LEMMA Concatenated ==
    ASSUME NEW S, NEW s \in Seq(S), NEW u \in Seq(S)
    PROVE  /\ s \o u \in Seq(S)
           /\ DOMAIN (s \o u) = 1..(Len(s) + Len(u))
           /\ \A i \in 1..Len(s) : (s \o u)[i] = s[i]
           /\ \A i \in 1..Len(u) : (s \o u)[Len(s) + i] = u[i]
<1>1. s \o u \in Seq(S) /\ Len(s \o u) = Len(s) + Len(u)
  OBVIOUS
<1>2. DOMAIN (s \o u) = 1..Len(s \o u)
  BY <1>1
<1>3. QED
  BY <1>1, <1>2

\* One subscription, one message: what was notified before is on its way or
\* emitted, and this transaction is new.
LEMMA PublishStep ==
    ASSUME ClientsInv, NEW c \in Clients, NEW t \in Transactions, Publish(c, t)
    PROVE  ClientsInv'
<1> DEFINE message == [hash |-> t, error |-> FALSE]
           messages == [i \in 1..subscriptions[c] |-> message]
<1>1. /\ c = ClientOf(t[1]) /\ transaction[t] = "mined" /\ t \notin published[c]
      /\ published' = [published EXCEPT ![c] = @ \cup {t}]
      /\ UNCHANGED <<call, sent, transaction, unpublished, link, subscriptions, emitted, resolvers,
                     unheard>>
      /\ ClientsTypeOK
  BY DEF Publish, callVars, socketVars, ClientsInv
<1>2. subscriptions[c] \in {0, 1}
  BY <1>1 DEF ClientsInv, HeardIsPublished, ClientsTypeOK
<1>3. message \in Message
  BY DEF Message
<1>4. messages \in Seq(Message) /\ Len(messages) = subscriptions[c]
      /\ \A i \in 1..subscriptions[c] : messages[i] = message
  <2>1. subscriptions[c] \in Nat
    BY <1>2
  <2> HIDE DEF message
  <2>2. QED
    BY <1>3, <2>1, Repeated, Zenon
<1>5. feed[c] \in Seq(Message)
  BY <1>1 DEF ClientsTypeOK
<1>a. \/ feed' = [feed EXCEPT ![c] = feed[c] \o messages]
      \/ feed' = [feed EXCEPT ![c] = feed[c]]
  <2>1. feed = [feed EXCEPT ![c] = feed[c]]
    BY <1>1 DEF ClientsTypeOK
  <2>2. QED
    BY <2>1 DEF Publish
<1>b. missed' \in [Clients -> SUBSET Transactions]
  <2>1. missed' = [missed EXCEPT ![c] = @ \cup {t}] \/ missed' = missed
    BY DEF Publish
  <2>2. missed \in [Clients -> SUBSET Transactions]
    BY <1>1 DEF ClientsTypeOK
  <2>3. [missed EXCEPT ![c] = @ \cup {t}] \in [Clients -> SUBSET Transactions]
    BY <2>2
  <2>4. QED
    BY <2>1, <2>2, <2>3
<1>13. message.hash = t /\ ~message.error
  OBVIOUS
<1> HIDE DEF message, messages
<1>6. PICK new \in Seq(Message) :
         /\ feed' = [feed EXCEPT ![c] = new]
         /\ \A i \in DOMAIN new :
               \/ i \in DOMAIN feed[c] /\ new[i] = feed[c][i]
               \/ i = Len(feed[c]) + 1 /\ new[i] = message
  <2>1. /\ feed[c] \o messages \in Seq(Message)
        /\ \A i \in DOMAIN (feed[c] \o messages) :
             \/ i \in DOMAIN feed[c] /\ (feed[c] \o messages)[i] = feed[c][i]
             \/ i = Len(feed[c]) + 1 /\ (feed[c] \o messages)[i] = message
    <3>1. DOMAIN feed[c] = 1..Len(feed[c]) /\ Len(feed[c]) \in Nat
      BY <1>5
    <3>2. /\ feed[c] \o messages \in Seq(Message)
          /\ DOMAIN (feed[c] \o messages) = 1..(Len(feed[c]) + Len(messages))
          /\ \A i \in 1..Len(feed[c]) : (feed[c] \o messages)[i] = feed[c][i]
          /\ \A i \in 1..Len(messages) : (feed[c] \o messages)[Len(feed[c]) + i] = messages[i]
      <4>1. PICK f \in Seq(Message), g \in Seq(Message) : f = feed[c] /\ g = messages
        BY <1>4, <1>5
      <4>2. /\ f \o g \in Seq(Message)
            /\ DOMAIN (f \o g) = 1..(Len(f) + Len(g))
            /\ \A i \in 1..Len(f) : (f \o g)[i] = f[i]
            /\ \A i \in 1..Len(g) : (f \o g)[Len(f) + i] = g[i]
        BY Concatenated
      <4>3. QED
        BY <4>1, <4>2
    <3>3. QED
      BY <1>2, <1>4, <3>1, <3>2
  <2>2. QED
    BY <1>5, <1>a, <2>1
<1>8. ClientsTypeOK'
  BY <1>1, <1>6, <1>b DEF ClientsTypeOK
<1>9. SentWhenServed'
  BY <1>1 DEF SentWhenServed, ClientsInv
<1>10. PublishedIsMined'
  BY <1>1 DEF PublishedIsMined, ClientsInv, ClientsTypeOK
<1>11. \A d \in Clients : d # c => feed'[d] = feed[d] /\ published'[d] = published[d]
  BY <1>1, <1>6 DEF ClientsTypeOK
<1>12. feed'[c] = new /\ published'[c] = published[c] \cup {t}
  BY <1>1, <1>6 DEF ClientsTypeOK
<1>14. ASSUME NEW d \in Clients
       PROVE  /\ subscriptions'[d] <= 1
              /\ emitted'[d] \subseteq published'[d]
              /\ \A i \in DOMAIN feed'[d] : feed'[d][i].hash \in published'[d] /\ ~feed'[d][i].error
  BY <1>1, <1>6, <1>11, <1>12, <1>13 DEF ClientsInv, HeardIsPublished
<1>15. ASSUME NEW d \in Clients
       PROVE  /\ \A i \in DOMAIN feed'[d] : feed'[d][i].hash \notin emitted'[d]
              /\ \A i, j \in DOMAIN feed'[d] : feed'[d][i].hash = feed'[d][j].hash => i = j
  <2>1. CASE d # c
    BY <1>1, <1>11, <2>1 DEF ClientsInv, NothingEmittedTwice
  <2>2. CASE d = c
    <3>1. \A i \in DOMAIN feed[c] : feed[c][i].hash # t
      BY <1>1 DEF ClientsInv, HeardIsPublished
    <3>2. t \notin emitted[c]
      BY <1>1 DEF ClientsInv, HeardIsPublished
    <3>3. QED
      BY <1>1, <1>6, <1>12, <1>13, <2>2, <3>1, <3>2 DEF ClientsInv, NothingEmittedTwice
  <2>3. QED
    BY <2>1, <2>2
<1>16. NoneUnheard'
  BY <1>1 DEF ClientsInv, NoneUnheard
<1>17. QED
  BY <1>1, <1>8, <1>9, <1>10, <1>14, <1>15, <1>16, SameCalls
     DEF ClientsInv, HeardIsPublished, NothingEmittedTwice

LEMMA FailToPublishStep ==
    ASSUME ClientsInv, NEW t \in Transactions, FailToPublish(t)
    PROVE  ClientsInv'
<1>1. /\ unpublished' = unpublished \cup {t}
      /\ UNCHANGED <<call, sent, transaction, published, link, subscriptions, feed, emitted,
                     resolvers, missed, unheard>>
      /\ ClientsTypeOK
  BY DEF FailToPublish, callVars, socketVars, clientVars, ClientsInv
<1>2. ClientsTypeOK' /\ SentWhenServed'
  BY <1>1 DEF ClientsInv, ClientsTypeOK, SentWhenServed
<1>3. QED
  BY <1>1, <1>2, SameCalls, SameFeed, SamePublished DEF ClientsInv

\* The message is of a mined transaction, once: it ends the call that waits
\* for this transaction, and no other.
LEMMA HandleStep ==
    ASSUME ClientsInv, NEW c \in Clients, Handle(c)
    PROVE  ClientsInv'
<1> USE ClientsAssumption
<1> DEFINE m == Head(feed[c])
<1>1. /\ feed[c] # <<>> /\ feed' = [feed EXCEPT ![c] = Tail(feed[c])]
      /\ emitted' = [emitted EXCEPT ![c] = @ \cup {m.hash}]
      /\ call' = Settled(c, m)
      /\ resolvers' = [resolvers EXCEPT ![c] = @ \ {m.hash}]
      /\ missed' = [missed EXCEPT ![c] = @ \cup ({m.hash} \ resolvers[c])]
      /\ unheard' = unheard \cup (IF m.error /\ call' = call
                                  THEN {m.hash} \cap resolvers[c] ELSE {})
      /\ UNCHANGED <<sent, transaction, published, unpublished, link, subscriptions>>
      /\ ClientsTypeOK
  BY DEF Handle, serverVars, socketVars, ClientsInv
<1>2. feed[c] \in Seq(Message)
  BY <1>1 DEF ClientsTypeOK
<1>3. /\ Tail(feed[c]) \in Seq(Message) /\ m \in Message /\ m = feed[c][1]
      /\ 1 \in DOMAIN feed[c]
      /\ \A i \in DOMAIN Tail(feed[c]) :
            i + 1 \in DOMAIN feed[c] /\ Tail(feed[c])[i] = feed[c][i + 1] /\ i + 1 # 1 /\ i \in Nat
  BY <1>1, <1>2
<1>4. m.hash \in published[c] /\ ~m.error
  BY <1>3 DEF ClientsInv, HeardIsPublished
<1>5. m.hash \in Transactions /\ transaction[m.hash] = "mined" /\ ClientOf(m.hash[1]) = c
  <2>1. published[c] \subseteq Transactions
    BY <1>1 DEF ClientsTypeOK
  <2>2. QED
    BY <1>4, <2>1 DEF ClientsInv, PublishedIsMined
<1> HIDE DEF m
<1>6. \A k \in Calls : call'[k] =
         IF call[k] = "waiting" /\ ClientOf(k) = c /\ m.hash \in TransactionsOf(k) \cap resolvers[c]
         THEN "returned" ELSE call[k]
  BY <1>1, <1>4 DEF Settled
<1>7. ClientsTypeOK'
  <2>1. call' \in [Calls -> {"requested", "answered", "waiting", "returned", "failed"}]
    BY <1>1, <1>4 DEF Settled, ClientsTypeOK
  <2>2. feed' \in [Clients -> Seq(Message)]
    BY <1>1, <1>3 DEF ClientsTypeOK
  <2>3. /\ emitted' \in [Clients -> SUBSET Transactions]
        /\ resolvers' \in [Clients -> SUBSET Transactions]
        /\ missed' \in [Clients -> SUBSET Transactions]
    BY <1>1, <1>5 DEF ClientsTypeOK
  <2>4. unheard' = unheard
    BY <1>1, <1>4
  <2>5. QED
    BY <1>1, <2>1, <2>2, <2>3, <2>4 DEF ClientsTypeOK
<1>8. SentWhenServed'
  BY <1>1, <1>6, TransactionNames DEF SentWhenServed, ClientsInv
<1>9. PublishedIsMined'
  BY <1>1, SamePublished
<1>10. feed'[c] = Tail(feed[c]) /\ emitted'[c] = emitted[c] \cup {m.hash}
       /\ \A d \in Clients : d # c => feed'[d] = feed[d] /\ emitted'[d] = emitted[d]
  BY <1>1 DEF ClientsTypeOK
<1>11. HeardIsPublished'
  <2>1. ASSUME NEW d \in Clients
        PROVE  /\ subscriptions'[d] <= 1
               /\ emitted'[d] \subseteq published'[d]
               /\ \A i \in DOMAIN feed'[d] :
                     feed'[d][i].hash \in published'[d] /\ ~feed'[d][i].error
    BY <1>1, <1>3, <1>4, <1>10 DEF ClientsInv, HeardIsPublished
  <2>2. QED
    BY <2>1 DEF HeardIsPublished
<1>12. NothingEmittedTwice'
  <2>1. ASSUME NEW d \in Clients
        PROVE  /\ \A i \in DOMAIN feed'[d] : feed'[d][i].hash \notin emitted'[d]
               /\ \A i, j \in DOMAIN feed'[d] : feed'[d][i].hash = feed'[d][j].hash => i = j
    <3>1. CASE d # c
      BY <1>10, <3>1 DEF ClientsInv, NothingEmittedTwice
    <3>2. CASE d = c
      <4>1. \A i \in DOMAIN Tail(feed[c]) : feed[c][i + 1].hash \notin emitted[c] \cup {m.hash}
        BY <1>3 DEF ClientsInv, NothingEmittedTwice
      <4>2. \A i, j \in DOMAIN Tail(feed[c]) :
               feed[c][i + 1].hash = feed[c][j + 1].hash => i + 1 = j + 1
        BY <1>3 DEF ClientsInv, NothingEmittedTwice
      <4>3. \A i, j \in DOMAIN Tail(feed[c]) : i + 1 = j + 1 => i = j
        BY <1>3
      <4>4. feed'[d] = Tail(feed[c]) /\ emitted'[d] = emitted[c] \cup {m.hash}
        BY <1>10, <3>2
      <4>5. \A i \in DOMAIN Tail(feed[c]) : Tail(feed[c])[i].hash = feed[c][i + 1].hash
        BY <1>3
      <4>6. \A i \in DOMAIN feed'[d] : feed'[d][i].hash \notin emitted'[d]
        BY <4>1, <4>4, <4>5
      <4>7. \A i, j \in DOMAIN Tail(feed[c]) :
               Tail(feed[c])[i].hash = Tail(feed[c])[j].hash => i = j
        BY <4>2, <4>3, <4>5
      <4>8. QED
        BY <4>4, <4>6, <4>7
    <3>3. QED
      BY <3>1, <3>2
  <2>2. QED
    BY <2>1 DEF NothingEmittedTwice
<1>13. NoneUnheard'
  BY <1>1, <1>4 DEF ClientsInv, NoneUnheard
<1>14. \A k \in Calls : TransactionsOf(k)' = TransactionsOf(k)
  BY <1>1 DEF TransactionsOf
<1>15. ReturnedIsMined'
  <2>1. ASSUME NEW k \in FroCalls, call'[k] = "returned"
        PROVE  /\ TransactionsOf(k) # {}
               /\ \A t \in TransactionsOf(k) : transaction[t] = "mined"
    <3>1. CASE call[k] = "returned"
      BY <3>1 DEF ClientsInv, ReturnedIsMined
    <3>2. CASE call[k] # "returned"
      <4>1. m.hash \in TransactionsOf(k)
        BY <1>6, <2>1, <3>2 DEF Calls
      <4>2. \A t \in TransactionsOf(k) : t = m.hash
        BY <4>1, OneTransaction
      <4>3. QED
        BY <1>5, <4>1, <4>2
    <3>3. QED
      BY <3>1, <3>2
  <2>2. QED
    BY <1>1, <1>14, <2>1 DEF ReturnedIsMined, Calls
<1>16. RegisteredAreAwaited'
  <2>1. ASSUME NEW t \in Transactions
        PROVE  t \in resolvers'["fro"] <=>
                  call'[t[1]] = "waiting" /\ t[1] \in FroCalls /\ t \in TransactionsOf(t[1])
    <3>1. t[1] \in Calls
      BY TransactionNames
    <3>2. t \in resolvers["fro"] <=>
             call[t[1]] = "waiting" /\ t[1] \in FroCalls /\ t \in TransactionsOf(t[1])
      BY DEF ClientsInv, RegisteredAreAwaited
    <3>3. CASE c = "fro"
      <4>1. t \in resolvers'["fro"] <=> t \in resolvers["fro"] /\ t # m.hash
        BY <1>1, <3>3 DEF ClientsTypeOK, Clients
      <4>2. t[1] \in FroCalls /\ t \in TransactionsOf(t[1]) /\ m.hash \in TransactionsOf(t[1])
               => t = m.hash
        BY OneTransaction
      <4>3. t[1] \in FroCalls => ClientOf(t[1]) = "fro"
        BY DEF ClientOf
      <4>4. QED
        BY <1>6, <3>1, <3>2, <3>3, <4>1, <4>2, <4>3
    <3>4. CASE c # "fro"
      <4>1. resolvers'["fro"] = resolvers["fro"]
        BY <1>1, <3>4 DEF ClientsTypeOK, Clients
      <4>2. t[1] \in FroCalls => call'[t[1]] = call[t[1]]
        BY <1>6, <3>1, <3>4 DEF ClientOf
      <4>3. QED
        BY <3>2, <4>1, <4>2
    <3>5. QED
      BY <3>3, <3>4
  <2>2. \A t \in Transactions : TransactionsOf(t[1])' = TransactionsOf(t[1])
    BY <1>14, TransactionNames
  <2>3. QED
    BY <2>1, <2>2 DEF RegisteredAreAwaited
<1>17. QED
  BY <1>7, <1>8, <1>9, <1>11, <1>12, <1>13, <1>15, <1>16 DEF ClientsInv

LEMMA ConnectStep ==
    ASSUME ClientsInv, NEW c \in Clients, Connect(c)
    PROVE  ClientsInv'
<1>1. /\ link' = [link EXCEPT ![c] = "up"]
      /\ subscriptions' = [subscriptions EXCEPT ![c] = IF @ > 0 THEN @ ELSE 1]
      /\ UNCHANGED <<call, sent, transaction, published, unpublished, feed, emitted, resolvers, missed,
                     unheard>>
      /\ ClientsTypeOK
  BY DEF Connect, initReturnsCanal, callVars, serverVars, clientVars, ClientsInv
<1>2. ClientsTypeOK'
  BY <1>1 DEF ClientsTypeOK
<1>3. \A d \in Clients : subscriptions'[d] <= 1
  BY <1>1 DEF ClientsInv, ClientsTypeOK, HeardIsPublished
<1>4. HeardIsPublished' /\ NothingEmittedTwice' /\ NoneUnheard' /\ SentWhenServed'
  BY <1>1, <1>3 DEF ClientsInv, HeardIsPublished, NothingEmittedTwice, NoneUnheard,
                    SentWhenServed
<1>5. QED
  BY <1>1, <1>2, <1>4, SameCalls, SamePublished DEF ClientsInv

\* What was on its way is lost, and never emitted.
LEMMA DisconnectStep ==
    ASSUME ClientsInv, NEW c \in Clients, Disconnect(c)
    PROVE  ClientsInv'
<1>1. /\ link' = [link EXCEPT ![c] = "down"] /\ feed' = [feed EXCEPT ![c] = <<>>]
      /\ missed' = [missed EXCEPT ![c] = @ \cup {feed[c][i].hash : i \in DOMAIN feed[c]}]
      /\ UNCHANGED <<call, sent, transaction, published, unpublished, subscriptions, emitted, resolvers,
                     unheard>>
      /\ ClientsTypeOK
  BY DEF Disconnect, callVars, serverVars, ClientsInv
<1>2. {feed[c][i].hash : i \in DOMAIN feed[c]} \subseteq Transactions
  <2>1. published[c] \subseteq Transactions
    BY <1>1 DEF ClientsTypeOK
  <2>2. QED
    BY <2>1 DEF ClientsInv, HeardIsPublished
<1>3. <<>> \in Seq(Message) /\ DOMAIN (<<>>) = {}
  OBVIOUS
<1>4. ClientsTypeOK'
  BY <1>1, <1>2, <1>3 DEF ClientsTypeOK
<1>5. feed'[c] = <<>> /\ \A d \in Clients : d # c => feed'[d] = feed[d]
  BY <1>1 DEF ClientsTypeOK
<1>6. HeardIsPublished' /\ NothingEmittedTwice' /\ NoneUnheard' /\ SentWhenServed'
  BY <1>1, <1>3, <1>5 DEF ClientsInv, HeardIsPublished, NothingEmittedTwice, NoneUnheard,
                          SentWhenServed
<1>7. QED
  BY <1>1, <1>4, <1>6, SameCalls, SamePublished DEF ClientsInv

LEMMA ClientsStep ==
    ASSUME ClientsInv, [Next]_vars
    PROVE  ClientsInv'
<1>1. ASSUME NEW k \in Calls, Serve(k) PROVE ClientsInv'
  BY <1>1, ServeStep
<1>2. ASSUME NEW k \in Calls, Answer(k) PROVE ClientsInv'
  BY <1>2, AnswerStep
<1>3. ASSUME NEW t \in Transactions, Mine(t) PROVE ClientsInv'
  BY <1>3, MineStep
<1>4. ASSUME NEW t \in Transactions, Revert(t) PROVE ClientsInv'
  BY <1>4, RevertStep
<1>5. ASSUME NEW c \in Clients, NEW t \in Transactions, Publish(c, t) PROVE ClientsInv'
  BY <1>5, PublishStep
<1>6. ASSUME NEW t \in Transactions, FailToPublish(t) PROVE ClientsInv'
  BY <1>6, FailToPublishStep
<1>7. ASSUME NEW c \in Clients, Connect(c) PROVE ClientsInv'
  BY <1>7, ConnectStep
<1>8. ASSUME NEW c \in Clients, Disconnect(c) PROVE ClientsInv'
  BY <1>8, DisconnectStep
<1>9. ASSUME NEW c \in Clients, Handle(c) PROVE ClientsInv'
  BY <1>9, HandleStep
<1>10. CASE UNCHANGED vars
  <2>1. UNCHANGED <<call, sent, transaction, published, unpublished, link, subscriptions, feed,
                    emitted, resolvers, missed, unheard>>
    BY <1>10 DEF vars, callVars, serverVars, socketVars, clientVars
  <2>2. ClientsTypeOK' /\ SentWhenServed'
    BY <2>1 DEF ClientsInv, ClientsTypeOK, SentWhenServed
  <2>3. QED
    BY <2>1, <2>2, SameCalls, SameFeed, SamePublished DEF ClientsInv
<1>11. QED
  BY <1>1, <1>2, <1>3, <1>4, <1>5, <1>6, <1>7, <1>8, <1>9, <1>10 DEF Next

\* The inductive invariant: promises, sockets and calls agree with what was
\* sent, mined and published.
THEOREM ClientsInvariant == Spec => []ClientsInv
<1>1. ClientsInv /\ [Next]_vars => ClientsInv'
  BY ClientsStep
<1>2. QED
  BY InitClients, <1>1, PTL DEF Spec

-----------------------------------------------------------------------------

\* Every variable keeps the type of its values.
THEOREM ClientsTypeCorrect == Spec => []ClientsTypeOK
<1>1. ClientsInv => ClientsTypeOK
  BY DEF ClientsInv
<1>2. QED
  BY ClientsInvariant, <1>1, PTL

\* froClient answers its user only what was mined.
THEOREM AnswersAreConfirmed == Spec => []ReturnedIsMined
<1>1. ClientsInv => ReturnedIsMined
  BY DEF ClientsInv
<1>2. QED
  BY ClientsInvariant, <1>1, PTL

\* The register of promises holds the calls that wait, and no others, and no
\* promise is rejected that nobody awaits.
THEOREM RegisterIsExact == Spec => []PromisesAreAwaited
<1>1. ClientsInv => PromisesAreAwaited
  BY DEF ClientsInv, PromisesAreAwaited, NoneUnheard
<1>2. QED
  BY ClientsInvariant, <1>1, PTL

\* No notification is emitted twice, however often a client reconnects.
THEOREM EmittedOnce == Spec => []NothingEmittedTwice
<1>1. ClientsInv => NothingEmittedTwice
  BY DEF ClientsInv
<1>2. QED
  BY ClientsInvariant, <1>1, PTL

-----------------------------------------------------------------------------
(* What a waiting call waits for. *)

\* A client that is connected has subscribed.
ConnectedSubscribes == \A c \in Clients : link[c] = "up" => subscriptions[c] > 0

\* A call that was answered has sent something, and what was sent has a fate.
AnsweredHasSent ==
    \A k \in Calls : call[k] \in {"answered", "waiting"} => sent[k] > 0

SentIsKnown == \A t \in Transactions : t[2] <= sent[t[1]] => transaction[t] # "none"

\* A notification is never just gone: it is on its way, or was missed, or
\* has ended its call.
NotifiedIsAccounted ==
    \A t \in Transactions :
        t \in published["fro"] => OnItsWay(t) \/ t \in missed["fro"] \/ Over(t[1])

HearingInv == ConnectedSubscribes /\ AnsweredHasSent /\ SentIsKnown /\ NotifiedIsAccounted

LEMMA InitHearing == Init => HearingInv
<1> SUFFICES ASSUME Init PROVE HearingInv
  OBVIOUS
<1>1. ConnectedSubscribes /\ AnsweredHasSent /\ NotifiedIsAccounted
  BY DEF Init, ConnectedSubscribes, AnsweredHasSent, NotifiedIsAccounted, Clients
<1>2. ASSUME NEW t \in Transactions PROVE ~(t[2] <= sent[t[1]])
  <2>1. t[1] \in Calls /\ t[2] \in 1..MaxHashes
    BY TransactionNames
  <2>2. sent[t[1]] = 0
    BY <2>1 DEF Init
  <2>3. QED
    BY <2>1, <2>2
<1>3. QED
  BY <1>1, <1>2 DEF HearingInv, SentIsKnown

\* Steps that neither notify nor lose anything.
LEMMA SameHearing ==
    ASSUME ClientsInv, NotifiedIsAccounted, UNCHANGED <<published, feed, missed>>,
           \A k \in Calls : Over(k) => Over(k)'
    PROVE  NotifiedIsAccounted'
BY TransactionNames DEF NotifiedIsAccounted, OnItsWay

LEMMA ServeHearing ==
    ASSUME ClientsInv, HearingInv, NEW k \in Calls, Serve(k)
    PROVE  HearingInv'
<1>1. PICK n \in 0..HashCount(k) :
         /\ sent' = [sent EXCEPT ![k] = n]
         /\ transaction' = [t \in Transactions |->
               IF t[1] = k /\ t[2] <= n THEN "pending" ELSE transaction[t]]
         /\ \/ n > 0 /\ call' = [call EXCEPT ![k] = "answered"]
            \/ call' = [call EXCEPT ![k] = "failed"]
  BY DEF Serve
<1>2. /\ call[k] = "requested" /\ ClientsTypeOK
      /\ UNCHANGED <<published, link, subscriptions, feed, missed>>
  BY DEF Serve, ClientsInv, socketVars, clientVars
<1>3. /\ sent'[k] = n /\ ((call'[k] = "answered" /\ n > 0) \/ call'[k] = "failed")
      /\ \A j \in Calls \ {k} : sent'[j] = sent[j] /\ call'[j] = call[j]
  BY <1>1, <1>2 DEF ClientsTypeOK
<1>4. ConnectedSubscribes'
  BY <1>2 DEF HearingInv, ConnectedSubscribes
<1>5. AnsweredHasSent'
  BY <1>3 DEF HearingInv, AnsweredHasSent
<1>6. SentIsKnown'
  <2>1. ASSUME NEW t \in Transactions, t[2] <= sent'[t[1]]
        PROVE  transaction'[t] # "none"
    <3>1. CASE t[1] = k
      BY <1>1, <1>3, <2>1, <3>1
    <3>2. CASE t[1] # k
      BY <1>1, <1>3, <2>1, <3>2, TransactionNames DEF HearingInv, SentIsKnown
    <3>3. QED
      BY <3>1, <3>2
  <2>2. QED
    BY <2>1 DEF SentIsKnown
<1>7. \A j \in Calls : Over(j) => Over(j)'
  BY <1>2, <1>3 DEF Over
<1>8. QED
  BY <1>2, <1>4, <1>5, <1>6, <1>7, SameHearing DEF HearingInv

LEMMA AnswerHearing ==
    ASSUME ClientsInv, HearingInv, NEW k \in Calls, Answer(k)
    PROVE  HearingInv'
<1>1. /\ call[k] = "answered" /\ ClientsTypeOK
      /\ call' = [call EXCEPT ![k] = IF k \in FroCalls THEN "waiting" ELSE "returned"]
      /\ UNCHANGED <<sent, transaction, published, link, subscriptions, feed, missed>>
  BY DEF Answer, ClientsInv, serverVars, socketVars
<1>2. \A j \in Calls \ {k} : call'[j] = call[j]
  BY <1>1 DEF ClientsTypeOK
<1>3. AnsweredHasSent'
  BY <1>1, <1>2 DEF HearingInv, AnsweredHasSent
<1>4. \A j \in Calls : Over(j) => Over(j)'
  BY <1>1, <1>2 DEF Over
<1>5. ConnectedSubscribes' /\ SentIsKnown'
  BY <1>1 DEF HearingInv, ConnectedSubscribes, SentIsKnown
<1>6. QED
  BY <1>1, <1>3, <1>4, <1>5, SameHearing DEF HearingInv

\* The fate of a transaction, and that it will never be notified.
LEMMA FateHearing ==
    ASSUME ClientsInv, HearingInv, NEW t \in Transactions,
           Mine(t) \/ Revert(t) \/ FailToPublish(t)
    PROVE  HearingInv'
<1>1. /\ UNCHANGED <<call, sent, published, link, subscriptions, missed>>
      /\ ClientsTypeOK
  BY DEF Mine, Revert, FailToPublish, callVars, socketVars, clientVars, ClientsInv
<1>2. feed' = feed
  <2>1. ASSUME Revert(t) PROVE feed' = feed
    <3>1. \A c \in Clients : feed[c] \o errorNotification(t) = feed[c]
      BY <1>1, ConcatEmptySeq DEF ClientsTypeOK, errorNotification
    <3>2. feed' = [c \in Clients |-> feed[c]]
      BY <2>1, <3>1 DEF Revert
    <3>3. QED
      BY <1>1, <3>2 DEF ClientsTypeOK
  <2>2. QED
    BY <2>1 DEF Mine, FailToPublish
<1>3. \A u \in Transactions : transaction[u] # "none" => transaction'[u] # "none"
  BY <1>1 DEF Mine, Revert, FailToPublish, ClientsTypeOK
<1>4. SentIsKnown'
  BY <1>1, <1>3 DEF HearingInv, SentIsKnown
<1>5. /\ ConnectedSubscribes' /\ AnsweredHasSent'
      /\ \A k \in Calls : Over(k) => Over(k)'
  BY <1>1 DEF HearingInv, ConnectedSubscribes, AnsweredHasSent, Over
<1>6. QED
  BY <1>1, <1>2, <1>4, <1>5, SameHearing DEF HearingInv

\* A client that is connected has a subscription for the notification to
\* come on; one that is not misses it.
LEMMA PublishHearing ==
    ASSUME ClientsInv, HearingInv, NEW c \in Clients, NEW t \in Transactions, Publish(c, t)
    PROVE  HearingInv'
<1>1. /\ published' = [published EXCEPT ![c] = @ \cup {t}]
      /\ UNCHANGED <<call, sent, transaction, link, subscriptions>>
      /\ ClientsTypeOK
  BY DEF Publish, callVars, socketVars, ClientsInv
<1>2. ConnectedSubscribes' /\ AnsweredHasSent' /\ SentIsKnown'
  BY <1>1 DEF HearingInv, ConnectedSubscribes, AnsweredHasSent, SentIsKnown
<1>3. \A k \in Calls : Over(k)' <=> Over(k)
  BY <1>1 DEF Over
<1>4. CASE c # "fro"
  <2>1. published'["fro"] = published["fro"]
    BY <1>1, <1>4 DEF ClientsTypeOK, Clients
  <2>2. feed'["fro"] = feed["fro"] /\ missed'["fro"] = missed["fro"]
    BY <1>1, <1>4 DEF Publish, ClientsTypeOK, Clients
  <2>3. NotifiedIsAccounted'
    BY <1>3, <2>1, <2>2, TransactionNames DEF HearingInv, NotifiedIsAccounted, OnItsWay
  <2>4. QED
    BY <1>2, <2>3 DEF HearingInv
<1>5. CASE c = "fro" /\ link[c] = "down"
  <2>1. /\ missed' = [missed EXCEPT ![c] = @ \cup {t}] /\ feed' = feed
    BY <1>5 DEF Publish
  <2>2. missed'["fro"] = missed["fro"] \cup {t} /\ published'["fro"] = published["fro"] \cup {t}
    BY <1>1, <1>5, <2>1 DEF ClientsTypeOK
  <2>3. NotifiedIsAccounted'
    BY <1>3, <2>1, <2>2, TransactionNames DEF HearingInv, NotifiedIsAccounted, OnItsWay
  <2>4. QED
    BY <1>2, <2>3 DEF HearingInv
<1>6. CASE c = "fro" /\ link[c] = "up"
  <2> DEFINE message == [hash |-> t, error |-> FALSE]
             messages == [i \in 1..subscriptions[c] |-> message]
  <2>1. feed' = [feed EXCEPT ![c] = @ \o messages] /\ missed' = missed
    BY <1>6 DEF Publish
  <2>2. subscriptions[c] \in Nat /\ subscriptions[c] > 0 /\ feed[c] \in Seq(Message)
    BY <1>1, <1>6 DEF HearingInv, ConnectedSubscribes, ClientsTypeOK
  <2>3. message \in Message /\ message.hash = t
    BY DEF Message
  <2> HIDE DEF message
  <2>a. messages \in Seq(Message) /\ Len(messages) = subscriptions[c]
        /\ \A i \in 1..subscriptions[c] : messages[i] = message
    BY <2>2, <2>3, Repeated, Zenon
  <2> HIDE DEF messages
  <2>b. messages[1] = message
    BY <2>2, <2>a
  <2>4. PICK f \in Seq(Message), g \in Seq(Message) :
           /\ f = feed[c] /\ g = messages
           /\ Len(g) = subscriptions[c] /\ g[1] = message
    BY <2>2, <2>a, <2>b, Zenon
  <2>5. /\ DOMAIN (f \o g) = 1..(Len(f) + Len(g))
        /\ \A i \in 1..Len(f) : (f \o g)[i] = f[i]
        /\ \A i \in 1..Len(g) : (f \o g)[Len(f) + i] = g[i]
    BY Concatenated
  <2>6. DOMAIN f = 1..Len(f) /\ Len(f) \in Nat
    OBVIOUS
  <2>7. /\ \A i \in DOMAIN f : i \in DOMAIN (f \o g) /\ (f \o g)[i] = f[i]
        /\ Len(f) + 1 \in DOMAIN (f \o g) /\ (f \o g)[Len(f) + 1] = message
    BY <2>2, <2>4, <2>5, <2>6
  <2>8. feed'["fro"] = f \o g /\ published'["fro"] = published["fro"] \cup {t}
    BY <1>1, <1>6, <2>1, <2>4 DEF ClientsTypeOK
  <2>9. OnItsWay(t)' /\ \A u \in Transactions : OnItsWay(u) => OnItsWay(u)'
    BY <1>6, <2>3, <2>4, <2>7, <2>8 DEF OnItsWay
  <2>10. NotifiedIsAccounted'
    BY <1>3, <2>1, <2>8, <2>9, TransactionNames DEF HearingInv, NotifiedIsAccounted
  <2>11. QED
    BY <1>2, <2>10 DEF HearingInv
<1>7. link[c] \in {"down", "up"}
  BY <1>1 DEF ClientsTypeOK
<1>8. QED
  BY <1>4, <1>5, <1>6, <1>7

LEMMA ConnectHearing ==
    ASSUME ClientsInv, HearingInv, NEW c \in Clients, Connect(c)
    PROVE  HearingInv'
<1>1. /\ subscriptions' = [subscriptions EXCEPT ![c] = IF @ > 0 THEN @ ELSE 1]
      /\ link' = [link EXCEPT ![c] = "up"]
      /\ UNCHANGED <<call, sent, transaction, published, feed, missed>>
      /\ ClientsTypeOK
  BY DEF Connect, initReturnsCanal, callVars, serverVars, clientVars, ClientsInv
<1>2. ConnectedSubscribes'
  BY <1>1 DEF HearingInv, ConnectedSubscribes, ClientsTypeOK
<1>3. /\ AnsweredHasSent' /\ SentIsKnown'
      /\ \A k \in Calls : Over(k) => Over(k)'
  BY <1>1 DEF HearingInv, AnsweredHasSent, SentIsKnown, Over
<1>4. QED
  BY <1>1, <1>2, <1>3, SameHearing DEF HearingInv

\* What was on its way is missed.
LEMMA DisconnectHearing ==
    ASSUME ClientsInv, HearingInv, NEW c \in Clients, Disconnect(c)
    PROVE  HearingInv'
<1>1. /\ link' = [link EXCEPT ![c] = "down"] /\ feed' = [feed EXCEPT ![c] = <<>>]
      /\ missed' = [missed EXCEPT ![c] = @ \cup {feed[c][i].hash : i \in DOMAIN feed[c]}]
      /\ UNCHANGED <<call, sent, transaction, published, subscriptions>>
      /\ ClientsTypeOK
  BY DEF Disconnect, callVars, serverVars, ClientsInv
<1>2. ConnectedSubscribes'
  BY <1>1 DEF HearingInv, ConnectedSubscribes, ClientsTypeOK
<1>3. AnsweredHasSent' /\ SentIsKnown' /\ \A k \in Calls : Over(k)' <=> Over(k)
  BY <1>1 DEF HearingInv, AnsweredHasSent, SentIsKnown, Over
<1>4. \A t \in Transactions :
         OnItsWay(t) \/ t \in missed["fro"] => OnItsWay(t)' \/ t \in missed'["fro"]
  <2>1. CASE c = "fro"
    BY <1>1, <2>1 DEF OnItsWay, ClientsTypeOK
  <2>2. CASE c # "fro"
    BY <1>1, <2>2 DEF OnItsWay, ClientsTypeOK, Clients
  <2>3. QED
    BY <2>1, <2>2
<1>5. NotifiedIsAccounted'
  BY <1>1, <1>3, <1>4, TransactionNames DEF HearingInv, NotifiedIsAccounted
<1>6. QED
  BY <1>2, <1>3, <1>5 DEF HearingInv

\* The notification that is handled ends the call whose promise it finds,
\* and is missed if it finds none.
LEMMA HandleHearing ==
    ASSUME ClientsInv, HearingInv, NEW c \in Clients, Handle(c)
    PROVE  HearingInv'
<1> DEFINE m == Head(feed[c])
<1>1. /\ feed[c] # <<>> /\ feed' = [feed EXCEPT ![c] = Tail(feed[c])]
      /\ call' = Settled(c, m)
      /\ missed' = [missed EXCEPT ![c] = @ \cup ({m.hash} \ resolvers[c])]
      /\ UNCHANGED <<sent, transaction, published, link, subscriptions>>
      /\ ClientsTypeOK
  BY DEF Handle, serverVars, socketVars, ClientsInv
<1>2. feed[c] \in Seq(Message)
  BY <1>1 DEF ClientsTypeOK
<1>3. /\ m = feed[c][1] /\ DOMAIN feed[c] = 1..Len(feed[c]) /\ Len(feed[c]) \in Nat
      /\ DOMAIN Tail(feed[c]) = 1..(Len(feed[c]) - 1)
      /\ \A i \in DOMAIN Tail(feed[c]) : Tail(feed[c])[i] = feed[c][i + 1]
  BY <1>1, <1>2
<1> HIDE DEF m
<1>4. \A i \in DOMAIN feed[c] :
         i = 1 \/ (i - 1 \in DOMAIN Tail(feed[c]) /\ Tail(feed[c])[i - 1] = feed[c][i])
  <2> SUFFICES ASSUME NEW i \in DOMAIN feed[c], i # 1
               PROVE  i - 1 \in DOMAIN Tail(feed[c]) /\ Tail(feed[c])[i - 1] = feed[c][i]
    OBVIOUS
  <2>1. i \in Nat /\ i - 1 \in 1..(Len(feed[c]) - 1) /\ (i - 1) + 1 = i
    BY <1>3
  <2>2. i - 1 \in DOMAIN Tail(feed[c])
    BY <1>3, <2>1, Zenon
  <2>3. Tail(feed[c])[i - 1] = feed[c][(i - 1) + 1]
    BY <1>3, <2>2, Zenon
  <2>4. QED
    BY <2>1, <2>2, <2>3, Zenon
<1>5. \A k \in Calls :
         call'[k] = IF call[k] = "waiting" /\ ClientOf(k) = c
                       /\ m.hash \in TransactionsOf(k) \cap resolvers[c]
                    THEN IF m.error THEN "failed" ELSE "returned" ELSE call[k]
  BY <1>1 DEF Settled
<1>6. ConnectedSubscribes' /\ SentIsKnown'
  BY <1>1 DEF HearingInv, ConnectedSubscribes, SentIsKnown
<1>7. AnsweredHasSent'
  BY <1>1, <1>5 DEF HearingInv, AnsweredHasSent
<1>8. \A k \in Calls : Over(k) => Over(k)'
  BY <1>5 DEF Over
<1>9. CASE c # "fro"
  <2>1. feed'["fro"] = feed["fro"] /\ missed'["fro"] = missed["fro"]
    BY <1>1, <1>9 DEF ClientsTypeOK, Clients
  <2>2. NotifiedIsAccounted'
    BY <1>1, <1>8, <2>1, TransactionNames DEF HearingInv, NotifiedIsAccounted, OnItsWay
  <2>3. QED
    BY <1>6, <1>7, <2>2 DEF HearingInv
<1>10. CASE c = "fro"
  <2>1. feed'["fro"] = Tail(feed[c]) /\ missed'["fro"] = missed["fro"] \cup ({m.hash} \ resolvers["fro"])
    BY <1>1, <1>10 DEF ClientsTypeOK
  <2>2. ASSUME NEW t \in Transactions, OnItsWay(t)
        PROVE  OnItsWay(t)' \/ t \in missed'["fro"] \/ Over(t[1])'
    <3>1. PICK i \in DOMAIN feed[c] : feed[c][i].hash = t
      BY <1>10, <2>2 DEF OnItsWay
    <3>2. CASE i # 1
      BY <1>4, <2>1, <3>1, <3>2 DEF OnItsWay
    <3>3. CASE i = 1 /\ t \notin resolvers["fro"]
      BY <1>3, <2>1, <3>1, <3>3
    <3>4. CASE i = 1 /\ t \in resolvers["fro"]
      <4>1. call[t[1]] = "waiting" /\ t[1] \in FroCalls /\ t \in TransactionsOf(t[1])
        BY <3>4 DEF ClientsInv, RegisteredAreAwaited
      <4>2. t = m.hash /\ t[1] \in Calls /\ ClientOf(t[1]) = c
        BY <1>3, <1>10, <3>1, <3>4, <4>1, TransactionNames DEF ClientOf
      <4>3. call'[t[1]] \in {"returned", "failed"}
        BY <1>5, <1>10, <3>4, <4>1, <4>2
      <4>4. QED
        BY <4>3 DEF Over
    <3>5. QED
      BY <3>2, <3>3, <3>4
  <2>3. NotifiedIsAccounted'
    BY <1>1, <1>8, <2>1, <2>2, TransactionNames DEF HearingInv, NotifiedIsAccounted
  <2>4. QED
    BY <1>6, <1>7, <2>3 DEF HearingInv
<1>11. QED
  BY <1>9, <1>10

LEMMA HearingStep ==
    ASSUME ClientsInv, HearingInv, [Next]_vars
    PROVE  HearingInv'
<1>1. ASSUME NEW k \in Calls, Serve(k) \/ Answer(k) PROVE HearingInv'
  BY <1>1, ServeHearing, AnswerHearing
<1>2. ASSUME NEW t \in Transactions, Mine(t) \/ Revert(t) \/ FailToPublish(t) PROVE HearingInv'
  BY <1>2, FateHearing
<1>3. ASSUME NEW c \in Clients, NEW t \in Transactions, Publish(c, t) PROVE HearingInv'
  BY <1>3, PublishHearing
<1>4. ASSUME NEW c \in Clients, Connect(c) \/ Disconnect(c) \/ Handle(c) PROVE HearingInv'
  BY <1>4, ConnectHearing, DisconnectHearing, HandleHearing
<1>5. CASE UNCHANGED vars
  BY <1>5 DEF vars, callVars, serverVars, socketVars, clientVars, HearingInv, ConnectedSubscribes,
              AnsweredHasSent, SentIsKnown, NotifiedIsAccounted, OnItsWay, Over
<1>6. QED
  BY <1>1, <1>2, <1>3, <1>4, <1>5 DEF Next

\* A call of froClient that waits can still be answered, or waits for one of
\* the reasons named in WaitsInVain: its transaction was reverted, the oracle
\* failed to notify it, or the client missed the notification.
THEOREM CallsAreNotForgotten == Spec => []NoCallIsForgotten
<1>1. ClientsInv /\ HearingInv => NoCallIsForgotten
  <2> SUFFICES ASSUME ClientsInv, HearingInv,
                      NEW k \in FroCalls, call[k] = "waiting", ~WaitsInVain(k)
               PROVE  \E t \in TransactionsOf(k) :
                         \/ transaction[t] = "pending"
                         \/ transaction[t] = "mined" /\ t \notin published["fro"]
                         \/ OnItsWay(t)
    BY DEF NoCallIsForgotten
  <2>1. k \in Calls /\ sent[k] \in Nat /\ sent[k] > 0
    BY DEF Calls, HearingInv, AnsweredHasSent, ClientsInv, ClientsTypeOK
  <2>2. PICK t : t = <<k, 1>>
    OBVIOUS
  <2>3. t \in TransactionsOf(k) /\ t \in Transactions
    BY <2>1, <2>2, ClientsAssumption DEF TransactionsOf, Transactions, HashCount
  <2>4. transaction[t] \in {"pending", "mined", "reverted"}
    BY <2>1, <2>2, <2>3 DEF HearingInv, SentIsKnown, ClientsInv, ClientsTypeOK
  <2>5. transaction[t] # "reverted" /\ t \notin missed["fro"]
    BY <2>3 DEF WaitsInVain
  <2>6. t \in published["fro"] => OnItsWay(t)
    BY <2>2, <2>3, <2>5 DEF HearingInv, NotifiedIsAccounted, Over
  <2>7. QED
    BY <2>3, <2>4, <2>5, <2>6
<1>2. ClientsInv /\ HearingInv /\ [Next]_vars => HearingInv'
  BY HearingStep
<1>3. Init => HearingInv
  BY InitHearing
<1>4. QED
  BY <1>1, <1>2, <1>3, ClientsInvariant, PTL DEF Spec
=============================================================================
