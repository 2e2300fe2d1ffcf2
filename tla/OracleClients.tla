--------------------------- MODULE OracleClients ---------------------------
(***************************************************************************)
(* The clients of the oracles, oracle-clients/src/modules: froClient,      *)
(* fsoClient and fioClient.  A mutation is an HTTP request that answers    *)
(* the hashes of the transactions the oracle sent; that they were mined    *)
(* comes later, on a websocket, as notifications.  The client registers a  *)
(* promise for each hash when it has the answer, and the handler of a      *)
(* notification resolves the promise registered for its hash, if any.      *)
(*                                                                         *)
(* Request and notification travel apart: either may be handled first.     *)
(* Code between two awaits is one action, and so is the resolution of a    *)
(* promise with the continuation that waited for it.                       *)
(*                                                                         *)
(* froClient: every call answers one hash and awaits its promise.          *)
(* fsoClient: a call answers a hash per settlement transaction, and awaits *)
(* Promise.all of [transactionHash, promise] objects, which are no         *)
(* promises: it waits for nothing.                                         *)
(*                                                                         *)
(* An oracle notifies all the transactions there are.  Those of the other  *)
(* oracle's client find no promise and are left out here, and with them    *)
(* fioClient, which only listens; so is the second notification that a     *)
(* delivery has, and the heartbeats, which are only logged.                *)
(***************************************************************************)
EXTENDS Integers, Sequences

CONSTANTS
    FroCalls, FsoCalls,     \* calls of froClient and of fsoClient
    MaxHashes               \* bound: transactions one call of fsoClient sends

VARIABLES
    call,           \* the stage of each call; it starts on its way to the oracle
    sent,           \* how many transactions the oracle sent for it
    transaction,    \* the fate of each transaction
    link,           \* the websocket of each client: "down" or "up"
    subscriptions,  \* the notification subscriptions a client has made
    published,      \* the transactions each oracle has notified
    unpublished,    \* the mined transactions that will never be notified
    feed,           \* messages on the way to each client
    emitted,        \* notifications each client has passed on
    resolvers,      \* the hashes in _promiseRegister and _promiseResolver
    missed,         \* history: notified while nothing was registered or linked
    unheard         \* history: promises rejected that nobody awaits

callVars == <<call, sent>>
serverVars == <<transaction, published, unpublished>>
socketVars == <<link, subscriptions>>
clientVars == <<emitted, resolvers, missed, unheard>>
vars == <<callVars, serverVars, socketVars, feed, clientVars>>

Calls == FroCalls \cup FsoCalls
Clients == {"fro", "fso"}
ClientOf(k) == IF k \in FroCalls THEN "fro" ELSE "fso"
HashCount(k) == IF k \in FroCalls THEN 1 ELSE MaxHashes

\* The transactions of a call, which has its hash for a name.
Transactions == {t \in Calls \X (1..MaxHashes) : t[2] <= HashCount(t[1])}

TransactionsOf(k) == {t \in Transactions : t[1] = k /\ t[2] <= sent[k]}

Message == [hash : Transactions, error : BOOLEAN]

ASSUME ClientsAssumption ==
    /\ FroCalls \cap FsoCalls = {}
    /\ MaxHashes \in Nat \ {0}

-----------------------------------------------------------------------------
(* Calls. *)

\* A request reaches the oracle, which sends its transactions and answers
\* their hashes.  It may fail, FSO after it has sent some of them, and the
\* answer may be lost: the call throws.
Serve(k) ==
    /\ call[k] = "requested"
    /\ \E n \in 0..HashCount(k) :
          /\ sent' = [sent EXCEPT ![k] = n]
          /\ transaction' = [t \in Transactions |->
                IF t[1] = k /\ t[2] <= n THEN "pending" ELSE transaction[t]]
          /\ \/ n > 0 /\ call' = [call EXCEPT ![k] = "answered"]
             \/ call' = [call EXCEPT ![k] = "failed"]
    /\ UNCHANGED <<published, unpublished, socketVars, feed, clientVars>>

getRegisteredPromise(c, hashes) ==
    resolvers' = [resolvers EXCEPT ![c] = @ \cup hashes]

\* The answer arrives.
Answer(k) ==
    /\ call[k] = "answered"
    /\ getRegisteredPromise(ClientOf(k), TransactionsOf(k))
    /\ call' = [call EXCEPT ![k] = IF k \in FroCalls THEN "waiting" ELSE "returned"]
    /\ UNCHANGED <<sent, serverVars, socketVars, feed, emitted, missed, unheard>>

-----------------------------------------------------------------------------
(* The oracles. *)

\* What every oracle publishes when a transaction is reverted or dropped:
\* errorNotification can be subscribed to, and no oracle ever publishes it.
MutErrorNotification(t) == <<[hash |-> t, error |-> TRUE]>>
errorNotification(t) == <<>>

\* The fate of a transaction on the chain.
Mine(t) ==
    /\ transaction[t] = "pending"
    /\ transaction' = [transaction EXCEPT ![t] = "mined"]
    /\ UNCHANGED <<callVars, published, unpublished, socketVars, feed, clientVars>>

Revert(t) ==
    /\ transaction[t] = "pending"
    /\ transaction' = [transaction EXCEPT ![t] = "reverted"]
    /\ feed' = [c \in Clients |-> IF link[c] = "up" /\ c = ClientOf(t[1])
                                 THEN feed[c] \o errorNotification(t)
                                 ELSE feed[c]]
    /\ UNCHANGED <<callVars, published, unpublished, socketVars, clientVars>>

\* An oracle notifies a transaction on each subscription there is, once; a
\* client that is not connected misses it.
Publish(c, t) ==
    /\ c = ClientOf(t[1])
    /\ transaction[t] = "mined"
    /\ t \notin published[c] \cup unpublished
    /\ published' = [published EXCEPT ![c] = @ \cup {t}]
    /\ \/ /\ link[c] = "up"
          /\ feed' = [feed EXCEPT ![c] =
                @ \o [i \in 1..subscriptions[c] |-> [hash |-> t, error |-> FALSE]]]
          /\ UNCHANGED missed
       \/ /\ link[c] = "down"
          /\ missed' = [missed EXCEPT ![c] = @ \cup {t}]
          /\ UNCHANGED feed
    /\ UNCHANGED <<callVars, transaction, unpublished, socketVars, emitted, resolvers, unheard>>

\* Or it never will.  The handler of a settlement event asks the chain who
\* takes part before it publishes: when one of these calls fails it is over,
\* nobody awaits it and nobody tries again.  Nor is there a
\* handler without a stream of the contract, if its subscription failed or
\* its factory is not listened to (see EventService).
FailToPublish(t) ==
    /\ transaction[t] = "mined"
    /\ t \notin published[ClientOf(t[1])] \cup unpublished
    /\ unpublished' = unpublished \cup {t}
    /\ UNCHANGED <<callVars, transaction, published, socketVars, feed, clientVars>>

-----------------------------------------------------------------------------
(* The websocket.  It reconnects by itself and renews the subscriptions    *)
(* there are.                                                              *)

\* Mutant: it subscribes whenever it is connected.
MutSubscribeAgain(c) == subscriptions' = [subscriptions EXCEPT ![c] = @ + 1]

\* Mutant: the flag that it has subscribed is set from the start.
MutSubscribed(c) == UNCHANGED subscriptions

\* Called when the websocket is connected and when it is reconnected.
initReturnsCanal(c) ==
    subscriptions' = [subscriptions EXCEPT ![c] = IF @ > 0 THEN @ ELSE 1]

Connect(c) ==
    /\ link[c] = "down"
    /\ link' = [link EXCEPT ![c] = "up"]
    /\ initReturnsCanal(c)
    /\ UNCHANGED <<callVars, serverVars, feed, clientVars>>

\* What was on its way is lost.
Disconnect(c) ==
    /\ link[c] = "up"
    /\ link' = [link EXCEPT ![c] = "down"]
    /\ missed' = [missed EXCEPT ![c] = @ \cup {feed[c][i].hash : i \in DOMAIN feed[c]}]
    /\ feed' = [feed EXCEPT ![c] = <<>>]
    /\ UNCHANGED <<callVars, serverVars, subscriptions, emitted, resolvers, unheard>>

\* Mutant: a notification resolves all that wait.
MutResolveAll(c, m) == [k \in Calls |->
    IF call[k] = "waiting" /\ ClientOf(k) = c THEN "returned" ELSE call[k]]

\* Mutant: the promise is deleted before it is looked up.
MutDeleteFirst(c, m) == call

\* The calls once message m settled the promise registered for its hash.
Settled(c, m) == [k \in Calls |->
    IF call[k] = "waiting" /\ ClientOf(k) = c
       /\ m.hash \in TransactionsOf(k) \cap resolvers[c]
    THEN IF m.error THEN "failed" ELSE "returned"
    ELSE call[k]]

\* contractNotificationHandler and registryNotificationHandler, and
\* errorNotificationHandler for an error.
Handle(c) ==
    LET m == Head(feed[c])
    IN  /\ feed[c] # <<>>
        /\ feed' = [feed EXCEPT ![c] = Tail(@)]
        /\ emitted' = [emitted EXCEPT ![c] = @ \cup {m.hash}]
        /\ call' = Settled(c, m)
        /\ resolvers' = [resolvers EXCEPT ![c] = @ \ {m.hash}]
        /\ missed' = [missed EXCEPT ![c] = @ \cup ({m.hash} \ resolvers[c])]
        /\ unheard' = unheard \cup (IF m.error /\ call' = call
                                    THEN {m.hash} \cap resolvers[c] ELSE {})
        /\ UNCHANGED <<sent, serverVars, socketVars>>

-----------------------------------------------------------------------------

Init ==
    /\ call = [k \in Calls |-> "requested"]
    /\ sent = [k \in Calls |-> 0]
    /\ transaction = [t \in Transactions |-> "none"]
    /\ link = [c \in Clients |-> "down"]
    /\ subscriptions = [c \in Clients |-> 0]
    /\ published = [c \in Clients |-> {}]
    /\ unpublished = {}
    /\ feed = [c \in Clients |-> <<>>]
    /\ emitted = [c \in Clients |-> {}]
    /\ resolvers = [c \in Clients |-> {}]
    /\ missed = [c \in Clients |-> {}]
    /\ unheard = {}

Next ==
    \/ \E k \in Calls : Serve(k) \/ Answer(k)
    \/ \E t \in Transactions : Mine(t) \/ Revert(t) \/ FailToPublish(t)
    \/ \E c \in Clients, t \in Transactions : Publish(c, t)
    \/ \E c \in Clients : Connect(c) \/ Disconnect(c) \/ Handle(c)

\* HTTP answers or fails, the chain decides, and the event loop handles what
\* has arrived.  Nothing makes a websocket stay connected, and nothing makes
\* an oracle notify: a transaction is notified at last, or it never will be.
Fairness ==
    /\ \A k \in Calls : WF_vars(Serve(k) \/ Answer(k))
    /\ \A t \in Transactions : WF_vars(Mine(t) \/ Revert(t))
    /\ \A t \in Transactions : WF_vars(Publish(ClientOf(t[1]), t) \/ FailToPublish(t))
    /\ \A c \in Clients : WF_vars(Handle(c))

Spec == Init /\ [][Next]_vars /\ Fairness

-----------------------------------------------------------------------------
(* Properties. *)

\* The variables have values of their types.
ClientsTypeOK ==
    /\ call \in [Calls -> {"requested", "answered", "waiting", "returned", "failed"}]
    /\ sent \in [Calls -> 0..MaxHashes]
    /\ transaction \in [Transactions -> {"none", "pending", "mined", "reverted"}]
    /\ link \in [Clients -> {"down", "up"}]
    /\ subscriptions \in [Clients -> Nat]
    /\ published \in [Clients -> SUBSET Transactions]
    /\ unpublished \subseteq Transactions
    /\ feed \in [Clients -> Seq(Message)]
    /\ emitted \in [Clients -> SUBSET Transactions]
    /\ resolvers \in [Clients -> SUBSET Transactions]
    /\ missed \in [Clients -> SUBSET Transactions]
    /\ unheard \subseteq Transactions

\* A call of froClient that returns is confirmed: its own transaction was
\* mined, whatever other calls wait and however notifications are ordered.
ReturnedIsMined ==
    \A k \in FroCalls : call[k] = "returned" =>
        TransactionsOf(k) # {} /\ \A t \in TransactionsOf(k) : transaction[t] = "mined"

\* The promises of froClient that are registered, and those a call awaits.
RegisteredAreAwaited ==
    \A t \in Transactions :
        t \in resolvers["fro"] <=>
            call[t[1]] = "waiting" /\ t[1] \in FroCalls /\ t \in TransactionsOf(t[1])

\* A promise of froClient is registered exactly while a call awaits it: none
\* is left behind by a call that is over, and no call waits for a promise
\* that a notification would not find (there may never be one, see
\* WaitsInVain).  And no promise is rejected that nobody awaits, which ends a
\* Node process: nobody awaits those of fsoClient, and they are safe only
\* because errors are never published.
PromisesAreAwaited == RegisteredAreAwaited /\ unheard = {}

\* Each notification reaches the users of a client once, however often the
\* websocket was connected: what is on its way is not emitted already, nor on
\* its way twice.
NothingEmittedTwice ==
    \A c \in Clients :
        /\ \A i \in DOMAIN feed[c] : feed[c][i].hash \notin emitted[c]
        /\ \A i, j \in DOMAIN feed[c] : feed[c][i].hash = feed[c][j].hash => i = j

Over(k) == call[k] \in {"returned", "failed"}

\* Why a call of froClient may wait for ever: its transaction was reverted,
\* which is not notified; or the oracle failed to notify it; or its
\* notification came while the client was not connected or did not have the
\* answer yet.
WaitsInVain(k) ==
    \E t \in TransactionsOf(k) :
        transaction[t] = "reverted" \/ t \in unpublished \cup missed["fro"]

OnItsWay(t) == \E i \in DOMAIN feed["fro"] : feed["fro"][i].hash = t

\* There is no other reason: a call that waits, and not in vain, is about to
\* be answered.  Its transaction can still be mined, or is still to be
\* notified, or its notification is on the way, however requests, answers,
\* reconnections and the notifications of other calls were interleaved.
NoCallIsForgotten ==
    \A k \in FroCalls : call[k] = "waiting" /\ ~WaitsInVain(k) =>
        \E t \in TransactionsOf(k) :
            \/ transaction[t] = "pending"
            \/ transaction[t] = "mined" /\ t \notin published["fro"]
            \/ OnItsWay(t)

\* Unless one of these befalls it, a call comes to an end.
CallsEnd == \A k \in Calls : call[k] = "requested" ~> Over(k) \/ WaitsInVain(k)
=============================================================================
