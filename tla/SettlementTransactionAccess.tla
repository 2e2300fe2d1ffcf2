-------------------- MODULE SettlementTransactionAccess --------------------
(***************************************************************************)
(* The STR as its users see it: str.service.ts, which creates settlement   *)
(* transactions and reads them, and str.censor.ts, which decides who sees  *)
(* which.  Both ask the bond on the chain who its operators are, one call  *)
(* and one await at a time; roles change meanwhile, and other requests are *)
(* served.  An action is the code between two awaits.                      *)
(*                                                                         *)
(* The censor looks at each row by itself: a query is followed here for    *)
(* one id.  Sender, receiver and additional readers of a row give the same *)
(* access and are one set, its readers.  The `where` on the ledger in most *)
(* queries and the ledger test of the censor are one test.                 *)
(***************************************************************************)
EXTENDS Integers, FiniteSets

CONSTANTS
    Users,
    Owner,              \* the owner of the bonds, which never changes
    Ledgers, Contracts, \* an instrument is a contract on a ledger
    Ids,                \* ids of settlement transactions
    Creations, Queries, \* requests
    NoRow, NoRequest,
    MaxRoleChanges      \* bound: changes of roles on the chain

VARIABLES
    roles,          \* roles[instrument][role]: the operators of the bond
    rows,           \* the table of settlement transactions
    request,        \* the requests made: what is asked and how far it is
    changes         \* number of changes of roles

accessVars == <<roles, rows, request, changes>>

Instruments == Ledgers \X Contracts

REGISTRAR == "registrar"
SETTLER == "settler"
Roles == {REGISTRAR, SETTLER}

Row == [instrument : Instruments, readers : SUBSET Users, by : Creations]

HasRole(user, instrument, role) == user \in roles[instrument][role]

\* What `create` asks for, and what is recorded of the request: whether the
\* user was registrar at some moment of it, and the creations that were over
\* when it began.
Creation ==
    [user : Users, id : Ids, instrument : Instruments, readers : SUBSET Users,
     stage : {"asked", "allowed", "absent", "created", "rejected"},
     ever : BOOLEAN, before : SUBSET Creations]

\* A query of one row, as it was read.  Recorded: whether the user was
\* allowed to see it at some moment, the roles held throughout, and whether
\* a call of the chain failed.
Query ==
    [user : Users, row : Row, stage : {"read", "settlerKnown", "visible", "hidden"},
     isSettler : BOOLEAN, ever : BOOLEAN, kept : SUBSET Roles, failed : BOOLEAN]

ASSUME AccessAssumption ==
    /\ Creations \cap Queries = {}
    /\ Owner \in Users
    /\ NoRow \notin Row
    /\ NoRequest \notin Creation \cup Query
    /\ MaxRoleChanges \in Nat

-----------------------------------------------------------------------------
(* create *)

IsStage(r, stage) == request[r] # NoRequest /\ request[r].stage = stage

BeginCreation(r, user, id, instrument, readers) ==
    /\ request[r] = NoRequest
    /\ request' = [request EXCEPT ![r] =
          [user |-> user, id |-> id, instrument |-> instrument, readers |-> readers,
           stage |-> "asked", ever |-> HasRole(user, instrument, REGISTRAR),
           before |-> {q \in Creations : IsStage(q, "created")}]]
    /\ UNCHANGED <<roles, rows, changes>>

\* Mutant: an operator of either role will do.
MutAnyOperator(user, instrument) == \E role \in Roles : HasRole(user, instrument, role)

MayCreate(user, instrument) == HasRole(user, instrument, REGISTRAR)

\* hasRole; a call that fails ends the request too.
CheckRegistrar(r) ==
    /\ IsStage(r, "asked")
    /\ \/ /\ MayCreate(request[r].user, request[r].instrument)
          /\ request' = [request EXCEPT ![r].stage = "allowed"]
       \/ request' = [request EXCEPT ![r].stage = "rejected"]
    /\ UNCHANGED <<roles, rows, changes>>

\* Mutant: nobody looks.
MutTakeFree(id) == TRUE

IsFree(id) == rows[id] = NoRow

LookForId(r) ==
    /\ IsStage(r, "allowed")
    /\ request' = [request EXCEPT ![r].stage = IF IsFree(request[r].id) THEN "absent" ELSE "rejected"]
    /\ UNCHANGED <<roles, rows, changes>>

\* The row is inserted, or replaces the one that has the id by now.
Save(r) ==
    /\ IsStage(r, "absent")
    /\ rows' = [rows EXCEPT ![request[r].id] =
          [instrument |-> request[r].instrument, readers |-> request[r].readers, by |-> r]]
    /\ request' = [request EXCEPT ![r].stage = "created"]
    /\ UNCHANGED <<roles, changes>>

-----------------------------------------------------------------------------
(* The queries. *)

\* Who may see a row at this moment.
Allowed(user, row) ==
    \/ user \in row.readers
    \/ user = Owner
    \/ \E role \in Roles : HasRole(user, row.instrument, role)

\* Rows of another ledger than the user's are not found.
ReadRow(q, user, ledger, id) ==
    /\ request[q] = NoRequest
    /\ rows[id] # NoRow
    /\ rows[id].instrument[1] = ledger
    /\ request' = [request EXCEPT ![q] =
          [user |-> user, row |-> rows[id], stage |-> "read", isSettler |-> FALSE,
           ever |-> Allowed(user, rows[id]),
           kept |-> {role \in Roles : HasRole(user, rows[id].instrument, role)},
           failed |-> FALSE]]
    /\ UNCHANGED <<roles, rows, changes>>

\* What the censor answers once it knows whether the user is an operator.
Total(q, isOperator) == request[q].user \in request[q].row.readers \/ isOperator

Answered(q, isOperator) == IF Total(q, isOperator) THEN "visible" ELSE "hidden"

\* Mutant: the settler's answer is forgotten when the registrar is asked.
MutAskSettler(q) ==
    /\ IsStage(q, "read")
    /\ request' = [request EXCEPT ![q].stage = "settlerKnown"]
    /\ UNCHANGED <<roles, rows, changes>>

AskSettler(q) ==
    /\ IsStage(q, "read")
    /\ request' = [request EXCEPT
          ![q].stage = "settlerKnown",
          ![q].isSettler = HasRole(request[q].user, request[q].row.instrument, SETTLER)]
    /\ UNCHANGED <<roles, rows, changes>>

AskRegistrar(q) ==
    /\ IsStage(q, "settlerKnown")
    /\ request' = [request EXCEPT ![q].stage = Answered(q,
          \/ request[q].isSettler
          \/ request[q].user = Owner
          \/ HasRole(request[q].user, request[q].row.instrument, REGISTRAR))]
    /\ UNCHANGED <<roles, rows, changes>>

\* Mutant: an error lets the user pass.
MutPassOnError(q) ==
    /\ IsStage(q, "read") \/ IsStage(q, "settlerKnown")
    /\ request' = [request EXCEPT ![q].stage = Answered(q, TRUE), ![q].failed = TRUE]
    /\ UNCHANGED <<roles, rows, changes>>

\* userIsOperator catches the error of any call and answers false.
FailToAsk(q) ==
    /\ IsStage(q, "read") \/ IsStage(q, "settlerKnown")
    /\ request' = [request EXCEPT ![q].stage = Answered(q, FALSE), ![q].failed = TRUE]
    /\ UNCHANGED <<roles, rows, changes>>

-----------------------------------------------------------------------------
(* The chain: one role of one operator at a time. *)

Recorded(r, newRoles) ==
    IF request[r] = NoRequest THEN NoRequest
    ELSE IF r \in Creations
    THEN [request[r] EXCEPT !.ever = @ \/
            /\ request[r].stage = "asked"
            /\ request[r].user \in newRoles[request[r].instrument][REGISTRAR]]
    ELSE IF request[r].stage \in {"read", "settlerKnown"}
    THEN LET held == {role \in Roles :
                        request[r].user \in newRoles[request[r].row.instrument][role]}
         IN  [request[r] EXCEPT !.ever = @ \/ held # {}, !.kept = @ \cap held]
    ELSE request[r]

ChangeRole(instrument, role, user) ==
    /\ changes < MaxRoleChanges
    /\ changes' = changes + 1
    /\ \E operators \in {roles[instrument][role] \cup {user}, roles[instrument][role] \ {user}} :
          /\ operators # roles[instrument][role]
          /\ roles' = [roles EXCEPT ![instrument][role] = operators]
    /\ request' = [r \in Creations \cup Queries |-> Recorded(r, roles')]
    /\ UNCHANGED rows

-----------------------------------------------------------------------------

Init ==
    /\ roles \in [Instruments -> [Roles -> {{u} : u \in Users \ {Owner}}]]
    /\ rows = [id \in Ids |-> NoRow]
    /\ request = [r \in Creations \cup Queries |-> NoRequest]
    /\ changes = 0

Next ==
    \/ \E r \in Creations :
          \/ \E u \in Users, id \in Ids, i \in Instruments, readers \in SUBSET Users :
                BeginCreation(r, u, id, i, readers)
          \/ CheckRegistrar(r) \/ LookForId(r) \/ Save(r)
    \/ \E q \in Queries :
          \/ \E u \in Users, l \in Ledgers, id \in Ids : ReadRow(q, u, l, id)
          \/ AskSettler(q) \/ AskRegistrar(q) \/ FailToAsk(q)
    \/ \E i \in Instruments, role \in Roles, u \in Users : ChangeRole(i, role, u)

AccessSpec == Init /\ [][Next]_accessVars

-----------------------------------------------------------------------------
(* Properties. *)

\* The variables have values of their types.
AccessTypeOK ==
    /\ roles \in [Instruments -> [Roles -> SUBSET Users]]
    /\ rows \in [Ids -> Row \cup {NoRow}]
    /\ request \in [Creations \cup Queries -> Creation \cup Query \cup {NoRequest}]
    /\ \A r \in Creations : request[r] \in Creation \cup {NoRequest}
    /\ \A q \in Queries : request[q] \in Query \cup {NoRequest}
    /\ changes \in 0..MaxRoleChanges

\* A row that is stored was asked for by somebody who was registrar of its
\* instrument at some moment of the request, even when two requests of one id
\* raced and the row of one replaced the other's.
SavedByARegistrar ==
    \A id \in Ids : rows[id] # NoRow =>
        /\ request[rows[id].by].ever
        /\ request[rows[id].by].instrument = rows[id].instrument

\* A settlement transaction whose creation was answered is never replaced by
\* a request that came later: only requests that overlap can both save an id.
AnsweredRowsStay ==
    \A r \in Creations : IsStage(r, "created") =>
        \A q \in request[r].before : request[q].id # request[r].id

\* A row is shown only to somebody who, at some moment of the query, was
\* allowed to see it: roles read at different moments never add up to an
\* access the user did not have.
VisibleWasAllowed == \A q \in Queries : IsStage(q, "visible") => request[q].ever

\* A row is hidden from nobody who could see it all along: a reader or the
\* owner, or an operator who kept one role (one who exchanged a role for the
\* other between the two calls may miss it), unless a call failed, which only
\* readers survive.
KeptAccessIsSeen ==
    \A q \in Queries : IsStage(q, "hidden") =>
        /\ request[q].user \notin request[q].row.readers
        /\ ~request[q].failed => request[q].user # Owner /\ request[q].kept = {}
=============================================================================
