----------------- MODULE SettlementTransactionAccessProofs -----------------
(***************************************************************************)
(* Proofs about SettlementTransactionAccess, for any users, instruments,   *)
(* ids, requests and changes of roles.  The invariant says of every        *)
(* request in progress what its record is worth: what was answered by the  *)
(* chain so far, and what the user has held throughout.                    *)
(***************************************************************************)
EXTENDS SettlementTransactionAccess, TLAPS

\* A creation has passed the check of the registrar, and its row is stored
\* once it is created; what was created before has another id.
CreationInv(r) ==
    /\ \A stage \in {"allowed", "absent", "created"} : IsStage(r, stage) => request[r].ever
    /\ IsStage(r, "asked") /\ HasRole(request[r].user, request[r].instrument, REGISTRAR)
          => request[r].ever
    /\ request[r] # NoRequest => \A q \in request[r].before : IsStage(q, "created")
    /\ IsStage(r, "absent") \/ IsStage(r, "created")
          => \A q \in request[r].before : request[q].id # request[r].id
    /\ IsStage(r, "created") => rows[request[r].id] # NoRow

InProgress(q) == IsStage(q, "read") \/ IsStage(q, "settlerKnown")

Held(q) == {role \in Roles : HasRole(request[q].user, request[q].row.instrument, role)}

\* The record of a query is what its user could see and has kept so far.
QueryInv(q) ==
    /\ request[q] # NoRequest /\ (request[q].user \in request[q].row.readers
                                  \/ request[q].user = Owner) => request[q].ever
    /\ InProgress(q) =>
          /\ request[q].kept \subseteq Held(q)
          /\ Held(q) # {} => request[q].ever
          /\ ~request[q].failed
    /\ IsStage(q, "settlerKnown") =>
          /\ SETTLER \in request[q].kept => request[q].isSettler
          /\ request[q].isSettler => request[q].ever
    /\ IsStage(q, "visible") => request[q].ever
    /\ IsStage(q, "hidden") =>
          /\ request[q].user \notin request[q].row.readers
          /\ ~request[q].failed => request[q].user # Owner /\ request[q].kept = {}

RowInv(id) ==
    rows[id] # NoRow =>
        /\ IsStage(rows[id].by, "created")
        /\ request[rows[id].by].ever
        /\ request[rows[id].by].instrument = rows[id].instrument

AccessInv ==
    /\ AccessTypeOK
    /\ \A r \in Creations : CreationInv(r)
    /\ \A q \in Queries : QueryInv(q)
    /\ \A id \in Ids : RowInv(id)

-----------------------------------------------------------------------------

LEMMA InitAccess == Init => AccessInv
<1> SUFFICES ASSUME Init PROVE AccessInv
  OBVIOUS
<1> USE AccessAssumption DEF Init, IsStage
<1>1. AccessTypeOK
  BY DEF AccessTypeOK, Roles, REGISTRAR, SETTLER
<1>2. \A r \in Creations : CreationInv(r)
  BY DEF CreationInv
<1>3. \A q \in Queries : QueryInv(q)
  BY DEF QueryInv, InProgress
<1>4. \A id \in Ids : RowInv(id)
  BY DEF RowInv
<1>5. QED
  BY <1>1, <1>2, <1>3, <1>4 DEF AccessInv

\* What a step on one creation that is not over leaves of the rest: nobody
\* else's record changes, and what was created stays so.
LEMMA OneCreation ==
    ASSUME AccessInv, NEW r \in Creations, NEW new \in Creation,
           request' = [request EXCEPT ![r] = new],
           ~IsStage(r, "created"), UNCHANGED <<roles, rows, changes>>,
           CreationInv(r)'
    PROVE  AccessInv'
<1> USE AccessAssumption
<1>0. AccessTypeOK /\ r \notin Queries
  BY DEF AccessInv
<1>1. AccessTypeOK'
  BY <1>0 DEF AccessTypeOK
<1>2. \A q \in (Creations \cup Queries) \ {r} : request'[q] = request[q]
  BY <1>0 DEF AccessTypeOK
<1>3. ASSUME NEW c \in Creations PROVE CreationInv(c)'
  <2>1. CASE c = r
    BY <2>1
  <2>2. CASE c # r
    <3>1. request'[c] = request[c]
      BY <1>2, <2>2
    <3>2. CreationInv(c)
      BY DEF AccessInv
    <3>3. request[c] # NoRequest => r \notin request[c].before
      BY <3>2 DEF CreationInv
    <3>4. request[c] # NoRequest => request[c].before \subseteq Creations
      BY <1>0 DEF AccessTypeOK, Creation
    <3>5. request[c] # NoRequest => \A q \in request[c].before : request'[q] = request[q]
      BY <3>3, <3>4, <1>2
    <3>6. QED
      BY <3>1, <3>2, <3>5 DEF CreationInv, IsStage, HasRole
  <2>3. QED
    BY <2>1, <2>2
<1>4. ASSUME NEW q \in Queries PROVE QueryInv(q)'
  <2>1. request'[q] = request[q] /\ QueryInv(q)
    BY <1>0, <1>2 DEF AccessInv
  <2>2. QED
    BY <2>1 DEF QueryInv, InProgress, Held, IsStage, HasRole
<1>5. ASSUME NEW id \in Ids PROVE RowInv(id)'
  <2>1. CASE rows[id] = NoRow
    BY <2>1 DEF RowInv
  <2>2. CASE rows[id] # NoRow
    <3>1. rows[id].by \in Creations
      BY <1>0, <2>2 DEF AccessTypeOK, Row
    <3>2. RowInv(id)
      BY DEF AccessInv
    <3>3. rows[id].by # r
      BY <3>2, <2>2 DEF RowInv
    <3>4. request'[rows[id].by] = request[rows[id].by]
      BY <3>1, <3>3, <1>2
    <3>5. QED
      BY <3>2, <3>4 DEF RowInv, IsStage
  <2>3. QED
    BY <2>1, <2>2
<1>6. QED
  BY <1>1, <1>3, <1>4, <1>5 DEF AccessInv

\* The same of a step on one query.
LEMMA OneQuery ==
    ASSUME AccessInv, NEW q \in Queries, NEW new \in Query,
           request' = [request EXCEPT ![q] = new],
           UNCHANGED <<roles, rows, changes>>, QueryInv(q)'
    PROVE  AccessInv'
<1> USE AccessAssumption
<1>0. AccessTypeOK /\ q \notin Creations
  BY DEF AccessInv
<1>1. AccessTypeOK'
  BY <1>0 DEF AccessTypeOK
<1>2. \A r \in (Creations \cup Queries) \ {q} : request'[r] = request[r]
  BY <1>0 DEF AccessTypeOK
<1>3. ASSUME NEW c \in Creations PROVE CreationInv(c)'
  <2>1. request'[c] = request[c] /\ CreationInv(c)
    BY <1>0, <1>2 DEF AccessInv
  <2>2. request[c] # NoRequest => \A b \in request[c].before : request'[b] = request[b]
    BY <1>0, <1>2 DEF AccessTypeOK, Creation
  <2>3. QED
    BY <2>1, <2>2 DEF CreationInv, IsStage, HasRole
<1>4. ASSUME NEW p \in Queries PROVE QueryInv(p)'
  <2>1. CASE p = q
    BY <2>1
  <2>2. CASE p # q
    <3>1. request'[p] = request[p] /\ QueryInv(p)
      BY <1>2, <2>2 DEF AccessInv
    <3>2. QED
      BY <3>1 DEF QueryInv, InProgress, Held, IsStage, HasRole
  <2>3. QED
    BY <2>1, <2>2
<1>5. ASSUME NEW id \in Ids PROVE RowInv(id)'
  <2>1. RowInv(id)
    BY DEF AccessInv
  <2>2. rows[id] # NoRow => request'[rows[id].by] = request[rows[id].by]
    BY <1>0, <1>2 DEF AccessTypeOK, Row
  <2>3. QED
    BY <2>1, <2>2 DEF RowInv, IsStage
<1>6. QED
  BY <1>1, <1>3, <1>4, <1>5 DEF AccessInv

\* request[r] = NoRequest is not a record; what is one has the type of its
\* kind.
LEMMA RequestTypes ==
    ASSUME AccessInv
    PROVE  /\ \A r \in Creations : request[r] # NoRequest => request[r] \in Creation
           /\ \A q \in Queries : request[q] # NoRequest => request[q] \in Query
           /\ \A i \in Instruments, role \in Roles : roles[i][role] \subseteq Users
BY DEF AccessInv, AccessTypeOK

LEMMA BeginCreationStep ==
    ASSUME AccessInv, NEW r \in Creations, NEW user \in Users, NEW id \in Ids,
           NEW instrument \in Instruments, NEW readers \in SUBSET Users,
           BeginCreation(r, user, id, instrument, readers)
    PROVE  AccessInv'
<1> DEFINE new == [user |-> user, id |-> id, instrument |-> instrument, readers |-> readers,
                   stage |-> "asked", ever |-> HasRole(user, instrument, REGISTRAR),
                   before |-> {q \in Creations : IsStage(q, "created")}]
<1>1. new \in Creation
  BY DEF Creation, HasRole
<1>2. /\ request' = [request EXCEPT ![r] = new] /\ UNCHANGED <<roles, rows, changes>>
      /\ ~IsStage(r, "created")
  BY DEF BeginCreation, IsStage
<1>3. \A q \in Creations : IsStage(q, "created") => IsStage(q, "created")'
  BY <1>2 DEF IsStage, AccessInv, AccessTypeOK
<1>4. request'[r] = new
  BY <1>2 DEF AccessInv, AccessTypeOK
<1>5. /\ new.stage = "asked" /\ new.user = user /\ new.instrument = instrument
      /\ new.ever <=> HasRole(user, instrument, REGISTRAR)
      /\ new.before = {q \in Creations : IsStage(q, "created")}
  OBVIOUS
<1> HIDE DEF new
<1>6. \A q \in new.before : IsStage(q, "created")'
  BY <1>3, <1>5
<1>7. CreationInv(r)'
  BY <1>2, <1>4, <1>5, <1>6 DEF CreationInv, IsStage, HasRole
<1>8. QED
  BY <1>1, <1>2, <1>7, OneCreation

LEMMA CheckRegistrarStep ==
    ASSUME AccessInv, NEW r \in Creations, CheckRegistrar(r)
    PROVE  AccessInv'
<1>1. PICK stage \in {"allowed", "rejected"} :
         /\ request' = [request EXCEPT ![r].stage = stage]
         /\ stage = "allowed" => HasRole(request[r].user, request[r].instrument, REGISTRAR)
  BY DEF CheckRegistrar, MayCreate
<1>2. IsStage(r, "asked") /\ UNCHANGED <<roles, rows, changes>> /\ CreationInv(r)
  BY DEF CheckRegistrar, AccessInv
<1>3. request[r] \in Creation
  BY <1>2, RequestTypes DEF IsStage
<1>4. PICK new : new = [request[r] EXCEPT !.stage = stage]
  OBVIOUS
<1>5. /\ new \in Creation /\ new.stage = stage /\ new.ever = request[r].ever
      /\ new.user = request[r].user /\ new.instrument = request[r].instrument
      /\ new.before = request[r].before /\ new.id = request[r].id
  BY <1>1, <1>3, <1>4 DEF Creation
<1>6. request' = [request EXCEPT ![r] = new]
  BY <1>1, <1>4
<1>7. request'[r] = new
  BY <1>6 DEF AccessInv, AccessTypeOK
<1>8. ~IsStage(r, "created")
  BY <1>2 DEF IsStage
<1>9. \A q \in request[r].before : IsStage(q, "created") /\ q # r /\ q \in Creations
  BY <1>2, <1>3, <1>8 DEF CreationInv, IsStage, Creation
<1>10. \A q \in request[r].before : IsStage(q, "created")'
  BY <1>6, <1>9 DEF IsStage, AccessInv, AccessTypeOK
<1>11. CreationInv(r)'
  BY <1>1, <1>2, <1>5, <1>7, <1>10 DEF CreationInv, IsStage, HasRole
<1>12. QED
  BY <1>2, <1>5, <1>6, <1>8, <1>11, OneCreation

LEMMA LookForIdStep ==
    ASSUME AccessInv, NEW r \in Creations, LookForId(r)
    PROVE  AccessInv'
<1>1. PICK stage : stage = IF IsFree(request[r].id) THEN "absent" ELSE "rejected"
  OBVIOUS
<1>2. /\ request' = [request EXCEPT ![r].stage = stage]
      /\ IsStage(r, "allowed") /\ UNCHANGED <<roles, rows, changes>> /\ CreationInv(r)
  BY <1>1 DEF LookForId, AccessInv
<1>3. request[r] \in Creation
  BY <1>2, RequestTypes DEF IsStage
<1>4. PICK new : new = [request[r] EXCEPT !.stage = stage]
  OBVIOUS
<1>5. /\ new \in Creation /\ new.stage = stage /\ new.ever = request[r].ever
      /\ new.user = request[r].user /\ new.instrument = request[r].instrument
      /\ new.before = request[r].before /\ new.id = request[r].id
  BY <1>1, <1>3, <1>4 DEF Creation
<1>6. request' = [request EXCEPT ![r] = new]
  BY <1>2, <1>4
<1>7. request'[r] = new
  BY <1>6 DEF AccessInv, AccessTypeOK
<1>8. ~IsStage(r, "created")
  BY <1>2 DEF IsStage
<1>9. \A q \in request[r].before : IsStage(q, "created") /\ q # r /\ q \in Creations
  BY <1>2, <1>3, <1>8 DEF CreationInv, IsStage, Creation
<1>10. \A q \in request[r].before : IsStage(q, "created")' /\ request'[q] = request[q]
  BY <1>6, <1>9 DEF IsStage, AccessInv, AccessTypeOK
\* Who was created before has a row: the id that is free is another one.
<1>11. stage = "absent" => \A q \in request[r].before : request[q].id # request[r].id
  BY <1>1, <1>9 DEF AccessInv, CreationInv, IsFree
<1>12. CreationInv(r)'
  BY <1>1, <1>2, <1>5, <1>7, <1>10, <1>11 DEF CreationInv, IsStage, HasRole
<1>13. QED
  BY <1>2, <1>5, <1>6, <1>8, <1>12, OneCreation

\* The row may replace another: what is stored is from now on of this
\* creation, and the one replaced still has a row under its id.
LEMMA SaveStep ==
    ASSUME AccessInv, NEW r \in Creations, Save(r)
    PROVE  AccessInv'
<1> USE AccessAssumption
<1>1. /\ IsStage(r, "absent") /\ UNCHANGED <<roles, changes>>
      /\ CreationInv(r) /\ AccessTypeOK /\ r \notin Queries
  BY DEF Save, AccessInv
<1>2. request[r] \in Creation
  BY <1>1, RequestTypes DEF IsStage
<1>3. PICK new : new = [request[r] EXCEPT !.stage = "created"]
  OBVIOUS
<1>4. /\ new \in Creation /\ new.stage = "created" /\ new.ever = request[r].ever
      /\ new.user = request[r].user /\ new.instrument = request[r].instrument
      /\ new.before = request[r].before /\ new.id = request[r].id
  BY <1>2, <1>3 DEF Creation
<1>5. request' = [request EXCEPT ![r] = new]
  BY <1>3 DEF Save
<1>6. request'[r] = new /\ \A q \in (Creations \cup Queries) \ {r} : request'[q] = request[q]
  BY <1>1, <1>5 DEF AccessTypeOK
<1>7. PICK row : row = [instrument |-> request[r].instrument, readers |-> request[r].readers,
                        by |-> r]
  OBVIOUS
<1>8. row \in Row /\ row.by = r /\ row.instrument = request[r].instrument /\ row # NoRow
  BY <1>2, <1>7 DEF Creation, Row
<1>9. rows' = [rows EXCEPT ![request[r].id] = row] /\ request[r].id \in Ids
  BY <1>2, <1>7 DEF Save, Creation
<1>10. rows'[request[r].id] = row
       /\ \A id \in Ids \ {request[r].id} : rows'[id] = rows[id]
  BY <1>1, <1>9 DEF AccessTypeOK
<1>11. AccessTypeOK'
  BY <1>1, <1>4, <1>5, <1>8, <1>9 DEF AccessTypeOK
<1>12. ASSUME NEW c \in Creations PROVE CreationInv(c)'
  <2>1. CreationInv(c)
    BY DEF AccessInv
  <2>2. request[c] # NoRequest => request[c] \in Creation
    BY RequestTypes
  <2>3. request[c] # NoRequest => \A q \in request[c].before : q # r /\ q \in Creations
    BY <1>1, <2>1, <2>2 DEF CreationInv, IsStage, Creation
  <2>4. request[c] # NoRequest => \A q \in request[c].before : request'[q] = request[q]
    BY <1>6, <2>3
  <2>5. CASE c = r
    <3>1. \A q \in new.before : IsStage(q, "created")' /\ request'[q].id # new.id
      BY <1>1, <1>4, <2>2, <2>4, <2>5 DEF CreationInv, IsStage
    <3>2. rows'[new.id] # NoRow /\ new.ever
      BY <1>1, <1>4, <1>8, <1>10 DEF CreationInv
    <3>3. QED
      BY <1>4, <1>6, <2>5, <3>1, <3>2 DEF CreationInv, IsStage
  <2>6. CASE c # r
    <3>1. request'[c] = request[c]
      BY <1>6, <2>6
    <3>2. IsStage(c, "created") => request[c].id \in Ids /\ rows[request[c].id] # NoRow
      BY <2>1, <2>2 DEF CreationInv, IsStage, Creation
    <3>3. IsStage(c, "created") => rows'[request[c].id] # NoRow
      BY <1>8, <1>10, <3>2
    <3>4. QED
      BY <1>1, <2>1, <2>4, <3>1, <3>3 DEF CreationInv, IsStage, HasRole
  <2>7. QED
    BY <2>5, <2>6
<1>13. ASSUME NEW q \in Queries PROVE QueryInv(q)'
  <2>1. request'[q] = request[q] /\ QueryInv(q)
    BY <1>1, <1>6 DEF AccessInv
  <2>2. QED
    BY <1>1, <2>1 DEF QueryInv, InProgress, Held, IsStage, HasRole
<1>14. ASSUME NEW id \in Ids PROVE RowInv(id)'
  <2>1. CASE id = request[r].id
    BY <1>1, <1>4, <1>6, <1>8, <1>10, <2>1 DEF RowInv, CreationInv, IsStage
  <2>2. CASE id # request[r].id
    <3>1. rows'[id] = rows[id] /\ RowInv(id)
      BY <1>10, <2>2 DEF AccessInv
    <3>2. rows[id] # NoRow => rows[id].by \in Creations
      BY <1>1 DEF AccessTypeOK, Row
    <3>3. rows[id] # NoRow => rows[id].by # r
      BY <1>1, <3>1 DEF RowInv, IsStage
    <3>4. rows[id] # NoRow => request'[rows[id].by] = request[rows[id].by]
      BY <1>6, <3>2, <3>3
    <3>5. QED
      BY <3>1, <3>4 DEF RowInv, IsStage
  <2>3. QED
    BY <2>1, <2>2
<1>15. QED
  BY <1>11, <1>12, <1>13, <1>14 DEF AccessInv

LEMMA ReadRowStep ==
    ASSUME AccessInv, NEW q \in Queries, NEW user \in Users, NEW ledger \in Ledgers,
           NEW id \in Ids, ReadRow(q, user, ledger, id)
    PROVE  AccessInv'
<1> DEFINE held == {role \in Roles : HasRole(user, rows[id].instrument, role)}
<1>1. PICK new : new = [user |-> user, row |-> rows[id], stage |-> "read", isSettler |-> FALSE,
                        ever |-> Allowed(user, rows[id]), kept |-> held, failed |-> FALSE]
  OBVIOUS
<1>2. request' = [request EXCEPT ![q] = new] /\ UNCHANGED <<roles, rows, changes>>
  BY <1>1 DEF ReadRow
<1>3. rows[id] \in Row
  BY DEF ReadRow, AccessInv, AccessTypeOK
<1>4. new \in Query
  BY <1>1, <1>3 DEF Query, Allowed
<1>5. /\ new.user = user /\ new.row = rows[id] /\ new.stage = "read" /\ new.kept = held
      /\ ~new.failed /\ (new.ever <=> Allowed(user, rows[id]))
  BY <1>1
<1>6. request'[q] = new
  BY <1>2 DEF AccessInv, AccessTypeOK
<1>7. Held(q)' = held
  BY <1>2, <1>5, <1>6 DEF Held, HasRole
<1>8. held # {} => new.ever
  BY <1>5 DEF Allowed
<1>9. QueryInv(q)'
  BY <1>5, <1>6, <1>7, <1>8 DEF QueryInv, InProgress, IsStage, Allowed
<1>10. QED
  BY <1>2, <1>4, <1>9, OneQuery

LEMMA AskSettlerStep ==
    ASSUME AccessInv, NEW q \in Queries, AskSettler(q)
    PROVE  AccessInv'
<1> DEFINE answer == HasRole(request[q].user, request[q].row.instrument, SETTLER)
<1>a. answer \in BOOLEAN
  BY DEF HasRole
<1> HIDE DEF answer
<1>b. PICK isSettler \in BOOLEAN : isSettler = answer
  BY <1>a
<1>0. isSettler = HasRole(request[q].user, request[q].row.instrument, SETTLER)
  BY <1>b DEF answer
<1>1. IsStage(q, "read") /\ UNCHANGED <<roles, rows, changes>> /\ QueryInv(q)
  BY DEF AskSettler, AccessInv
<1>2. request[q] \in Query
  BY <1>1, RequestTypes DEF IsStage
<1>3. PICK new : new = [request[q] EXCEPT !.stage = "settlerKnown", !.isSettler = isSettler]
  OBVIOUS
<1>4. /\ new \in Query /\ new.stage = "settlerKnown" /\ (new.isSettler <=> isSettler)
      /\ new.user = request[q].user /\ new.row = request[q].row
      /\ (new.ever <=> request[q].ever) /\ (new.failed <=> request[q].failed)
      /\ new.kept = request[q].kept
  BY <1>2, <1>3 DEF Query
<1>5. request' = [request EXCEPT ![q] = new]
  BY <1>0, <1>3 DEF AskSettler
<1>6. request'[q] = new
  BY <1>5 DEF AccessInv, AccessTypeOK
<1>7. Held(q)' = Held(q)
  BY <1>1, <1>4, <1>6 DEF Held, HasRole
<1>8. SETTLER \in Held(q) <=> isSettler
  BY <1>0 DEF Held, Roles
<1>9. QueryInv(q)'
  BY <1>1, <1>2, <1>4, <1>6, <1>7, <1>8 DEF QueryInv, InProgress, IsStage, Query
<1>10. QED
  BY <1>1, <1>4, <1>5, <1>9, OneQuery

LEMMA AskRegistrarStep ==
    ASSUME AccessInv, NEW q \in Queries, AskRegistrar(q)
    PROVE  AccessInv'
<1> DEFINE isRegistrar == HasRole(request[q].user, request[q].row.instrument, REGISTRAR)
           isOperator == \/ request[q].isSettler
                         \/ request[q].user = Owner
                         \/ isRegistrar
<1>1. IsStage(q, "settlerKnown") /\ UNCHANGED <<roles, rows, changes>> /\ QueryInv(q)
  BY DEF AskRegistrar, AccessInv
<1>2. request[q] \in Query
  BY <1>1, RequestTypes DEF IsStage
<1>3. PICK stage : stage = Answered(q, isOperator)
  OBVIOUS
<1>4. /\ stage \in {"visible", "hidden"}
      /\ stage = "visible" <=> request[q].user \in request[q].row.readers \/ isOperator
  BY <1>3 DEF Answered, Total
<1>5. PICK new : new = [request[q] EXCEPT !.stage = stage]
  OBVIOUS
<1>6. /\ new \in Query /\ new.stage = stage
      /\ new.user = request[q].user /\ new.row = request[q].row
      /\ (new.ever <=> request[q].ever) /\ new.kept = request[q].kept
  BY <1>2, <1>4, <1>5 DEF Query
<1>7. request' = [request EXCEPT ![q] = new]
  BY <1>3, <1>5 DEF AskRegistrar
<1>8. request'[q] = new
  BY <1>7 DEF AccessInv, AccessTypeOK
<1>9. REGISTRAR \in Held(q) <=> isRegistrar
  BY DEF Held, Roles
<1>10. stage = "visible" => new.ever
  BY <1>1, <1>4, <1>6, <1>9 DEF QueryInv, InProgress, IsStage
<1>11. stage = "hidden" => new.user # Owner /\ new.user \notin new.row.readers /\ new.kept = {}
  <2>1. new.kept \subseteq Roles
    BY <1>6 DEF Query
  <2>2. new.kept \subseteq Held(q) /\ (SETTLER \in new.kept => request[q].isSettler)
    BY <1>1, <1>6 DEF QueryInv, InProgress
  <2>3. QED
    BY <1>4, <1>6, <1>9, <2>1, <2>2 DEF Roles
<1>12. QueryInv(q)'
  BY <1>1, <1>4, <1>6, <1>8, <1>10, <1>11 DEF QueryInv, InProgress, IsStage
<1>13. QED
  BY <1>1, <1>6, <1>7, <1>12, OneQuery

LEMMA FailToAskStep ==
    ASSUME AccessInv, NEW q \in Queries, FailToAsk(q)
    PROVE  AccessInv'
<1>1. InProgress(q) /\ UNCHANGED <<roles, rows, changes>> /\ QueryInv(q)
  BY DEF FailToAsk, AccessInv, InProgress
<1>2. request[q] \in Query
  BY <1>1, RequestTypes DEF IsStage, InProgress
<1>3. PICK stage : stage = Answered(q, FALSE)
  OBVIOUS
<1>4. /\ stage \in {"visible", "hidden"}
      /\ stage = "visible" <=> request[q].user \in request[q].row.readers
  BY <1>3 DEF Answered, Total
<1>5. PICK new : new = [request[q] EXCEPT !.stage = stage, !.failed = TRUE]
  OBVIOUS
<1>6. /\ new \in Query /\ new.stage = stage /\ new.failed
      /\ new.user = request[q].user /\ new.row = request[q].row
      /\ (new.ever <=> request[q].ever) /\ new.kept = request[q].kept
  BY <1>2, <1>4, <1>5 DEF Query
<1>7. request' = [request EXCEPT ![q] = new]
  BY <1>3, <1>5 DEF FailToAsk
<1>8. request'[q] = new
  BY <1>7 DEF AccessInv, AccessTypeOK
<1>9. QueryInv(q)'
  BY <1>1, <1>4, <1>6, <1>8 DEF QueryInv, InProgress, IsStage
<1>10. QED
  BY <1>1, <1>6, <1>7, <1>9, OneQuery

\* A change of roles: the records of the requests in progress are brought up
\* to date, and those of the others stay as they are.
LEMMA ChangeRoleStep ==
    ASSUME AccessInv, NEW instrument \in Instruments, NEW role \in Roles, NEW user \in Users,
           ChangeRole(instrument, role, user)
    PROVE  AccessInv'
<1> USE AccessAssumption
<1>1. /\ AccessTypeOK /\ rows' = rows /\ changes' = changes + 1 /\ changes < MaxRoleChanges
      /\ request' = [r \in Creations \cup Queries |-> Recorded(r, roles')]
  BY DEF ChangeRole, AccessInv
<1>2. PICK operators \in SUBSET Users :
         roles' = [roles EXCEPT ![instrument][role] = operators]
  <2>1. PICK operators \in {roles[instrument][role] \cup {user},
                            roles[instrument][role] \ {user}} :
           roles' = [roles EXCEPT ![instrument][role] = operators]
    BY DEF ChangeRole
  <2>2. roles[instrument][role] \subseteq Users
    BY RequestTypes
  <2>3. QED
    BY <2>1, <2>2
<1>3. roles' \in [Instruments -> [Roles -> SUBSET Users]]
  BY <1>1, <1>2 DEF AccessTypeOK
<1>4. \A r \in Creations \cup Queries : request[r] = NoRequest => request'[r] = NoRequest
  BY <1>1 DEF Recorded
\* A creation keeps everything but what is recorded.
<1>5. ASSUME NEW r \in Creations, request[r] # NoRequest
      PROVE  /\ request'[r] \in Creation
             /\ request'[r].stage = request[r].stage /\ request'[r].id = request[r].id
             /\ request'[r].user = request[r].user /\ request'[r].before = request[r].before
             /\ request'[r].instrument = request[r].instrument
             /\ request[r].ever => request'[r].ever
             /\ IsStage(r, "asked") /\ HasRole(request[r].user, request[r].instrument, REGISTRAR)'
                   => request'[r].ever
  <2>1. request[r] \in Creation
    BY <1>5, RequestTypes
  <2>2. PICK ever \in BOOLEAN :
           ever = (request[r].ever \/
                     /\ request[r].stage = "asked"
                     /\ request[r].user \in roles'[request[r].instrument][REGISTRAR])
    OBVIOUS
  <2>3. request'[r] = [request[r] EXCEPT !.ever = ever]
    BY <1>1, <1>5, <2>2 DEF Recorded
  <2>4. /\ request'[r] \in Creation
        /\ request'[r].user = request[r].user
        /\ request'[r].instrument = request[r].instrument
        /\ request'[r].stage = request[r].stage /\ request'[r].id = request[r].id
        /\ request'[r].before = request[r].before /\ (request'[r].ever <=> ever)
    BY <2>1, <2>3 DEF Creation
  <2>5. IsStage(r, "asked") /\ HasRole(request[r].user, request[r].instrument, REGISTRAR)'
           => ever
    BY <2>2, <2>4 DEF HasRole, IsStage
  <2>6. QED
    BY <2>2, <2>4, <2>5
\* The record of a query that is over stays.
<1>6. \A q \in Queries : request[q] # NoRequest /\ ~InProgress(q) => request'[q] = request[q]
  <2>1. \A q \in Queries : q \notin Creations
    OBVIOUS
  <2>2. QED
    BY <1>1, <2>1 DEF Recorded, InProgress, IsStage
\* One in progress keeps everything but what is recorded.
<1>7. ASSUME NEW q \in Queries, InProgress(q)
      PROVE  /\ request'[q] \in Query
             /\ request'[q].stage = request[q].stage
             /\ request'[q].user = request[q].user /\ request'[q].row = request[q].row
             /\ request'[q].isSettler <=> request[q].isSettler
             /\ request'[q].failed <=> request[q].failed
             /\ request'[q].kept = request[q].kept \cap Held(q)'
             /\ request[q].ever \/ Held(q)' # {} => request'[q].ever
  <2>1. /\ request[q] \in Query /\ request[q] # NoRequest
        /\ request[q].stage \in {"read", "settlerKnown"} /\ q \notin Creations
    BY <1>7, RequestTypes DEF InProgress, IsStage
  <2>2. PICK held \in SUBSET Roles :
           held = {r \in Roles : request[q].user \in roles'[request[q].row.instrument][r]}
    OBVIOUS
  <2>3. PICK ever \in BOOLEAN : ever = (request[q].ever \/ held # {})
    OBVIOUS
  <2>4. request'[q] = [request[q] EXCEPT !.ever = ever, !.kept = @ \cap held]
    BY <1>1, <2>1, <2>2, <2>3 DEF Recorded
  <2>5. /\ request'[q] \in Query
        /\ request'[q].stage = request[q].stage
        /\ request'[q].user = request[q].user /\ request'[q].row = request[q].row
        /\ request'[q].isSettler <=> request[q].isSettler
        /\ request'[q].failed <=> request[q].failed
        /\ request'[q].kept = request[q].kept \cap held
        /\ request'[q].ever <=> ever
    BY <2>1, <2>4 DEF Query
  <2>6. Held(q)' = held
    BY <2>2, <2>5 DEF Held, HasRole
  <2>7. QED
    BY <2>3, <2>5, <2>6
<1>8. AccessTypeOK'
  <2>1. \A r \in Creations : request'[r] \in Creation \cup {NoRequest}
    BY <1>4, <1>5
  <2>2. ASSUME NEW q \in Queries PROVE request'[q] \in Query \cup {NoRequest}
    BY <1>4, <1>6, <1>7, RequestTypes
  <2>3. changes' \in 0..MaxRoleChanges
    BY <1>1 DEF AccessTypeOK
  <2>4. rows' \in [Ids -> Row \cup {NoRow}]
    BY <1>1 DEF AccessTypeOK
  <2>5. \A r \in Creations \cup Queries : request'[r] \in Creation \cup Query \cup {NoRequest}
    BY <2>1, <2>2
  <2>6. request' = [r \in Creations \cup Queries |-> request'[r]]
    BY <1>1
  <2>7. request' \in [Creations \cup Queries -> Creation \cup Query \cup {NoRequest}]
    BY <2>5, <2>6
  <2>8. QED
    BY <1>3, <2>1, <2>2, <2>3, <2>4, <2>7 DEF AccessTypeOK
<1>9. \A r \in Creations :
         /\ request'[r] # NoRequest <=> request[r] # NoRequest
         /\ request[r] # NoRequest => request'[r].stage = request[r].stage
  <2>1. NoRequest \notin Creation
    OBVIOUS
  <2>2. QED
    BY <1>4, <1>5, <2>1
<1>10. ASSUME NEW r \in Creations PROVE CreationInv(r)'
  <2>1. CreationInv(r)
    BY DEF AccessInv
  <2>2. CASE request[r] = NoRequest
    BY <1>4, <2>2 DEF CreationInv, IsStage
  <2>3. CASE request[r] # NoRequest
    <3>1. request[r].before \subseteq Creations
      BY <2>3, RequestTypes DEF Creation
    <3>2. \A q \in request[r].before :
             q \in Creations /\ request[q] # NoRequest /\ IsStage(q, "created")
      BY <2>1, <2>3, <3>1 DEF CreationInv, IsStage
    <3>3. \A q \in request[r].before : IsStage(q, "created")' /\ request'[q].id = request[q].id
      BY <1>5, <1>9, <3>2 DEF IsStage
    <3>4. request'[r] # NoRequest /\ request'[r].stage = request[r].stage
      BY <1>9, <2>3
    <3>5. \A stage \in {"allowed", "absent", "created"} : IsStage(r, stage)' => request'[r].ever
      BY <1>5, <2>1, <2>3, <3>4 DEF CreationInv, IsStage
    <3>6. /\ request'[r].before = request[r].before /\ request'[r].id = request[r].id
          /\ request'[r].user = request[r].user
          /\ request'[r].instrument = request[r].instrument
          /\ IsStage(r, "asked") /\ HasRole(request[r].user, request[r].instrument, REGISTRAR)'
                => request'[r].ever
      BY <1>5, <2>3
    <3>7. IsStage(r, "absent")' \/ IsStage(r, "created")'
             => \A q \in request'[r].before : request'[q].id # request'[r].id
      BY <2>1, <2>3, <3>3, <3>4, <3>6 DEF CreationInv, IsStage
    <3>8. IsStage(r, "created")' => rows'[request'[r].id] # NoRow
      BY <1>1, <2>1, <2>3, <3>4, <3>6 DEF CreationInv, IsStage
    <3>9. \A q \in request'[r].before : IsStage(q, "created")'
      BY <3>3, <3>6
    <3>10. IsStage(r, "asked")' => IsStage(r, "asked")
      BY <2>3, <3>4 DEF IsStage
    <3>11. QED
      BY <3>5, <3>6, <3>7, <3>8, <3>9, <3>10 DEF CreationInv
  <2>4. QED
    BY <2>2, <2>3
<1>11. ASSUME NEW q \in Queries PROVE QueryInv(q)'
  <2>1. QueryInv(q)
    BY DEF AccessInv
  <2>2. CASE request[q] = NoRequest
    BY <1>4, <2>2 DEF QueryInv, InProgress, IsStage
  <2>3. CASE InProgress(q)
    <3>1. /\ request'[q].stage = request[q].stage
          /\ request'[q].user = request[q].user /\ request'[q].row = request[q].row
          /\ request'[q].isSettler <=> request[q].isSettler
          /\ request'[q].failed <=> request[q].failed
          /\ request'[q].kept = request[q].kept \cap Held(q)'
          /\ request[q].ever \/ Held(q)' # {} => request'[q].ever
      BY <1>7, <2>3
    <3>2. request[q] # NoRequest /\ request[q].stage \in {"read", "settlerKnown"}
      BY <2>3 DEF InProgress, IsStage
    <3>3. ~IsStage(q, "visible")' /\ ~IsStage(q, "hidden")'
      BY <3>1, <3>2 DEF IsStage
    <3>4. request'[q].user \in request'[q].row.readers \/ request'[q].user = Owner
             => request'[q].ever
      BY <2>1, <3>1, <3>2 DEF QueryInv
    <3>5. /\ request'[q].kept \subseteq Held(q)'
          /\ Held(q)' # {} => request'[q].ever
          /\ ~request'[q].failed
      BY <2>1, <2>3, <3>1 DEF QueryInv
    <3>6. IsStage(q, "settlerKnown")' =>
             /\ SETTLER \in request'[q].kept => request'[q].isSettler
             /\ request'[q].isSettler => request'[q].ever
      BY <2>1, <3>1, <3>2 DEF QueryInv, IsStage
    <3>7. QED
      BY <3>3, <3>4, <3>5, <3>6 DEF QueryInv
  <2>4. CASE request[q] # NoRequest /\ ~InProgress(q)
    <3>1. request'[q] = request[q]
      BY <1>6, <2>4
    <3>2. ~InProgress(q)' /\ ~IsStage(q, "settlerKnown")'
      BY <2>4, <3>1 DEF InProgress, IsStage
    <3>3. QED
      BY <2>1, <3>1, <3>2 DEF QueryInv, IsStage
  <2>5. QED
    BY <2>2, <2>3, <2>4
<1>12. ASSUME NEW id \in Ids PROVE RowInv(id)'
  <2>1. RowInv(id) /\ rows'[id] = rows[id]
    BY <1>1 DEF AccessInv
  <2>2. rows[id] # NoRow => rows[id].by \in Creations
    BY <1>1 DEF AccessTypeOK, Row
  <2>3. rows[id] # NoRow => request[rows[id].by] # NoRequest
    BY <2>1 DEF RowInv, IsStage
  <2>4. QED
    BY <1>5, <1>9, <2>1, <2>2, <2>3 DEF RowInv, IsStage
<1>13. QED
  BY <1>8, <1>10, <1>11, <1>12 DEF AccessInv

LEMMA AccessStep ==
    ASSUME AccessInv, [Next]_accessVars
    PROVE  AccessInv'
<1>1. ASSUME NEW r \in Creations, NEW u \in Users, NEW id \in Ids, NEW i \in Instruments,
             NEW readers \in SUBSET Users, BeginCreation(r, u, id, i, readers)
      PROVE  AccessInv'
  BY <1>1, BeginCreationStep
<1>2. ASSUME NEW r \in Creations, CheckRegistrar(r) PROVE AccessInv'
  BY <1>2, CheckRegistrarStep
<1>3. ASSUME NEW r \in Creations, LookForId(r) PROVE AccessInv'
  BY <1>3, LookForIdStep
<1>4. ASSUME NEW r \in Creations, Save(r) PROVE AccessInv'
  BY <1>4, SaveStep
<1>5. ASSUME NEW q \in Queries, NEW u \in Users, NEW l \in Ledgers, NEW id \in Ids,
             ReadRow(q, u, l, id)
      PROVE  AccessInv'
  BY <1>5, ReadRowStep
<1>6. ASSUME NEW q \in Queries, AskSettler(q) PROVE AccessInv'
  BY <1>6, AskSettlerStep
<1>7. ASSUME NEW q \in Queries, AskRegistrar(q) PROVE AccessInv'
  BY <1>7, AskRegistrarStep
<1>8. ASSUME NEW q \in Queries, FailToAsk(q) PROVE AccessInv'
  BY <1>8, FailToAskStep
<1>9. ASSUME NEW i \in Instruments, NEW role \in Roles, NEW u \in Users, ChangeRole(i, role, u)
      PROVE  AccessInv'
  BY <1>9, ChangeRoleStep
<1>10. CASE UNCHANGED accessVars
  BY <1>10 DEF accessVars, AccessInv, AccessTypeOK, CreationInv, QueryInv, RowInv,
               InProgress, Held, IsStage, HasRole
<1>11. QED
  BY <1>1, <1>2, <1>3, <1>4, <1>5, <1>6, <1>7, <1>8, <1>9, <1>10 DEF Next

\* The inductive invariant: what every request in progress knows is true of
\* the rows and of roles held since it began.
THEOREM AccessInvariant == AccessSpec => []AccessInv
<1>1. AccessInv /\ [Next]_accessVars => AccessInv'
  BY AccessStep
<1>2. QED
  BY InitAccess, <1>1, PTL DEF AccessSpec

-----------------------------------------------------------------------------

\* Every variable keeps the type of its values.
THEOREM AccessTypeCorrect == AccessSpec => []AccessTypeOK
<1>1. AccessInv => AccessTypeOK
  BY DEF AccessInv
<1>2. QED
  BY AccessInvariant, <1>1, PTL

\* create: what is stored was asked for by a registrar of its instrument.
THEOREM RowsAreOfRegistrars == AccessSpec => []SavedByARegistrar
<1>1. AccessInv => SavedByARegistrar
  BY DEF AccessInv, RowInv, SavedByARegistrar
<1>2. QED
  BY AccessInvariant, <1>1, PTL

\* create: a settlement transaction that was answered for is not replaced by
\* a later request.
THEOREM AnswersAreKept == AccessSpec => []AnsweredRowsStay
<1>1. AccessInv => AnsweredRowsStay
  BY DEF AccessInv, CreationInv, AnsweredRowsStay
<1>2. QED
  BY AccessInvariant, <1>1, PTL

\* The censor shows a row to nobody who never had access to it.
THEOREM CensorIsSound == AccessSpec => []VisibleWasAllowed
<1>1. AccessInv => VisibleWasAllowed
  BY DEF AccessInv, QueryInv, VisibleWasAllowed
<1>2. QED
  BY AccessInvariant, <1>1, PTL

\* The censor hides a row from nobody whose access lasted.
THEOREM CensorIsComplete == AccessSpec => []KeptAccessIsSeen
<1>1. AccessInv => KeptAccessIsSeen
  BY DEF AccessInv, QueryInv, KeptAccessIsSeen
<1>2. QED
  BY AccessInvariant, <1>1, PTL
=============================================================================
