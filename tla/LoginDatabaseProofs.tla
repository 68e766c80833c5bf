------------------------- MODULE LoginDatabaseProofs -------------------------
(***************************************************************************)
(* Proofs about LoginDatabase, for every set of logins, passwords and      *)
(* salts, however many calls are made and whatever fails in them.          *)
(***************************************************************************)
EXTENDS LoginDatabase, TLAPS

StatementNames == {Statements[k] : k \in DOMAIN Statements}

\* The three statements, by name.
LEMMA StatementsAre ==
    /\ DOMAIN Statements = 1 .. 3 /\ Len(Statements) = 3
    /\ Statements[1] = "AddUser"
    /\ Statements[2] = "GetUserByName"
    /\ Statements[3] = "RemoveUserByName"
    /\ StatementNames = {"AddUser", "GetUserByName", "RemoveUserByName"}
<1>1. /\ DOMAIN Statements = 1 .. 3 /\ Len(Statements) = 3
      /\ Statements[1] = "AddUser"
      /\ Statements[2] = "GetUserByName"
      /\ Statements[3] = "RemoveUserByName"
  BY DEF Statements
<1>2. 1 .. 3 = {1, 2, 3}
  OBVIOUS
<1> QED
  BY <1>1, <1>2 DEF StatementNames

-----------------------------------------------------------------------------
(* The inductive invariant.                                                *)

\* One object at a time has the handle, and the place in the code says which.
Holds(o) == conn = [NoConn EXCEPT ![o] = "mysql"] /\ open = {"mysql"}
HoldsNone == conn = NoConn /\ open = {}

Ownership ==
    /\ pc \in {"Init", "end"} => HoldsNone
    /\ pc \in {"Connect", "Return"} => Holds("db")
    /\ pc = "Construct" => Holds("con")
    /\ pc \in StatementNames \cup {"ready", "crashed"} => Holds("login")

\* A login whose password is known has the row that password was hashed to.
TableKnown ==
    \A l \in Logins :
        /\ told[l] = Null => rows[l] = Null
        /\ told[l] \in Passwords =>
              rows[l] # Null /\ rows[l].hash = Hash(told[l], rows[l].salt)

\* Only a Get that failed leaves a result to be read.
PendingAfterFailure == pending => getFailed

\* No call is answered before the database is in use.
NoCallYet == pc \notin {"ready", "end", "crashed"} => last.ok

Inv ==
    /\ TypeOK
    /\ Ownership
    /\ TableKnown
    /\ PendingAfterFailure
    /\ NoCallYet
    /\ OnlyTheseFailuresLast

-----------------------------------------------------------------------------

\* Before the first call everything is in order.
LEMMA InvInit == Init => Inv
<1> SUFFICES ASSUME Init PROVE Inv
  OBVIOUS
<1>1. TypeOK
  <2>1. rows \in [Logins -> Row \cup {Null}]
        /\ told \in [Logins -> Passwords \cup {Null, "unknown"}]
    BY DEF Init
  <2>2. connected \in BOOLEAN /\ pending \in BOOLEAN /\ getFailed \in BOOLEAN
    BY Zenon DEF Init
  <2>3. last \in [op : {"none", "Insert", "Get", "Remove"},
                  login : Logins \cup {Null}, ok : BOOLEAN, fault : BOOLEAN]
    BY DEF Init
  <2>4. conn \in [{"db", "con", "login"} -> {Null, "mysql"}]
    BY DEF Init, NoConn
  <2> QED
    BY <2>1, <2>2, <2>3, <2>4 DEF Init, TypeOK
<1>2. Ownership
  BY StatementsAre DEF Init, Ownership, HoldsNone
<1>3. TableKnown
  BY LoginDatabaseAssumption DEF Init, TableKnown
<1>4. PendingAfterFailure /\ NoCallYet /\ OnlyTheseFailuresLast
  BY DEF Init, PendingAfterFailure, NoCallYet, OnlyTheseFailuresLast
<1> QED
  BY <1>1, <1>2, <1>3, <1>4 DEF Inv

\* Every call keeps every variable in its type.
LEMMA TypeOKNext == Inv /\ [Next]_vars => TypeOK'
<1> SUFFICES ASSUME Inv, [Next]_vars PROVE TypeOK'
  OBVIOUS
<1> DEFINE Last == [op : {"none", "Insert", "Get", "Remove"},
                    login : Logins \cup {Null}, ok : BOOLEAN, fault : BOOLEAN]
<1>t. TypeOK
  BY DEF Inv
<1> USE LoginDatabaseAssumption, StatementsAre, <1>t
    DEF TypeOK, tableVars, StatementNames
<1>1. CASE LoadInit
  <2>1. pc' \in {"Connect", "end"}
    BY <1>1 DEF LoadInit
  <2>2. open' \subseteq {"mysql"}
    BY <1>1 DEF LoadInit
  <2>3. conn' \in [{"db", "con", "login"} -> {Null, "mysql"}]
    BY <1>1 DEF LoadInit
  <2> QED
    BY <1>1, <2>1, <2>2, <2>3 DEF LoadInit
<1>2. CASE LoadConnect
  <2>1. pc' \in {"Return", "end"}
    BY <1>2 DEF LoadConnect
  <2>2. open' \subseteq {"mysql"}
    BY <1>2 DEF LoadConnect
  <2>3. conn' \in [{"db", "con", "login"} -> {Null, "mysql"}]
    BY <1>2 DEF LoadConnect, NoConn
  <2>4. connected' \in BOOLEAN
    BY <1>2, Zenon DEF LoadConnect
  <2> QED
    BY <1>2, <2>1, <2>2, <2>3, <2>4 DEF LoadConnect
<1>3. CASE LoadReturn
  BY <1>3 DEF LoadReturn, MovedConn
<1>4. CASE Construct
  BY <1>4 DEF Construct, MovedConn
<1>5. ASSUME NEW k \in DOMAIN Statements, PrepareSTMT(k)
      PROVE  TypeOK'
  BY <1>5 DEF PrepareSTMT
<1>e. ASSUME NEW op \in {"Insert", "Get", "Remove"}, NEW l \in Logins,
             ReturnEarly(op, l) \/ ExecuteRefused(op, l)
      PROVE  TypeOK'
  <2>1. last' \in Last
    <3>1. CASE ReturnEarly(op, l)
      <4>1. Prepared(op) \in BOOLEAN
        BY DEF Prepared
      <4> QED
        BY <3>1, <4>1, <1>e DEF ReturnEarly, Answer
    <3>2. CASE ExecuteRefused(op, l)
      BY <3>2 DEF ExecuteRefused, Answer
    <3> QED
      BY <1>e, <3>1, <3>2
  <2> QED
    BY <1>e, <2>1 DEF ReturnEarly, ExecuteRefused
<1>l. ASSUME NEW op \in {"Insert", "Get", "Remove"}, NEW l \in Logins,
             NEW after \in [Logins -> Row \cup {Null}], NEW sure,
             ExecuteLost(op, l, after, sure)
      PROVE  TypeOK'
  <2>1. last' \in Last
    BY <1>l DEF ExecuteLost, Answer
  <2>2. told' \in [Logins -> Passwords \cup {Null, "unknown"}]
    BY <1>l DEF ExecuteLost, Knows
  <2>3. rows' \in [Logins -> Row \cup {Null}]
    BY <1>l DEF ExecuteLost
  <2> QED
    BY <1>l, <2>1, <2>2, <2>3 DEF ExecuteLost
<1>x. ASSUME NEW op \in {"Insert", "Get", "Remove"}, NEW l \in Logins,
             NEW after \in [Logins -> Row \cup {Null}],
             NEW what \in Passwords \cup {Null},
             Executed(op, l, after, what)
      PROVE  TypeOK'
  <2>1. last' \in Last
    BY <1>x DEF Executed, Answer
  <2>2. told' \in [Logins -> Passwords \cup {Null, "unknown"}]
    BY <1>x DEF Executed, Knows
  <2> QED
    BY <1>x, <2>1, <2>2 DEF Executed
<1>6. ASSUME NEW l \in Logins, NEW p \in Passwords, Insert(l, p)
      PROVE  TypeOK'
  <2>1. CASE "AddUser" \notin stmts
    BY <1>6, <2>1 DEF Insert, ReturnEarly
  <2>2. CASE ReturnEarly("Insert", l)
    BY <2>2, <1>e
  <2>3. ASSUME NEW salt \in GenerateSalt,
               NEW after,
               after = IF rows[l] = Null
                       THEN [rows EXCEPT ![l] = [hash |-> Hash(p, salt),
                                                 salt |-> salt]]
                       ELSE rows,
               \/ ExecuteLost("Insert", l, after, told[l] \in Passwords)
               \/ ExecuteRefused("Insert", l)
               \/ Executed("Insert", l, after, p)
        PROVE  TypeOK'
    <3>1. [hash |-> Hash(p, salt), salt |-> salt] \in Row
      BY <2>3 DEF GenerateSalt, Hash, Row
    <3>2. after \in [Logins -> Row \cup {Null}]
      BY <2>3, <3>1
    <3> QED
      BY <2>3, <3>2, <1>e, <1>l, <1>x
  <2> QED
    BY <1>6, <2>1, <2>2, <2>3 DEF Insert
<1>7. ASSUME NEW l \in Logins, Remove(l)
      PROVE  TypeOK'
  <2>1. [rows EXCEPT ![l] = Null] \in [Logins -> Row \cup {Null}]
    OBVIOUS
  <2> QED
    BY <1>7, <2>1, <1>e, <1>l, <1>x DEF Remove
<1>8. ASSUME NEW l \in Logins, Get(l)
      PROVE  TypeOK'
  <2>1. CASE ReturnEarly("Get", l)
    BY <2>1, <1>e
  <2>2. CASE ExecuteLost("Get", l, rows, TRUE)
    BY <2>2, <1>l
  <2>3. ASSUME UNCHANGED <<pc, conn, open, stmts, connected, rows, told>>,
               NEW ok \in BOOLEAN, NEW fault \in BOOLEAN,
               Answer("Get", l, ok, fault),
               pending' \in BOOLEAN, getFailed' \in BOOLEAN
        PROVE  TypeOK'
    <3>1. last' \in Last
      BY <2>3 DEF Answer
    <3> QED
      BY <2>3, <3>1
  <2>4. (rows[l] # Null /\ LoginBytes[l] <= kLoginSize) \in BOOLEAN
    BY Zenon
  <2> QED
    BY <1>8, <2>1, <2>2, <2>3, <2>4, Zenon DEF Get, PendingAfterStore
<1>9. CASE Destroy
  BY <1>9 DEF Destroy, NoConn
<1>10. CASE UNCHANGED vars
  BY <1>10 DEF vars
<1> QED
  BY <1>1, <1>2, <1>3, <1>4, <1>5, <1>6, <1>7, <1>8, <1>9, <1>10 DEF Next

\* The handle goes from one object to the next and is closed by the last.
LEMMA OwnershipNext == Inv /\ [Next]_vars => Ownership'
<1> SUFFICES ASSUME Inv, [Next]_vars PROVE Ownership'
  OBVIOUS
<1>t. Ownership /\ TypeOK
  BY DEF Inv
<1> USE LoginDatabaseAssumption, StatementsAre, <1>t
    DEF Ownership, Holds, HoldsNone, NoConn
<1>1. CASE LoadInit
  BY <1>1 DEF LoadInit
<1>2. CASE LoadConnect
  BY <1>2 DEF LoadConnect
<1>3. CASE LoadReturn
  BY <1>3 DEF LoadReturn, MovedConn
<1>4. CASE Construct
  BY <1>4 DEF Construct, MovedConn
<1>5. ASSUME NEW k \in DOMAIN Statements, PrepareSTMT(k)
      PROVE  Ownership'
  <2>1. pc \in StatementNames
    BY <1>5 DEF PrepareSTMT, StatementNames
  <2>2. pc' \in StatementNames \cup {"ready", "crashed"}
    BY <1>5 DEF PrepareSTMT, StatementNames
  <2> QED
    BY <1>5, <2>1, <2>2 DEF PrepareSTMT
<1>6. ASSUME pc = "ready", UNCHANGED <<conn, open>>,
             pc' \in {"ready", "crashed"}
      PROVE  Ownership'
  BY <1>6
<1>7. ASSUME NEW l \in Logins, NEW p \in Passwords, Insert(l, p)
      PROVE  Ownership'
  BY <1>7, <1>6
  DEF Insert, ReturnEarly, ExecuteLost, ExecuteRefused, Executed
<1>8. ASSUME NEW l \in Logins, Remove(l) \/ Get(l)
      PROVE  Ownership'
  BY <1>8, <1>6
  DEF Remove, Get, ReturnEarly, ExecuteLost, ExecuteRefused, Executed
<1>9. CASE Destroy
  BY <1>9 DEF Destroy
<1>10. CASE UNCHANGED vars
  BY <1>10 DEF vars
<1> QED
  BY <1>1, <1>2, <1>3, <1>4, <1>5, <1>7, <1>8, <1>9, <1>10 DEF Next

\* Only Get changes whether a result is left to be read, and a Get that leaves
\* one has failed.
LEMMA PendingNext == Inv /\ [Next]_vars => PendingAfterFailure'
<1> SUFFICES ASSUME Inv, [Next]_vars PROVE PendingAfterFailure'
  OBVIOUS
<1>t. PendingAfterFailure
  BY DEF Inv
<1> USE <1>t DEF PendingAfterFailure, tableVars
<1>1. CASE LoadInit \/ LoadConnect \/ LoadReturn \/ Construct \/ Destroy
  BY <1>1, Zenon DEF LoadInit, LoadConnect, LoadReturn, Construct, Destroy
<1>2. ASSUME NEW k \in DOMAIN Statements, PrepareSTMT(k)
      PROVE  PendingAfterFailure'
  BY <1>2, Zenon DEF PrepareSTMT
<1>3. ASSUME NEW l \in Logins, NEW p \in Passwords, Insert(l, p)
      PROVE  PendingAfterFailure'
  BY <1>3, Zenon
  DEF Insert, ReturnEarly, ExecuteLost, ExecuteRefused, Executed
<1>4. ASSUME NEW l \in Logins, Remove(l)
      PROVE  PendingAfterFailure'
  BY <1>4, Zenon
  DEF Remove, ReturnEarly, ExecuteLost, ExecuteRefused, Executed
<1>5. ASSUME NEW l \in Logins, Get(l)
      PROVE  PendingAfterFailure'
  BY <1>5, Zenon DEF Get, ReturnEarly, ExecuteLost, PendingAfterStore
<1>6. CASE UNCHANGED vars
  BY <1>6, Zenon DEF vars
<1> QED
  BY <1>1, <1>2, <1>3, <1>4, <1>5, <1>6, Zenon DEF Next

\* A statement that is lost with the connection leaves the login unknown, unless
\* executing it would not have changed the table.
LEMMA LostIsUnknown ==
    ASSUME Inv, NEW l \in Logins, NEW after,
           \A m \in Logins : m # l => after[m] = rows[m],
           rows' \in {rows, after},
           \/ told' = [told EXCEPT ![l] = "unknown"]
           \/ told' = [told EXCEPT ![l] = told[l]] /\ after = rows
    PROVE  TableKnown'
<1>1. CASE told' = [told EXCEPT ![l] = told[l]] /\ after = rows
  <2>1. rows' = rows /\ told' = told
    BY <1>1 DEF Inv, TypeOK
  <2> QED
    BY <2>1 DEF Inv, TableKnown
<1>2. CASE told' = [told EXCEPT ![l] = "unknown"]
  <2>1. /\ told'[l] = "unknown"
        /\ \A m \in Logins : m # l => told'[m] = told[m] /\ rows'[m] = rows[m]
    BY <1>2 DEF Inv, TypeOK
  <2> QED
    BY <2>1, LoginDatabaseAssumption DEF Inv, TableKnown
<1> QED
  BY <1>1, <1>2

\* Every answer keeps what the caller concludes from it in step with the table.
LEMMA TableNext == Inv /\ [Next]_vars => TableKnown'
<1> SUFFICES ASSUME Inv, [Next]_vars PROVE TableKnown'
  OBVIOUS
<1>t. TableKnown /\ TypeOK
  BY DEF Inv
<1>u. ASSUME UNCHANGED <<rows, told>>
      PROVE  TableKnown'
  BY <1>u, <1>t DEF TableKnown
<1>1. CASE LoadInit \/ LoadConnect \/ LoadReturn \/ Construct \/ Destroy
  BY <1>1, <1>u
  DEF LoadInit, LoadConnect, LoadReturn, Construct, Destroy, tableVars
<1>2. ASSUME NEW k \in DOMAIN Statements, PrepareSTMT(k)
      PROVE  TableKnown'
  BY <1>2, <1>u DEF PrepareSTMT, tableVars
<1>3. ASSUME NEW l \in Logins, NEW p \in Passwords, Insert(l, p)
      PROVE  TableKnown'
  <2>1. CASE UNCHANGED <<rows, told>>
    BY <2>1, <1>u
  <2>2. ASSUME NEW salt \in GenerateSalt, NEW row, NEW after,
               row = [hash |-> Hash(p, salt), salt |-> salt],
               after = IF rows[l] = Null THEN [rows EXCEPT ![l] = row] ELSE rows
        PROVE  /\ ExecuteLost("Insert", l, after, told[l] \in Passwords)
                    => TableKnown'
               /\ rows[l] = Null /\ Executed("Insert", l, after, p)
                    => TableKnown'
    <3>1. \A m \in Logins : m # l => after[m] = rows[m]
      BY <2>2, <1>t DEF TypeOK
    <3>2. told[l] \in Passwords => after = rows
      BY <2>2, <1>t DEF TableKnown
    <3>3. ASSUME ExecuteLost("Insert", l, after, told[l] \in Passwords)
          PROVE  TableKnown'
      BY <3>1, <3>2, <3>3, LostIsUnknown DEF ExecuteLost, Knows
    <3>4. ASSUME rows[l] = Null, Executed("Insert", l, after, p)
          PROVE  TableKnown'
      <4>1. /\ rows' = [rows EXCEPT ![l] = row]
            /\ told' = [told EXCEPT ![l] = p]
        BY <3>4, <2>2 DEF Executed, Knows
      <4>2. row \in Row /\ row # Null /\ row.hash = Hash(p, row.salt)
        BY <2>2, LoginDatabaseAssumption DEF GenerateSalt, Hash, Row
      <4>3. rows'[l] = row /\ told'[l] = p
        BY <4>1, <1>t DEF TypeOK
      <4>4. \A m \in Logins : m # l => rows'[m] = rows[m] /\ told'[m] = told[m]
        BY <4>1, <1>t DEF TypeOK
      <4> QED
        BY <4>2, <4>3, <4>4, <1>t, LoginDatabaseAssumption DEF TableKnown
    <3> QED
      BY <3>3, <3>4
  <2> QED
    BY <1>3, <2>1, <2>2 DEF Insert, ReturnEarly, ExecuteRefused, tableVars
<1>4. ASSUME NEW l \in Logins, Remove(l)
      PROVE  TableKnown'
  <2> DEFINE after == [rows EXCEPT ![l] = Null]
  <2>1. CASE UNCHANGED <<rows, told>>
    BY <2>1, <1>u
  <2>2. CASE ExecuteLost("Remove", l, after, told[l] = Null)
    <3>1. \A m \in Logins : m # l => after[m] = rows[m]
      BY <1>t DEF TypeOK
    <3>2. told[l] = Null => after = rows
      BY <1>t DEF TypeOK, TableKnown
    <3> HIDE DEF after
    <3> QED
      BY <2>2, <3>1, <3>2, LostIsUnknown DEF ExecuteLost, Knows
  <2>3. CASE Executed("Remove", l, after, Null)
    <3>1. rows' = after /\ told' = [told EXCEPT ![l] = Null]
      BY <2>3 DEF Executed, Knows
    <3>2. rows'[l] = Null /\ told'[l] = Null
      BY <3>1, <1>t DEF TypeOK
    <3>3. \A m \in Logins : m # l => rows'[m] = rows[m] /\ told'[m] = told[m]
      BY <3>1, <1>t DEF TypeOK
    <3> QED
      BY <3>2, <3>3, <1>t, LoginDatabaseAssumption DEF TableKnown
  <2> QED
    BY <1>4, <2>1, <2>2, <2>3 DEF Remove, ReturnEarly, ExecuteRefused
<1>5. ASSUME NEW l \in Logins, Get(l)
      PROVE  TableKnown'
  <2>1. CASE UNCHANGED <<rows, told>>
    BY <2>1, <1>u
  <2>2. CASE ExecuteLost("Get", l, rows, TRUE)
    BY <2>2, LostIsUnknown DEF ExecuteLost, Knows
  <2> QED
    BY <1>5, <2>1, <2>2 DEF Get, ReturnEarly
<1>6. CASE UNCHANGED vars
  BY <1>6, <1>u DEF vars
<1> QED
  BY <1>1, <1>2, <1>3, <1>4, <1>5, <1>6 DEF Next

\* The calls begin when the last statement has been prepared.
LEMMA NoCallNext == Inv /\ [Next]_vars => NoCallYet'
<1> SUFFICES ASSUME Inv, [Next]_vars PROVE NoCallYet'
  OBVIOUS
<1>t. NoCallYet
  BY DEF Inv
<1> USE <1>t DEF NoCallYet, tableVars
<1>1. CASE LoadInit \/ LoadConnect \/ LoadReturn \/ Construct \/ Destroy
  BY <1>1 DEF LoadInit, LoadConnect, LoadReturn, Construct, Destroy
<1>2. ASSUME NEW k \in DOMAIN Statements, PrepareSTMT(k)
      PROVE  NoCallYet'
  <2>1. pc = Statements[k] /\ UNCHANGED last
    BY <1>2 DEF PrepareSTMT
  <2>2. Statements[k] \notin {"ready", "end", "crashed"}
    BY StatementsAre
  <2> QED
    BY <2>1, <2>2
<1>3. ASSUME NEW l \in Logins,
             Remove(l) \/ Get(l) \/ \E p \in Passwords : Insert(l, p)
      PROVE  NoCallYet'
  <2>1. pc' \in {"ready", "crashed"}
    BY <1>3
    DEF Insert, Remove, Get, ReturnEarly, ExecuteLost, ExecuteRefused, Executed
  <2> QED
    BY <2>1
<1>4. CASE UNCHANGED vars
  BY <1>4 DEF vars
<1> QED
  BY <1>1, <1>2, <1>3, <1>4 DEF Next

\* A call that fails without a new fault fails for one of the known reasons.
LEMMA FailuresNext == Inv /\ [Next]_vars => OnlyTheseFailuresLast'
<1> SUFFICES ASSUME Inv, [Next]_vars PROVE OnlyTheseFailuresLast'
  OBVIOUS
<1>t. OnlyTheseFailuresLast /\ TypeOK /\ TableKnown /\ PendingAfterFailure
      /\ NoCallYet
  BY DEF Inv
<1>u. ASSUME UNCHANGED <<stmts, connected, told, last, getFailed>>
      PROVE  OnlyTheseFailuresLast'
  BY <1>u, <1>t DEF OnlyTheseFailuresLast, Prepared
<1>f. ASSUME last'.ok \/ last'.fault
      PROVE  OnlyTheseFailuresLast'
  BY <1>f, Zenon DEF OnlyTheseFailuresLast
<1>1. CASE LoadInit \/ LoadConnect \/ LoadReturn \/ Construct
  <2>1. last' = last /\ pc \in {"Init", "Connect", "Return", "Construct"}
    BY <1>1 DEF LoadInit, LoadConnect, LoadReturn, Construct, tableVars
  <2> QED
    BY <2>1, <1>t, <1>f DEF NoCallYet
<1>2. ASSUME NEW k \in DOMAIN Statements, PrepareSTMT(k)
      PROVE  OnlyTheseFailuresLast'
  <2>1. last' = last /\ pc = Statements[k]
    BY <1>2 DEF PrepareSTMT, tableVars
  <2> QED
    BY <2>1, <1>t, <1>f, StatementsAre DEF NoCallYet
<1>d. CASE Destroy
  BY <1>d DEF Destroy, OnlyTheseFailuresLast
<1>e. ASSUME NEW op, NEW l, ReturnEarly(op, l)
      PROVE  OnlyTheseFailuresLast'
  <2>1. last'.op = op /\ last'.fault = Prepared(op) /\ stmts' = stmts
    BY <1>e DEF ReturnEarly, Answer
  <2>2. Prepared(op)' <=> Prepared(op)
    BY <2>1 DEF Prepared
  <2> QED
    BY <2>1, <2>2, <1>f DEF OnlyTheseFailuresLast, Prepared
<1>l. ASSUME NEW op, NEW l, NEW after, NEW sure, ExecuteLost(op, l, after, sure)
      PROVE  OnlyTheseFailuresLast'
  BY <1>l, Zenon DEF ExecuteLost, OnlyTheseFailuresLast
<1>x. ASSUME NEW op, NEW l, NEW after, NEW what, Executed(op, l, after, what)
      PROVE  OnlyTheseFailuresLast'
  <2>1. last'.ok
    BY <1>x DEF Executed, Answer
  <2> QED
    BY <2>1, <1>f
<1>3. ASSUME NEW l \in Logins, NEW p \in Passwords, Insert(l, p)
      PROVE  OnlyTheseFailuresLast'
  <2>1. CASE UNCHANGED <<stmts, connected, tableVars>>
    BY <2>1, <1>u DEF tableVars
  <2>2. ASSUME pending \/ rows[l] # Null, ExecuteRefused("Insert", l)
        PROVE  OnlyTheseFailuresLast'
    <3>1. getFailed \/ told[l] # Null
      BY <2>2, <1>t DEF TableKnown, PendingAfterFailure
    <3>2. /\ last'.op = "Insert" /\ last'.login = l
          /\ UNCHANGED <<told, getFailed>>
      BY <2>2 DEF ExecuteRefused, Answer
    <3> QED
      BY <3>1, <3>2 DEF OnlyTheseFailuresLast
  <2>3. \/ UNCHANGED <<stmts, connected, tableVars>>
        \/ ReturnEarly("Insert", l)
        \/ \E after : \/ ExecuteLost("Insert", l, after, told[l] \in Passwords)
                      \/ Executed("Insert", l, after, p)
        \/ (pending \/ rows[l] # Null) /\ ExecuteRefused("Insert", l)
    BY <1>3, Zenon DEF Insert
  <2> QED
    BY <2>1, <2>2, <2>3, <1>e, <1>l, <1>x, Zenon
<1>4. ASSUME NEW l \in Logins, Remove(l)
      PROVE  OnlyTheseFailuresLast'
  <2>1. ASSUME pending, ExecuteRefused("Remove", l)
        PROVE  OnlyTheseFailuresLast'
    <3>1. getFailed
      BY <2>1, <1>t, Zenon DEF PendingAfterFailure
    <3>2. last'.op = "Remove" /\ UNCHANGED getFailed
      BY <2>1 DEF ExecuteRefused, Answer
    <3> QED
      BY <3>1, <3>2 DEF OnlyTheseFailuresLast
  <2> QED
    BY <1>4, <2>1, <1>e, <1>l, <1>x, Zenon DEF Remove
<1>5. ASSUME NEW l \in Logins, Get(l)
      PROVE  OnlyTheseFailuresLast'
  <2>1. ASSUME Answer("Get", l, FALSE, TRUE)
        PROVE  OnlyTheseFailuresLast'
    <3>1. last'.fault
      BY <2>1 DEF Answer
    <3> QED
      BY <3>1, <1>f
  <2>2. ASSUME Answer("Get", l, rows[l] # Null /\ LoginBytes[l] <= kLoginSize,
                      FALSE),
               UNCHANGED told
        PROVE  OnlyTheseFailuresLast'
    <3>1. /\ last'.op = "Get" /\ last'.login = l
          /\ last'.ok = (rows[l] # Null /\ LoginBytes[l] <= kLoginSize)
      BY <2>2 DEF Answer
    <3>2. CASE rows[l] # Null /\ LoginBytes[l] <= kLoginSize
      BY <3>1, <3>2, <1>f
    <3>3. CASE rows[l] = Null
      BY <3>1, <3>3, <2>2, <1>t DEF OnlyTheseFailuresLast, TableKnown
    <3>4. CASE ~(LoginBytes[l] <= kLoginSize)
      BY <3>1, <3>4, <2>2, LoginDatabaseAssumption DEF OnlyTheseFailuresLast
    <3> QED
      BY <3>2, <3>3, <3>4
  <2> QED
    BY <1>5, <2>1, <2>2, <1>e, <1>l, Zenon DEF Get
<1>6. CASE UNCHANGED vars
  BY <1>6, <1>u DEF vars, tableVars
<1> QED
  BY <1>1, <1>2, <1>d, <1>3, <1>4, <1>5, <1>6, Zenon DEF Next

-----------------------------------------------------------------------------
(* The theorems.                                                           *)

\* The invariant holds in every reachable state.
THEOREM Invariance == Spec => []Inv
<1>1. Inv /\ [Next]_vars => Inv'
  BY TypeOKNext, OwnershipNext, TableNext, PendingNext, NoCallNext, FailuresNext
  DEF Inv
<1> QED
  BY InvInit, <1>1, PTL DEF Spec

\* The variables of the connection and the database keep their types, whatever
\* fails in MariaDB (sql_connection.cpp, login_database.cpp).
THEOREM TypeCorrect == Spec => []TypeOK
<1>1. Inv => TypeOK
  BY DEF Inv
<1> QED
  BY Invariance, <1>1, PTL

\* Exactly one object owns the MYSQL handle until the last one closes it
\* (sql_connection.cpp:11-43, login_database.cpp:10-23).
THEOREM HandleHasOneOwner == Spec => []OneOwner
<1>1. Inv => OneOwner
  <2> SUFFICES ASSUME Inv PROVE OneOwner
    OBVIOUS
  <2>1. pc \in {"Init", "end", "Connect", "Return", "Construct", "ready",
                "crashed"} \cup StatementNames
    BY DEF Inv, TypeOK, StatementNames
  <2>2. CASE HoldsNone
    BY <2>2 DEF HoldsNone, NoConn, OneOwner
  <2>3. ASSUME NEW o \in {"db", "con", "login"}, Holds(o), pc # "end"
        PROVE  OneOwner
    BY <2>3, LoginDatabaseAssumption DEF Holds, NoConn, OneOwner
  <2> QED
    BY <2>1, <2>2, <2>3, StatementsAre DEF Inv, Ownership
<1> QED
  BY Invariance, <1>1, PTL

\* What Insert and Remove answered is what the table holds, and an account opens
\* with the password it was inserted with and no other
\* (login_database.cpp:104, 209, sha256.cpp:28).
THEOREM AnswersStayTrue == Spec => []AnswersAreTrue
<1>1. Inv => AnswersAreTrue
  <2>1. \A p, q, salt : Hash(p, salt) = Hash(q, salt) => p = q
    BY DEF Hash
  <2>2. ASSUME Inv, NEW l \in Logins, told[l] \in Passwords,
               NEW p \in Passwords
        PROVE  VerifyHash(p, rows[l]) <=> p = told[l]
    <3>1. rows[l].hash = Hash(told[l], rows[l].salt)
      BY <2>2 DEF Inv, TableKnown
    <3> QED
      BY <3>1, <2>1 DEF VerifyHash
  <2> QED
    BY <2>2 DEF Inv, TableKnown, AnswersAreTrue
<1> QED
  BY Invariance, <1>1, PTL

\* A call in which nothing new fails is refused only for the reasons that
\* OnlyTheseFailuresLast names (login_database.cpp:37-56, 165-181).
THEOREM KnownFailuresLast == Spec => []OnlyTheseFailuresLast
<1>1. Inv => OnlyTheseFailuresLast
  BY DEF Inv
<1> QED
  BY Invariance, <1>1, PTL
=============================================================================
