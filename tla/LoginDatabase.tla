---------------------------- MODULE LoginDatabase ----------------------------
(***************************************************************************)
(* The accounts database: db/connection/sql_connection.cpp (Load and the   *)
(* moves of the connection), db/database/login_database.cpp (prepared      *)
(* statements, Insert, Get, Remove) and cryptography/sha256.cpp.           *)
(*                                                                         *)
(* MariaDB and its Connector/C are external.  Any call to them may fail;   *)
(* when the connection is lost a statement that reports an error may have  *)
(* been executed all the same, and nothing works afterwards.  A SELECT     *)
(* whose result has not been stored blocks the connection for the other    *)
(* statements; executing the same statement again discards the result.     *)
(***************************************************************************)
EXTENDS Naturals, Sequences

CONSTANTS
    Logins, Passwords,
    LoginBytes,     \* the length of each login in bytes; the column allows 64
                    \* characters of up to 4 bytes
    kLoginSize,     \* LoginConfig::kLoginSize, the bytes of LoginData::login_
    Salts,          \* what GenerateSalt makes
    ZeroSalt,       \* the salt RAND_bytes leaves when it fails
    Null            \* nullptr, no row, no data

ASSUME LoginDatabaseAssumption ==
    /\ LoginBytes \in [Logins -> Nat]
    /\ kLoginSize \in Nat
    /\ ZeroSalt \notin Salts
    /\ Null \notin Passwords /\ "unknown" \notin Passwords
    /\ Null \notin [hash : Passwords \X (Salts \cup {ZeroSalt}),
                    salt : Salts \cup {ZeroSalt}]
    /\ Null # "mysql" /\ Null # "unknown"

VARIABLES
    pc,         \* how far the program is: Load, the constructor, in use, gone
    conn,       \* db_ of Load's local, of its caller's optional and of the
                \* LoginDataBase: Null or a MYSQL*
    open,       \* the MYSQL* that mysql_init has made and mysql_close not freed
    stmts,      \* stmts_: the statements that are prepared
    connected,  \* the connection to the server is up
    pending,    \* the connection waits for the result of a SELECT to be read
    rows,       \* the accounts table: hash and salt of each login, or Null
    told,       \* what the caller may conclude from the answers: a login's
                \* password, Null for no account, or "unknown"
    last,       \* the last call, its answer, and whether something new failed
                \* in it
    getFailed   \* the last Get that was executed failed before its fetch

vars == <<pc, conn, open, stmts, connected, pending, rows, told, last,
          getFailed>>
tableVars == <<rows, told, last, getFailed>>

Statements == <<"AddUser", "GetUserByName", "RemoveUserByName">>

NoConn == [o \in {"db", "con", "login"} |-> Null]

Init ==
    /\ pc = "Init"
    /\ conn = NoConn
    /\ open = {}
    /\ stmts = {}
    /\ connected = FALSE
    /\ pending = FALSE
    /\ rows = [l \in Logins |-> Null]
    /\ told = [l \in Logins |-> Null]
    /\ last = [op |-> "none", login |-> Null, ok |-> TRUE, fault |-> FALSE]
    /\ getFailed = FALSE

-----------------------------------------------------------------------------
(* SQLConnection.                                                          *)

\* Load's calls of mysql_init and mysql_real_connect.  When one fails, db is
\* destroyed and Load returns nullopt.
LoadInit ==
    /\ pc = "Init"
    /\ \/ /\ conn' = [conn EXCEPT !["db"] = "mysql"]
          /\ open' = {"mysql"}
          /\ pc' = "Connect"
       \/ /\ pc' = "end"
          /\ UNCHANGED <<conn, open>>
    /\ UNCHANGED <<stmts, connected, pending, tableVars>>

LoadConnect ==
    /\ pc = "Connect"
    /\ \/ /\ connected' = TRUE
          /\ pc' = "Return"
          /\ UNCHANGED <<conn, open>>
       \/ /\ open' = open \ {conn["db"]}
          /\ conn' = NoConn
          /\ pc' = "end"
          /\ UNCHANGED connected
    /\ UNCHANGED <<stmts, pending, tableVars>>

\* Mutant of MovedConn: the moved-from object keeps its pointer.
CopiedConn(to, from) == [conn EXCEPT ![to] = conn[from]]

\* SQLConnection(SQLConnection&&).
MovedConn(to, from) == [conn EXCEPT ![to] = conn[from], ![from] = Null]

\* Load returns: db moves into the optional and is destroyed.
LoadReturn ==
    /\ pc = "Return"
    /\ LET c == MovedConn("con", "db")
       IN  /\ open' = open \ {c["db"]}
           /\ conn' = [c EXCEPT !["db"] = Null]
    /\ pc' = "Construct"
    /\ UNCHANGED <<stmts, connected, pending, tableVars>>

\* LoginDataBase(std::move(con.value())): the members, then PrepareSTMT for each
\* statement.  Without a statement to prepare, mysql_stmt_prepare(nullptr)
\* crashes; one that cannot be prepared is closed and stays null.
Construct ==
    /\ pc = "Construct"
    /\ conn' = MovedConn("login", "con")
    /\ pc' = Statements[1]
    /\ UNCHANGED <<open, stmts, connected, pending, tableVars>>

PrepareSTMT(k) ==
    /\ pc = Statements[k]
    /\ \/ /\ pc' = "crashed"
          /\ UNCHANGED stmts
       \/ /\ pc' = IF k < Len(Statements) THEN Statements[k + 1] ELSE "ready"
          /\ stmts' \in {stmts, stmts \cup {Statements[k]}}
    /\ UNCHANGED <<conn, open, connected, pending, tableVars>>

\* ~LoginDataBase closes the statements, then connection_ closes the handle;
\* then con is destroyed.
Destroy ==
    /\ pc = "ready"
    /\ stmts' = {}
    /\ open' = open \ {conn["login"], conn["con"]}
    /\ conn' = NoConn
    /\ connected' = FALSE
    /\ pending' = FALSE
    /\ pc' = "end"
    /\ UNCHANGED tableVars

-----------------------------------------------------------------------------
(* sha256.cpp.                                                             *)

\* PKCS5_PBKDF2_HMAC: different passwords or salts have different hashes.
Hash(password, salt) == <<password, salt>>

\* Mutant of VerifyHash: only the salt is compared.
VerifySalt(password, row) == row.hash[2] = row.salt

VerifyHash(password, row) == Hash(password, row.salt) = row.hash

\* Mutant of GenerateSalt: a failure is nullopt, and its value is used.
GenerateSaltUnchecked == Salts \cup {Null}

\* RAND_bytes returns 0 when it fails; only -1 is tested, so the zeros of the
\* vector are taken for a salt.
GenerateSalt == Salts \cup {ZeroSalt}

-----------------------------------------------------------------------------
(* LoginDataBase.                                                          *)

Answer(op, l, ok, fault) ==
    last' = [op |-> op, login |-> l, ok |-> ok, fault |-> fault]

Knows(l, what) == told' = [told EXCEPT ![l] = what]

StatementOf == [Insert |-> "AddUser", Get |-> "GetUserByName",
                Remove |-> "RemoveUserByName"]

Prepared(op) == StatementOf[op] \in stmts

\* A call that returns before it reaches the database: there is no statement, or
\* something fails on the way.
ReturnEarly(op, l) ==
    /\ Answer(op, l, FALSE, Prepared(op))
    /\ UNCHANGED <<pc, conn, open, stmts, connected, pending, rows, told,
                   getFailed>>

\* The connection is lost in mysql_stmt_execute, before or after the server has
\* made the table `after` of it, or had been lost before, which is nothing new.
ExecuteLost(op, l, after, sure) ==
    /\ Answer(op, l, FALSE, connected)
    /\ connected' = FALSE
    /\ rows' \in IF connected THEN {rows, after} ELSE {rows}
    /\ Knows(l, IF sure THEN told[l] ELSE "unknown")
    /\ UNCHANGED <<pc, conn, open, stmts, pending, getFailed>>

\* The server refuses, or the library while a result is pending.
ExecuteRefused(op, l) ==
    /\ Answer(op, l, FALSE, FALSE)
    /\ UNCHANGED <<pc, conn, open, stmts, connected, pending, rows, told,
                   getFailed>>

Executed(op, l, after, what) ==
    /\ connected /\ ~pending
    /\ rows' = after
    /\ Knows(l, what)
    /\ Answer(op, l, TRUE, FALSE)
    /\ UNCHANGED <<pc, conn, open, stmts, connected, pending, getFailed>>

\* The message for a missing statement asks the statement for its error, which
\* is null.
Insert(l, password) ==
    /\ pc = "ready"
    /\ \/ /\ "AddUser" \notin stmts
          /\ pc' = "crashed"
          /\ UNCHANGED <<conn, open, stmts, connected, pending, tableVars>>
       \/ "AddUser" \in stmts /\ ReturnEarly("Insert", l)
       \/ /\ "AddUser" \in stmts
          /\ \E salt \in GenerateSalt :
               LET row   == [hash |-> Hash(password, salt), salt |-> salt]
                   after == IF rows[l] = Null
                            THEN [rows EXCEPT ![l] = row] ELSE rows
               IN  \/ ExecuteLost("Insert", l, after, told[l] \in Passwords)
                   \/ /\ connected
                      /\ pending \/ rows[l] # Null
                      /\ ExecuteRefused("Insert", l)
                   \/ /\ rows[l] = Null
                      /\ Executed("Insert", l, after, password)

\* Remove says true whether there was an account or not.
Remove(l) ==
    /\ pc = "ready"
    /\ \/ ReturnEarly("Remove", l)
       \/ /\ "RemoveUserByName" \in stmts
          /\ LET after == [rows EXCEPT ![l] = Null]
             IN  \/ ExecuteLost("Remove", l, after, told[l] = Null)
                 \/ connected /\ pending /\ ExecuteRefused("Remove", l)
                 \/ Executed("Remove", l, after, Null)

\* Mutant of PendingAfterStore: the result is fetched without being stored.
PendingAfterNoStore == TRUE

\* mysql_stmt_store_result reads the whole result.
PendingAfterStore == FALSE

\* Get executes the SELECT.  Both of its returns before the result is stored
\* leave it pending; a login longer than LoginData::login_ makes
\* mysql_stmt_fetch report a truncation, which counts as an error.
Get(l) ==
    /\ pc = "ready"
    /\ \/ ReturnEarly("Get", l)
       \/ "GetUserByName" \in stmts /\ ExecuteLost("Get", l, rows, TRUE)
       \/ /\ "GetUserByName" \in stmts /\ connected
          /\ \/ /\ pending' \in BOOLEAN
                /\ getFailed' = TRUE
                /\ Answer("Get", l, FALSE, TRUE)
             \/ /\ pending' = PendingAfterStore
                /\ getFailed' = FALSE
                /\ Answer("Get", l,
                          rows[l] # Null /\ LoginBytes[l] <= kLoginSize, FALSE)
          /\ UNCHANGED <<pc, conn, open, stmts, connected, rows, told>>

Next ==
    \/ LoadInit \/ LoadConnect \/ LoadReturn \/ Construct
    \/ \E k \in DOMAIN Statements : PrepareSTMT(k)
    \/ \E l \in Logins : \/ \E p \in Passwords : Insert(l, p)
                          \/ Remove(l)
                          \/ Get(l)
    \/ Destroy

Spec == Init /\ [][Next]_vars

-----------------------------------------------------------------------------
(* Properties.                                                             *)

Row == [hash : Passwords \X (Salts \cup {ZeroSalt}), salt : Salts \cup {ZeroSalt}]

\* Every variable has its type.
TypeOK ==
    /\ pc \in {"Init", "Connect", "Return", "Construct", "ready", "end",
               "crashed"} \cup {Statements[k] : k \in DOMAIN Statements}
    /\ conn \in [{"db", "con", "login"} -> {Null, "mysql"}]
    /\ open \subseteq {"mysql"}
    /\ stmts \subseteq {Statements[k] : k \in DOMAIN Statements}
    /\ connected \in BOOLEAN /\ pending \in BOOLEAN /\ getFailed \in BOOLEAN
    /\ rows \in [Logins -> Row \cup {Null}]
    /\ told \in [Logins -> Passwords \cup {Null, "unknown"}]
    /\ last \in [op : {"none", "Insert", "Get", "Remove"},
                 login : Logins \cup {Null}, ok : BOOLEAN, fault : BOOLEAN]

\* The connection is owned by exactly one object on its way from Load's local to
\* the optional to the LoginDataBase, none of them holds a handle that another
\* has closed, and it is closed when they are gone, on the ways of failure too
\* (sql_connection.cpp:11-43, login_database.cpp:10-23).
OneOwner ==
    /\ \A o \in DOMAIN conn : conn[o] = Null \/ conn[o] \in open
    /\ \A o, o2 \in DOMAIN conn : conn[o] = conn[o2] => o = o2 \/ conn[o] = Null
    /\ \A h \in open : \E o \in DOMAIN conn : conn[o] = h
    /\ pc = "end" => open = {}

\* What the answers say is what the table holds, whatever failed before: after
\* Insert said true the account is there and opens with its password and no
\* other, until Remove says true, and then it is gone.  A call that said false
\* may have been executed: its login is "unknown" until the next true answer
\* (login_database.cpp:104, 209, sha256.cpp:28).
AnswersAreTrue ==
    \A l \in Logins :
        /\ told[l] = Null => rows[l] = Null
        /\ told[l] \in Passwords =>
              /\ rows[l] # Null
              /\ \A p \in Passwords : VerifyHash(p, rows[l]) <=> p = told[l]

\* Only four failures outlast their call: a call in which nothing new fails
\* succeeds, a Get of an account, a Remove, an Insert of a new account, unless
\*   - its statement was not prepared when the program started (37-56): nothing
\*     prepares it again;
\*   - the connection has been lost: nothing connects again (sql_connection.cpp:59);
\*   - the last Get failed between its execute and its store (165-173): Insert and
\*     Remove are refused until the next Get;
\*   - the login has more than kLoginSize bytes, which the column allows: the
\*     account can be inserted and not read (181).
OnlyTheseFailuresLast ==
    ~last.ok /\ ~last.fault =>
        \/ ~Prepared(last.op)
        \/ ~connected
        \/ last.op = "Insert" /\ (getFailed \/ told[last.login] # Null)
        \/ last.op = "Remove" /\ getFailed
        \/ /\ last.op = "Get"
           /\ told[last.login] \notin Passwords \/ LoginBytes[last.login] > kLoginSize
=============================================================================
