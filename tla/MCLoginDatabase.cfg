CONSTANTS
    user = user
    longUser = longUser
    Logins = {user, longUser}
    p1 = p1
    p2 = p2
    Passwords = {p1, p2}
    LoginBytes <- Bytes
    kLoginSize = 64
    salt = salt
    Salts = {salt}
    ZeroSalt = ZeroSalt
    Null = Null
SPECIFICATION Spec
INVARIANTS
    TypeOK
    OneOwner
    AnswersAreTrue
    OnlyTheseFailuresLast
CHECK_DEADLOCK FALSE
