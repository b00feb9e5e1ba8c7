\* Races of registrations and logins.
SPECIFICATION Spec
CONSTANTS
    q1 = q1
    q2 = q2
    q3 = q3
    q4 = q4
    pw1 = pw1
    pw2 = pw2
    Requests = {q1, q2, q3, q4}
    Names <- MCNames
    Passwords = {pw1, pw2}
    Key <- MCKey
    NoBody = NoBody
    NoToken = NoToken
SYMMETRY Symmetry
INVARIANTS
    TypeOK
    LateCallsCreateNothing
    TokensOwnUsers
