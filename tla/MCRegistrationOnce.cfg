\* Whether registration is a one-time bootstrap.
SPECIFICATION Spec
CONSTANTS
    q1 = q1
    q2 = q2
    q3 = q3
    q4 = q4
    pw1 = pw1
    pw2 = pw2
    Requests = {q1, q2}
    Names <- MCNames
    Passwords = {pw1}
    Key <- MCKey
    NoBody = NoBody
    NoToken = NoToken
PROPERTIES
    RegistrationIsOneTime
