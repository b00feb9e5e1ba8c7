---------------------------- MODULE Registration ----------------------------
(***************************************************************************)
(* The accounts of the API (zelvex-api/src/lib.rs): concurrent calls of    *)
(* auth_register and auth_login on the users table, the tokens they hand   *)
(* out, and the calls that require_jwt lets through.  auth_register counts *)
(* the users in one query and inserts in another, with the password hash   *)
(* in between.                                                             *)
(*                                                                         *)
(* A password stands for its hash: verify_password accepts the password    *)
(* the hash was made from.  When the limiter refuses a login is the        *)
(* subject of LoginLimiter; here it may.                                   *)
(***************************************************************************)
EXTENDS FiniteSets, Naturals

CONSTANTS Requests,   \* calls of the API, each served once
          Names,      \* usernames as they are spelled
          Passwords,
          Key(_),     \* a name without its case, as COLLATE NOCASE compares
          NoBody, NoToken

VARIABLES phase,      \* where each call is, then its answer
          body,       \* what each call sent: name and password
          users,      \* rows of users
          token,      \* the token each call was answered with
          expired,    \* calls whose token has expired
          late        \* registrations that found a user there (history)

vars == <<phase, body, users, token, expired, late>>

Answers == {"unprocessable", "bad_request", "unauthorized", "forbidden",
            "conflict", "rate_limited", "internal", "ok"}
Bodies == [name : Names, password : Passwords]
Ids == Nat \ {0}
Users == [id : Ids, username : Names, password : Passwords]
Claims == [uid : Ids, sub : Names]

TypeOK ==
    /\ phase \in [Requests -> {"waiting", "count", "insert", "limit",
                               "lookup"} \cup Answers]
    /\ body \in [Requests -> Bodies \cup {NoBody}]
    /\ users \subseteq Users
    /\ token \in [Requests -> Claims \cup {NoToken}]
    /\ expired \subseteq {r \in Requests : token[r] # NoToken}
    /\ late \subseteq Requests

Init ==
    /\ phase = [r \in Requests |-> "waiting"]
    /\ body = [r \in Requests |-> NoBody]
    /\ users = {}
    /\ token = [r \in Requests |-> NoToken]
    /\ expired = {}
    /\ late = {}

Goes(r, p) == phase' = [phase EXCEPT ![r] = p]

\* issue_jwt: the claims are encoded, or that fails and the answer is 500.
IssueJwt(r, id, username) ==
    \/ /\ Goes(r, "ok")
       /\ token' = [token EXCEPT ![r] = [uid |-> id, sub |-> username]]
    \/ /\ Goes(r, "internal")
       /\ UNCHANGED token

\* exp passes, with the leeway that Validation::default gives.
Expire(r) ==
    /\ token[r] # NoToken
    /\ expired' = expired \cup {r}
    /\ UNCHANGED <<phase, body, users, token, late>>

\* The Json extractor refuses a body that is not the JSON the handler asks
\* for, with 400, 415 or 422, before the handler runs.
JsonRejected(r) ==
    /\ phase[r] = "waiting"
    /\ Goes(r, "unprocessable")
    /\ UNCHANGED <<body, users, token, expired, late>>

-----------------------------------------------------------------------------
(* auth_register.                                                          *)

\* The fields are checked before anything is read.
Register(r, b) ==
    /\ phase[r] = "waiting"
    /\ \E p \in {"count", "bad_request"} : Goes(r, p)
    /\ body' = [body EXCEPT ![r] = b]
    /\ late' = IF users = {} THEN late ELSE late \cup {r}
    /\ UNCHANGED <<users, token, expired>>

\* Mutant: an existing user with another name does not disable registration.
CountUsers_ByName(r) ==
    /\ phase[r] = "count"
    /\ Goes(r, IF \A u \in users : u.username # body[r].name
               THEN "insert" ELSE "forbidden")
    /\ UNCHANGED <<body, users, token, expired, late>>

CountUsers(r) ==
    /\ phase[r] = "count"
    /\ Goes(r, IF Cardinality(users) > 0 THEN "forbidden" ELSE "insert")
    /\ UNCHANGED <<body, users, token, expired, late>>

Row(r) == [id |-> Cardinality(users) + 1, username |-> body[r].name,
           password |-> body[r].password]

\* Mutant: usernames are compared with their case.
InsertUser_CaseSensitive(r) ==
    /\ phase[r] = "insert"
    /\ \A u \in users : u.username # body[r].name
    /\ users' = users \cup {Row(r)}
    /\ IssueJwt(r, Row(r).id, body[r].name)
    /\ UNCHANGED <<body, expired, late>>

\* Mutant: INSERT OR IGNORE, whose last_insert_rowid is then 0.
InsertUser_OrIgnore(r) ==
    /\ phase[r] = "insert"
    /\ IF \E u \in users : Key(u.username) = Key(body[r].name)
       THEN IssueJwt(r, 0, body[r].name) /\ UNCHANGED users
       ELSE /\ users' = users \cup {Row(r)}
            /\ IssueJwt(r, Row(r).id, body[r].name)
    /\ UNCHANGED <<body, expired, late>>

\* The UNIQUE index decides between calls that passed the count together.
InsertUser(r) ==
    /\ phase[r] = "insert"
    /\ IF \E u \in users : Key(u.username) = Key(body[r].name)
       THEN Goes(r, "conflict") /\ UNCHANGED <<users, token>>
       ELSE /\ users' = users \cup {Row(r)}
            /\ IssueJwt(r, Row(r).id, body[r].name)
    /\ UNCHANGED <<body, expired, late>>

-----------------------------------------------------------------------------
(* auth_login.                                                             *)

Login(r, b) ==
    /\ phase[r] = "waiting"
    /\ \E p \in {"limit", "bad_request"} : Goes(r, p)
    /\ body' = [body EXCEPT ![r] = b]
    /\ UNCHANGED <<users, token, expired, late>>

EnforceRateLimit(r) ==
    /\ phase[r] = "limit"
    /\ \E p \in {"lookup", "rate_limited"} : Goes(r, p)
    /\ UNCHANGED <<body, users, token, expired, late>>

\* get_user_by_username compares as the index does.  The claims name the user
\* as it is stored.
CheckPassword(r) ==
    /\ phase[r] = "lookup"
    /\ \/ \E u \in users :
            /\ Key(u.username) = Key(body[r].name)
            /\ u.password = body[r].password
            /\ IssueJwt(r, u.id, u.username)
       \/ /\ \A u \in users : Key(u.username) = Key(body[r].name)
                                => u.password # body[r].password
          /\ Goes(r, "unauthorized")
          /\ UNCHANGED token
    /\ UNCHANGED <<body, users, expired, late>>

\* A query fails, or the hash: the call is answered 500.
Fail(r) ==
    /\ phase[r] \in {"count", "insert", "lookup"}
    /\ Goes(r, "internal")
    /\ UNCHANGED <<body, users, token, expired, late>>

-----------------------------------------------------------------------------
\* require_jwt, for a call that carries the token of t, or (t = r) none that
\* the server has signed.
CallProtected(r, t) ==
    /\ phase[r] = "waiting"
    /\ Goes(r, IF token[t] # NoToken /\ t \notin expired
               THEN "ok" ELSE "unauthorized")
    /\ UNCHANGED <<body, users, token, expired, late>>

Done ==
    /\ \A r \in Requests : phase[r] \in Answers
    /\ UNCHANGED vars

Next ==
    \/ \E r \in Requests :
         \/ \E b \in Bodies : Register(r, b) \/ Login(r, b)
         \/ JsonRejected(r) \/ CountUsers(r) \/ InsertUser(r)
         \/ EnforceRateLimit(r) \/ CheckPassword(r)
         \/ Fail(r) \/ Expire(r)
         \/ \E t \in Requests : CallProtected(r, t)
    \/ Done

Spec == Init /\ [][Next]_vars

-----------------------------------------------------------------------------
(* Properties.                                                             *)

\* A registration that arrives when there is a user never adds another,
\* however the calls before it interleave.
LateCallsCreateNothing ==
    \A r \in late : phase[r] \notin {"insert", "ok", "conflict"}

\* A token names a user by id and by the spelling that is stored, and was
\* given to a call that sent this user's password; two users never go by one
\* name, even spelled in another case.
TokensOwnUsers ==
    /\ \A r \in Requests : token[r] # NoToken =>
         \E u \in users : /\ u.id = token[r].uid
                          /\ u.username = token[r].sub
                          /\ u.password = body[r].password
                          /\ Key(u.username) = Key(body[r].name)
    /\ \A q, r \in Requests :
         token[q] # NoToken /\ token[r] # NoToken =>
           (token[q].uid = token[r].uid <=>
                Key(token[q].sub) = Key(token[r].sub))

\* What the README says of POST /api/auth/register: once a user exists,
\* registration is disabled.
RegistrationIsOneTime == [][users # {} => users' = users]_vars

=============================================================================
