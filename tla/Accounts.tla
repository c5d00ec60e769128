------------------------------ MODULE Accounts ------------------------------
(***************************************************************************)
(* The users table and the routes that change it (api/auth_routes.py), the *)
(* tokens they hand out (utils/security.py) and the check of a token       *)
(* (api/auth.py).  A request is modelled from await to await.  Of a user   *)
(* the role and the state count: that a name or an address is taken is     *)
(* something that may be found, and profile and password, which decide     *)
(* nothing here, are left out with the requests that change them.          *)
(***************************************************************************)
EXTENDS Integers, Sequences, FiniteSets

CONSTANTS
    Clients,            \* requests to these routes that may be in flight
    MaxUsers,           \* bound: rows of the users table
    MaxPairs,           \* bound: pairs of tokens handed out
    MaxStimuli          \* bound: requests that change the table

ASSUME AccountsAssumption == MaxUsers \in Nat /\ MaxPairs \in Nat /\ MaxStimuli \in Nat

VARIABLES
    users,    \* the rows; the place of a row is its id
    req,      \* the requests in flight
    pairs,    \* whose each pair of an access and a refresh token is
    expired,  \* its age
    stimuli,  \* requests so far
    \* History.
    raced     \* two registrations have counted no user before one was added

accountVars == <<users, req, pairs, expired, stimuli, raced>>

User == [admin : BOOLEAN, active : BOOLEAN]

Ids == DOMAIN users

Idle == [at |-> "idle", first |-> FALSE]

Goes(c, at) == req' = [req EXCEPT ![c].at = at]

Returns(c) == req' = [req EXCEPT ![c] = Idle]

-----------------------------------------------------------------------------
(* Tokens.                                                                 *)

\* An access token lives for minutes, a refresh token for days: of a pair both
\* are good, then the refresh token only, then neither.
Valid(pair, kind) == pair # 0 /\ expired[pair] < (IF kind = "access" THEN 1 ELSE 2)

\* get_current_user: 401 for the token, 403 for the account.
Verdict(pair) ==
    IF ~Valid(pair, "access") THEN 401
    ELSE IF users[pairs[pair]].active THEN 200 ELSE 403

\* login and refresh answer with a new pair.
Issue(i) ==
    /\ Len(pairs) < MaxPairs
    /\ pairs' = Append(pairs, i) /\ expired' = Append(expired, 0)

\* What refresh answers: the account must still be active.
Refreshable(pair) == Valid(pair, "refresh") /\ users[pairs[pair]].active

Expire(pair) ==
    /\ Valid(pair, "refresh")
    /\ expired' = [expired EXCEPT ![pair] = @ + 1]
    /\ UNCHANGED <<users, req, pairs, stimuli, raced>>

-----------------------------------------------------------------------------
(* Requests.                                                               *)

\* register: the name is looked up; who finds it taken leaves no trace.
Register(c) ==
    /\ req[c] = Idle /\ stimuli < MaxStimuli
    /\ stimuli' = stimuli + 1
    /\ Goes(c, "email")
    /\ UNCHANGED <<users, pairs, expired, raced>>

\* Then the address, which may be taken,
CheckEmail(c) ==
    /\ req[c].at = "email"
    /\ Returns(c) \/ Goes(c, "count")
    /\ UNCHANGED <<users, pairs, expired, stimuli, raced>>

\* Mutant of CountUsers: one off.
CountUsersLate(c) ==
    /\ req[c].at = "count"
    /\ req' = [req EXCEPT ![c] = [at |-> "insert", first |-> Len(users) <= 1]]
    /\ UNCHANGED <<users, pairs, expired, stimuli, raced>>

\* then the users are counted: the first is to be an administrator;
CountUsers(c) ==
    /\ req[c].at = "count"
    /\ req' = [req EXCEPT ![c] = [at |-> "insert", first |-> users = <<>>]]
    /\ raced' = (raced \/ (users = <<>> /\ \E d \in Clients : req[d].at = "insert"))
    /\ UNCHANGED <<users, pairs, expired, stimuli>>

\* and the row is added; that fails when name or address were taken
\* meanwhile, or for a reason of the database.
InsertUser(c) ==
    /\ req[c].at = "insert"
    /\ Returns(c)
    /\ \/ UNCHANGED users
       \/ /\ Len(users) < MaxUsers
          /\ users' = Append(users, [admin |-> req[c].first, active |-> TRUE])
    /\ UNCHANGED <<pairs, expired, stimuli, raced>>

\* The operator disables an account in the database; no route does.
Disable(i) ==
    /\ i \in Ids /\ users[i].active /\ stimuli < MaxStimuli
    /\ stimuli' = stimuli + 1
    /\ users' = [users EXCEPT ![i].active = FALSE]
    /\ UNCHANGED <<req, pairs, expired, raced>>

AccountInit ==
    /\ users = <<>> /\ req = [c \in Clients |-> Idle]
    /\ pairs = <<>> /\ expired = <<>> /\ stimuli = 0 /\ raced = FALSE

AccountStep ==
    \/ \E c \in Clients : Register(c) \/ CheckEmail(c) \/ CountUsers(c) \/ InsertUser(c)
    \/ \E i \in 1..MaxUsers : Disable(i)
    \/ \E pair \in DOMAIN pairs : Expire(pair)

-----------------------------------------------------------------------------
(* Properties.                                                             *)

\* As soon as there is a user there is an administrator, and only one, unless
\* two registrations found the table empty: whatever else fails between the
\* count and the insert.
FirstIsAdmin ==
    /\ users # <<>> => \E i \in Ids : users[i].admin
    /\ ~raced => Cardinality({i \in Ids : users[i].admin}) <= 1
=============================================================================
