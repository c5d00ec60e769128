--------------------------- MODULE Session_proofs ---------------------------
(***************************************************************************)
(* Theorems about Session and the accounts under it, for every set of      *)
(* clients, tabs and calls and every bound.                                *)
(***************************************************************************)
EXTENDS Session, TLAPS, FiniteSetTheorems, SequenceTheorems

-----------------------------------------------------------------------------
(* One administrator.                                                      *)

\* A request on its way.
Registration == [at : {"idle", "email", "count", "insert"}, first : BOOLEAN]

RowsType ==
    /\ users \in Seq(User) /\ raced \in BOOLEAN
    /\ req \in [Clients -> Registration]

\* Client c has found the table empty and is about to add the administrator.
Founds(c) == req[c].at = "insert" /\ req[c].first

\* FirstIsAdmin alone is not inductive: a registration decides at the count
\* what it does at the insert.
AdminInv ==
    /\ users # <<>> => \E i \in Ids : users[i].admin
    /\ \A c \in Clients : req[c].at = "insert" /\ ~req[c].first => users # <<>>
    /\ ~raced =>
          /\ \A c \in Clients : Founds(c) => users = <<>>
          /\ \A c, d \in Clients : Founds(c) /\ Founds(d) => c = d
          /\ \A i, j \in Ids : users[i].admin /\ users[j].admin => i = j

\* What is done to the rows: nothing, one is added, or one changes in what is
\* not its role.
RowsKept == users' = users

RowAdded(admin) ==
    \E row \in User : row.admin = admin /\ users' = Append(users, row)

RowChanged ==
    /\ users' \in Seq(User) /\ Len(users') = Len(users)
    /\ \A i \in Ids : users'[i].admin = users[i].admin

\* A row that changes in one column keeps its role, and the table its type.
LEMMA ChangeKeepsRole ==
    ASSUME users \in Seq(User), NEW i, NEW row, i \in Ids => row \in User /\ row.admin = users[i].admin,
           users' = [users EXCEPT ![i] = row]
    PROVE  RowChanged
<1>1. CASE i \in Ids
  <2>1. i \in 1..Len(users) /\ row \in User
    BY <1>1 DEF Ids
  <2>2. users' \in Seq(User) /\ Len(users') = Len(users)
    BY <2>1, ExceptSeq
  <2> QED
    BY <1>1, <2>2 DEF RowChanged, Ids
<1>2. CASE i \notin Ids
  <2>1. users' = users
    BY <1>2 DEF Ids
  <2> QED
    BY <2>1 DEF RowChanged
<1> QED
  BY <1>1, <1>2

\* A row of the table has its type.
LEMMA RowOf ==
    ASSUME RowsType, NEW i \in Ids
    PROVE  users[i] \in User
<1>1. i \in 1..Len(users)
  BY DEF RowsType, Ids
<1> QED
  BY <1>1, ElementOfSeq DEF RowsType

\* Every step of the accounts keeps the types; it leaves the roles alone, or
\* is the insert of a registration.
LEMMA AccountStepType ==
    ASSUME RowsType, AccountStep
    PROVE  /\ RowsType'
           /\ \/ RowsKept \/ RowChanged
              \/ \E c \in Clients : InsertUser(c) /\ RowAdded(req[c].first)
<1> USE DEF RowsType, Registration, Idle
<1>1. ASSUME NEW c \in Clients, Register(c)
      PROVE  RowsType' /\ RowsKept
  BY <1>1 DEF Register, Goes, RowsKept
<1>2. ASSUME NEW c \in Clients, CheckEmail(c)
      PROVE  RowsType' /\ RowsKept
  <2>1. CASE Returns(c)
    BY <1>2, <2>1 DEF CheckEmail, Returns, RowsKept
  <2>2. CASE Goes(c, "count")
    BY <1>2, <2>2 DEF CheckEmail, Goes, RowsKept
  <2> QED
    BY <1>2, <2>1, <2>2 DEF CheckEmail
<1>3. ASSUME NEW c \in Clients, CountUsers(c)
      PROVE  RowsType' /\ RowsKept
  <2> DEFINE first == users = <<>>
  <2>1. first \in BOOLEAN /\ req' = [req EXCEPT ![c] = [at |-> "insert", first |-> first]]
    BY <1>3 DEF CountUsers
  <2>2. raced' \in BOOLEAN /\ UNCHANGED users
    BY <1>3 DEF CountUsers
  <2> HIDE DEF first
  <2> QED
    BY <2>1, <2>2 DEF RowsKept
<1>4. ASSUME NEW c \in Clients, InsertUser(c)
      PROVE  RowsType' /\ (RowsKept \/ RowAdded(req[c].first))
  <2>1. CASE UNCHANGED users
    BY <1>4, <2>1 DEF InsertUser, Returns, RowsKept
  <2>2. CASE users' # users
    <3> DEFINE row == [admin |-> req[c].first, active |-> TRUE]
    <3>1. row \in User /\ users' = Append(users, row)
      BY <1>4, <2>2 DEF InsertUser, User
    <3>2. users' \in Seq(User)
      BY <3>1
    <3> QED
      BY <1>4, <3>1, <3>2 DEF InsertUser, Returns, RowAdded
  <2> QED
    BY <2>1, <2>2
<1>5. ASSUME NEW i \in 1..MaxUsers, Disable(i)
      PROVE  RowsType' /\ RowChanged
  <2> DEFINE row == [users[i] EXCEPT !.active = FALSE]
  <2>1. i \in Ids => row \in User /\ row.admin = users[i].admin
    BY RowOf DEF User
  <2>2. users' = [users EXCEPT ![i] = row]
    BY <1>5 DEF Disable
  <2>3. RowChanged
    BY <2>1, <2>2, ChangeKeepsRole
  <2> QED
    BY <1>5, <2>3 DEF Disable, RowChanged
<1>6. ASSUME NEW pair \in DOMAIN pairs, Expire(pair)
      PROVE  RowsType' /\ RowsKept
  BY <1>6 DEF Expire, RowsKept
<1> QED
  BY <1>1, <1>2, <1>3, <1>4, <1>5, <1>6, AccountStep DEF AccountStep

\* A row that is added is the last; those before it stay.
LEMMA AddedRow ==
    ASSUME RowsType, NEW admin, RowAdded(admin)
    PROVE  /\ users' # <<>> /\ Len(users') = Len(users) + 1 /\ Ids' = Ids \cup {Len(users')}
           /\ \A i \in Ids : users'[i] = users[i]
           /\ users'[Len(users')].admin = admin
<1>1. PICK row \in User : row.admin = admin /\ users' = Append(users, row)
  BY DEF RowAdded
<1>2. users \in Seq(User) /\ Len(users) \in Nat /\ Ids = 1..Len(users)
  BY DEF RowsType, Ids
<1>3. /\ users' \in Seq(User) /\ users' # <<>> /\ Len(users') = Len(users) + 1
      /\ \A i \in 1..Len(users) : users'[i] = users[i]
      /\ users'[Len(users) + 1] = row
  BY <1>1, <1>2, AppendProperties
<1>4. Ids' = 1..Len(users')
  BY <1>3 DEF Ids
<1> QED
  BY <1>1, <1>2, <1>3, <1>4

\* Changing rows keeps AdminInv as long as nobody is at the insert who was not.
LEMMA ChangeKeepsAdminInv ==
    ASSUME RowsType, AdminInv, RowsKept \/ RowChanged, raced' = raced,
           \A c \in Clients : req'[c].at = "insert" => req'[c] = req[c]
    PROVE  AdminInv'
<1>1. Ids' = Ids /\ \A i \in Ids : users'[i].admin = users[i].admin
  BY DEF RowsKept, RowChanged, RowsType, Ids
<1>2. users' = <<>> <=> users = <<>>
  BY DEF RowsKept, RowChanged, RowsType
<1> QED
  BY <1>1, <1>2 DEF AdminInv, Founds

\* A registration decides at its count what it does at its insert; when that
\* is to add the administrator, no other is about to, or two have raced.
LEMMA CountKeepsAdminInv ==
    ASSUME RowsType, AdminInv, NEW c \in Clients, CountUsers(c)
    PROVE  AdminInv'
<1> DEFINE first == users = <<>>
<1>1. /\ req' = [req EXCEPT ![c] = [at |-> "insert", first |-> first]] /\ first \in BOOLEAN
      /\ raced' = (raced \/ (first /\ \E d \in Clients : req[d].at = "insert"))
      /\ UNCHANGED users
  BY DEF CountUsers
<1>2. /\ req'[c].at = "insert" /\ req'[c].first = first
      /\ \A d \in Clients \ {c} : req'[d] = req[d]
  BY <1>1 DEF RowsType, Registration
<1>3. \A d \in Clients : req'[d].at = "insert" /\ ~req'[d].first => users' # <<>>
  BY <1>1, <1>2 DEF AdminInv
<1>4. ASSUME ~raced'
      PROVE  /\ \A d \in Clients : Founds(d)' => users' = <<>>
             /\ \A d, e \in Clients : Founds(d)' /\ Founds(e)' => d = e
  <2>1. (Founds(c)' <=> first) /\ \A d \in Clients \ {c} : Founds(d)' <=> Founds(d)
    BY <1>2 DEF Founds
  <2>2. first => \A d \in Clients : ~Founds(d)
    BY <1>1, <1>4 DEF Founds
  <2>3. (\A d \in Clients : Founds(d) => users = <<>>) /\ \A d, e \in Clients : Founds(d) /\ Founds(e) => d = e
    BY <1>1, <1>4 DEF AdminInv
  <2> QED
    BY <1>1, <2>1, <2>2, <2>3
<1>5. users' # <<>> => \E i \in Ids' : users'[i].admin
  BY <1>1 DEF AdminInv, Ids
<1>6. ~raced' => \A i, j \in Ids' : users'[i].admin /\ users'[j].admin => i = j
  BY <1>1 DEF AdminInv, Ids
<1> QED
  BY <1>3, <1>4, <1>5, <1>6 DEF AdminInv

\* The insert adds an administrator when the table was found empty and a user
\* when it was not, and then there was one.
LEMMA InsertKeepsAdminInv ==
    ASSUME RowsType, AdminInv, NEW c \in Clients, InsertUser(c), RowAdded(req[c].first)
    PROVE  AdminInv'
<1> DEFINE n == Len(users')
<1>1. /\ users' # <<>> /\ Ids' = Ids \cup {n} /\ n \notin Ids
      /\ \A i \in Ids : users'[i] = users[i]
      /\ users'[n].admin = req[c].first
  <2>1. Len(users) \in Nat /\ Ids = 1..Len(users)
    BY DEF RowsType, Ids
  <2>2. RowAdded(req[c].first) /\ n = Len(users) + 1
    BY AddedRow
  <2> QED
    BY <2>1, <2>2, AddedRow
<1>2. /\ req[c].at = "insert" /\ req[c].first \in BOOLEAN /\ raced' = raced
      /\ req'[c].at = "idle" /\ \A d \in Clients \ {c} : req'[d] = req[d]
  BY DEF InsertUser, Returns, Idle, RowsType, Registration
<1>3. users = <<>> => Ids = {}
  BY DEF Ids
<1>4. \E i \in Ids' : users'[i].admin
  BY <1>1, <1>2 DEF AdminInv
<1>5. \A d \in Clients : req'[d].at = "insert" /\ ~req'[d].first => users' # <<>>
  BY <1>1
<1>6. ASSUME ~raced'
      PROVE  /\ \A d \in Clients : ~Founds(d)'
             /\ \A i, j \in Ids' : users'[i].admin /\ users'[j].admin => i = j
  <2>1. CASE Founds(c)
    BY <1>1, <1>2, <1>3, <1>6, <2>1 DEF AdminInv, Founds
  <2>2. CASE ~Founds(c)
    <3>1. users # <<>> /\ ~req[c].first
      BY <1>2, <2>2 DEF AdminInv, Founds
    <3>2. \A d \in Clients : ~Founds(d)
      BY <1>2, <1>6, <3>1 DEF AdminInv
    <3> QED
      BY <1>1, <1>2, <1>6, <3>1, <3>2 DEF AdminInv, Founds
  <2> QED
    BY <2>1, <2>2
<1> QED
  BY <1>4, <1>5, <1>6 DEF AdminInv

\* Whatever happens to the accounts, the invariant stays.
LEMMA AccountStepKeepsAdminInv ==
    ASSUME RowsType, AdminInv, AccountStep
    PROVE  AdminInv'
<1>1. ASSUME NEW c \in Clients, InsertUser(c), RowAdded(req[c].first)
      PROVE  AdminInv'
  BY <1>1, InsertKeepsAdminInv
<1>2. CASE RowsKept \/ RowChanged
  <2>1. ASSUME NEW c \in Clients, CountUsers(c)
        PROVE  AdminInv'
    BY <2>1, CountKeepsAdminInv
  <2>2. ASSUME NEW c \in Clients, raced' = raced,
               \A d \in Clients \ {c} : req'[d] = req[d], req'[c].at # "insert"
        PROVE  AdminInv'
    BY <1>2, <2>2, ChangeKeepsAdminInv
  <2>3. ASSUME raced' = raced, req' = req
        PROVE  AdminInv'
    BY <1>2, <2>3, ChangeKeepsAdminInv
  <2>4. ASSUME NEW c \in Clients, Register(c) \/ CheckEmail(c) \/ InsertUser(c)
        PROVE  AdminInv'
    <3>1. raced' = raced /\ (\A d \in Clients \ {c} : req'[d] = req[d]) /\ req'[c].at # "insert"
      BY <2>4 DEF Register, CheckEmail, InsertUser, Goes, Returns, Idle, RowsType, Registration
    <3> QED
      BY <3>1, <2>2
  <2>5. ASSUME NEW i, Disable(i) \/ Expire(i)
        PROVE  AdminInv'
    BY <2>3, <2>5 DEF Disable, Expire
  <2> QED
    BY <2>1, <2>4, <2>5, AccountStep DEF AccountStep
<1> QED
  BY <1>1, <1>2, AccountStepType

\* A tab leaves the accounts alone, but for the pairs of tokens.
LEMMA TabLeavesRows ==
    ASSUME NEW t \in Tabs, TabStep(t)
    PROVE  UNCHANGED <<users, req, raced>>
BY DEF TabStep, Login, Send, Served, Unauthorized, Rejected, Refreshed, RefreshFails, Logout, Reload,
       accountVars

\* The rows have their types, and the invariant holds.
LEMMA RowsInvariant == Spec => [](RowsType /\ AdminInv)
<1>1. Init => RowsType /\ AdminInv
  <2> SUFFICES ASSUME Init PROVE RowsType /\ AdminInv
    OBVIOUS
  <2>1. users = <<>> /\ users \in Seq(User) /\ Ids = {}
    BY EmptySeq DEF Init, AccountInit, Ids
  <2>2. /\ req \in [Clients -> Registration] /\ raced = FALSE
        /\ \A c \in Clients : req[c].at = "idle"
    BY DEF Init, AccountInit, Registration, Idle
  <2> QED
    BY <2>1, <2>2 DEF RowsType, AdminInv, Founds
<1>2. RowsType /\ AdminInv /\ [Next]_vars => RowsType' /\ AdminInv'
  <2> SUFFICES ASSUME RowsType, AdminInv, [Next]_vars PROVE RowsType' /\ AdminInv'
    OBVIOUS
  <2>1. CASE UNCHANGED <<users, req, raced>>
    BY <2>1 DEF RowsType, AdminInv, Founds, Ids
  <2>2. CASE AccountStep
    BY <2>2, AccountStepType, AccountStepKeepsAdminInv
  <2> QED
    BY <2>1, <2>2, TabLeavesRows DEF Next, vars, accountVars
<1> QED
  BY <1>1, <1>2, PTL DEF Spec

\* As soon as there is a user there is an administrator, and only one unless
\* two registrations found the table empty (register, auth_routes.py), for any
\* number of requests at once and of users.
THEOREM OneAdministrator == Spec => []FirstIsAdmin
<1>1. RowsType /\ AdminInv => FirstIsAdmin
  <2> SUFFICES ASSUME AdminInv, ~raced
               PROVE  Cardinality({i \in Ids : users[i].admin}) <= 1
    BY DEF FirstIsAdmin, AdminInv
  <2> DEFINE admins == {i \in Ids : users[i].admin}
  <2>1. admins = {} \/ \E i : admins = {i}
    <3>1. \A i, j \in admins : i = j
      BY DEF AdminInv
    <3> HIDE DEF admins
    <3> QED BY <3>1
  <2>2. CASE admins = {}
    BY <2>2, FS_EmptySet
  <2>3. ASSUME NEW i, admins = {i}
        PROVE  Cardinality(admins) <= 1
    BY <2>3, FS_Singleton
  <2> QED
    BY <2>1, <2>2, <2>3
<1> QED
  BY <1>1, RowsInvariant, PTL

-----------------------------------------------------------------------------
(* The user and the tokens of a tab.                                       *)

\* The pairs of tokens handed out, and none.
Handed == 0..Len(pairs)

PairsType == pairs \in Seq(Nat)

Stored == [pair : Handed, me : Nat]

Request == [at : {"idle", "sent", "waiting"}, pair : Handed, retried : BOOLEAN]

SessionType ==
    /\ PairsType
    /\ storage \in Stored /\ mem \in [Tabs -> Stored]
    /\ call \in [Tabs -> [Slots -> Request]]
    /\ refresh \in [Tabs -> Handed] /\ crossed \in BOOLEAN

\* Pair p, if it is one, is for user i.
For(p, i) == p # 0 => pairs[p] = i

\* Without tokens no user is stored, and a tab shows none and no answer that is
\* one is on its way to it.
NoUserAlone ==
    /\ storage.pair = 0 => storage.me = 0
    /\ \A t \in Tabs :
          mem[t].pair = 0 => mem[t].me = 0 /\ \A s \in Setters : call[t][s].at # "sent"

\* All tokens in use and all that is known of a user is for user i.
OneUser(i) ==
    /\ For(storage.pair, i) /\ storage.me \in {0, i}
    /\ \A t \in Tabs :
          /\ For(mem[t].pair, i) /\ mem[t].me \in {0, i}
          /\ For(refresh[t], i)
          /\ \A s \in Setters : call[t][s].at # "idle" => For(call[t][s].pair, i)

\* TokensMatchUser alone is not inductive: it does not see what is stored, sent
\* or waited for.
UserInv == ~crossed => NoUserAlone /\ \E i \in Nat : OneUser(i)

\* What login and refresh hand out is a new pair; those before it stay.
LEMMA NewPair ==
    ASSUME PairsType, NEW i \in Nat, Issue(i)
    PROVE  /\ PairsType' /\ Len(pairs') \in Nat \ {0} /\ Len(pairs') \notin Handed
           /\ Handed' = Handed \cup {Len(pairs')} /\ 0 \in Handed
           /\ pairs'[Len(pairs')] = i
           /\ \A p \in Handed \ {0} : pairs'[p] = pairs[p]
<1>1. Len(pairs) \in Nat
  BY DEF PairsType
<1>2. /\ pairs' \in Seq(Nat) /\ Len(pairs') = Len(pairs) + 1
      /\ \A p \in 1..Len(pairs) : pairs'[p] = pairs[p]
      /\ pairs'[Len(pairs) + 1] = i
  BY AppendProperties DEF Issue, PairsType
<1> QED
  BY <1>1, <1>2 DEF PairsType, Handed

\* The owner of a pair is a number, and no pair is 0.
LEMMA OwnerOf ==
    ASSUME PairsType
    PROVE  0 \in Handed /\ \A p \in Handed \ {0} : pairs[p] \in Nat
<1>1. Len(pairs) \in Nat /\ \A p \in 1..Len(pairs) : pairs[p] \in Nat
  BY ElementOfSeq DEF PairsType
<1> QED
  BY <1>1 DEF Handed

\* One request of one tab changes.
LEMMA OneCall ==
    ASSUME NEW R, NEW f \in [Tabs -> [Slots -> R]], NEW t \in Tabs, NEW s \in Slots, NEW r \in R
    PROVE  /\ [f EXCEPT ![t][s] = r] \in [Tabs -> [Slots -> R]]
           /\ \A u \in Tabs, q \in Slots :
                 [f EXCEPT ![t][s] = r][u][q] = IF u = t /\ q = s THEN r ELSE f[u][q]
  OBVIOUS

\* The steps of a tab that hand out tokens.
LEMMA IssueKeepsType ==
    ASSUME SessionType, NEW t \in Tabs, NEW i \in Nat, (\E s \in Logins : Login(t, s, i)) \/ Refreshed(t)
    PROVE  SessionType'
<1> DEFINE n == Len(pairs')
<1>1. PICK owner \in Nat : Issue(owner)
  <2>1. Refreshed(t) => pairs[refresh[t]] \in Nat
    BY OwnerOf DEF Refreshed, SessionType
  <2> QED
    BY <2>1 DEF Login, Refreshed
<1>2. PairsType' /\ n \in Handed' /\ Handed \subseteq Handed' /\ 0 \in Handed'
  BY <1>1, NewPair DEF SessionType
<1>3. Stored \subseteq Stored' /\ Request \subseteq Request'
  BY <1>2 DEF Stored, Request
<1>4. storage' \in Stored' /\ mem' \in [Tabs -> Stored']
  <2>1. mem' = [mem EXCEPT ![t].pair = n] /\ storage' = [storage EXCEPT !.pair = n]
    BY DEF Login, Refreshed, SetTokens
  <2>2. \A x \in Stored : [x EXCEPT !.pair = n] \in Stored'
    BY <1>2 DEF Stored
  <2> QED
    BY <1>3, <2>1, <2>2 DEF SessionType
<1>5. refresh' \in [Tabs -> Handed']
  BY <1>2 DEF Login, Refreshed, SessionType
<1>6. call' \in [Tabs -> [Slots -> Request']]
  <2>0. call \in [Tabs -> [Slots -> Request']]
    BY <1>3 DEF SessionType
  <2>1. ASSUME NEW s \in Logins, Login(t, s, i)
        PROVE  call' \in [Tabs -> [Slots -> Request']]
    <3>0. s \in Slots
      BY DEF Slots, Setters
    <3>1. [at |-> "sent", pair |-> n, retried |-> FALSE] \in Request'
      BY <1>2 DEF Request
    <3> QED
      BY <2>0, <2>1, <3>0, <3>1, OneCall DEF Login
  <2>2. CASE Refreshed(t)
    <3>1. ASSUME NEW q \in Slots
          PROVE  [call[t][q] EXCEPT !.at = "sent", !.pair = n] \in Request'
      <4>1. call[t][q] \in Request'
        BY <2>0
      <4> QED
        BY <1>2, <4>1 DEF Request
    <3> QED
      BY <2>0, <2>2, <3>1 DEF Refreshed
  <2> QED
    BY <2>1, <2>2
<1>7. crossed' \in BOOLEAN
  BY DEF Login, Refreshed, SessionType
<1> QED
  BY <1>2, <1>4, <1>5, <1>6, <1>7 DEF SessionType, Stored, Request

\* The other steps of a tab.
LEMMA TabKeepsType ==
    ASSUME SessionType, NEW t \in Tabs,
           \/ \E s \in Slots : Send(t, s) \/ Served(t, s) \/ Unauthorized(t, s) \/ Rejected(t, s)
           \/ RefreshFails(t) \/ Logout(t) \/ Reload(t)
    PROVE  SessionType'
<1>1. SignedOut \in Stored /\ Quiet \in Request /\ Waits \in Request /\ 0 \in Handed
  BY OwnerOf DEF SignedOut, Quiet, Waits, Stored, Request, SessionType
<1>2. UNCHANGED pairs => (Handed' = Handed /\ Stored' = Stored /\ Request' = Request)
  BY DEF Handed, Stored, Request
<1>3. ASSUME NEW s \in Slots, Send(t, s)
      PROVE  SessionType'
  <2>1. [at |-> "sent", pair |-> mem[t].pair, retried |-> FALSE] \in Request
    BY DEF SessionType, Stored, Request
  <2> QED
    BY <1>2, <1>3, <2>1 DEF Send, SessionType, PairsType, accountVars
<1>4. ASSUME NEW s \in Slots, Served(t, s)
      PROVE  SessionType'
  <2>1. call[t][s].pair \in Handed \ {0}
    BY <1>4 DEF Served, Verdict, Valid, SessionType, Request
  <2>2. pairs[call[t][s].pair] \in Nat
    BY <2>1, OwnerOf DEF SessionType
  <2>3. storage' \in Stored /\ mem' \in [Tabs -> Stored]
    <3> DEFINE i == pairs[call[t][s].pair]
    <3>1. \A x \in Stored : [x EXCEPT !.me = i] \in Stored
      BY <2>2 DEF Stored
    <3>2. \/ mem' = [mem EXCEPT ![t].me = i] /\ storage' = [storage EXCEPT !.me = i]
          \/ UNCHANGED <<mem, storage>>
      BY <1>4 DEF Served
    <3> HIDE DEF i
    <3> QED
      BY <3>1, <3>2 DEF SessionType
  <2>4. call' \in [Tabs -> [Slots -> Request]]
    BY <1>1, <1>4, OneCall DEF Served, Ends, SessionType
  <2> QED
    BY <1>2, <1>4, <2>3, <2>4 DEF Served, SessionType, PairsType, accountVars
<1>5. ASSUME NEW s \in Slots, Unauthorized(t, s)
      PROVE  SessionType'
  <2>1. storage' \in Stored /\ mem' \in [Tabs -> Stored]
    BY <1>1, <1>5 DEF Unauthorized, Stores, SessionType
  <2>2. refresh' \in [Tabs -> Handed]
    <3>1. refresh \in [Tabs -> Handed] /\ mem[t].pair \in Handed
      BY DEF SessionType, Stored
    <3>2. \/ refresh' = refresh
          \/ refresh' = [refresh EXCEPT ![t] = refresh[t]]
          \/ refresh' = [refresh EXCEPT ![t] = mem[t].pair]
      BY <1>5 DEF Unauthorized
    <3> QED
      BY <3>1, <3>2
  <2>3. call \in [Tabs -> [Slots -> Request]]
    BY DEF SessionType
  <2>4. call' \in [Tabs -> [Slots -> Request]]
    BY <1>1, <1>5, <2>3 DEF Unauthorized, Ends
  <2> QED
    BY <1>2, <1>5, <2>1, <2>2, <2>4 DEF Unauthorized, SessionType, PairsType, accountVars
<1>6. ASSUME NEW s \in Slots, Rejected(t, s)
      PROVE  SessionType'
  <2>1. storage' \in Stored /\ mem' \in [Tabs -> Stored]
    BY <1>1, <1>6 DEF Rejected, Stores, SessionType
  <2> QED
    <3>1. crossed' \in BOOLEAN
      BY <1>6 DEF Rejected, Overtakes, SessionType
    <3>2. call' \in [Tabs -> [Slots -> Request]]
      BY <1>1, <1>6, OneCall DEF Rejected, Ends, SessionType
    <3> QED
      BY <1>2, <1>6, <2>1, <3>1, <3>2 DEF Rejected, SessionType, PairsType, accountVars
<1>7. CASE RefreshFails(t)
  BY <1>1, <1>2, <1>7 DEF RefreshFails, Stores, Overtakes, SessionType, PairsType, accountVars
<1>8. CASE Logout(t)
  BY <1>1, <1>2, <1>8 DEF Logout, Stores, SessionType, PairsType, accountVars
<1>9. CASE Reload(t)
  BY <1>1, <1>2, <1>9 DEF Reload, SessionType, PairsType, accountVars
<1> QED
  BY <1>3, <1>4, <1>5, <1>6, <1>7, <1>8, <1>9

\* Requests that end, are sent or wait carry the tokens of the user.
LEMMA RequestKeepsUser ==
    ASSUME SessionType, NoUserAlone, NEW i \in Nat, OneUser(i), NEW t \in Tabs, NEW s \in Slots,
           ~crossed', (s \notin Logins /\ Send(t, s)) \/ Served(t, s) \/ Unauthorized(t, s) \/ Rejected(t, s)
    PROVE  NoUserAlone' /\ OneUser(i)'
<1> USE DEF For
<1>1. /\ call \in [Tabs -> [Slots -> Request]] /\ mem \in [Tabs -> Stored] /\ storage \in Stored
      /\ refresh \in [Tabs -> Handed] /\ Setters \subseteq Slots /\ UNCHANGED pairs
  BY DEF SessionType, Slots, Send, Served, Unauthorized, Rejected, accountVars
<1>2. CASE s \notin Logins /\ Send(t, s)
  <2>1. s \in Setters => mem[t].pair # 0
    BY <1>2 DEF Send, Setters
  <2>2. /\ UNCHANGED <<storage, mem, refresh>>
        /\ \A u \in Tabs, q \in Setters :
              \/ call'[u][q] = call[u][q]
              \/ u = t /\ call'[u][q].pair = mem[u].pair /\ mem[u].pair # 0
    BY <1>1, <1>2, <2>1 DEF Send
  <2> QED
    BY <1>1, <2>2 DEF NoUserAlone, OneUser
<1>3. CASE Served(t, s)
  <2>1. /\ UNCHANGED refresh
        /\ \A u \in Tabs, q \in Setters : call'[u][q] = call[u][q] \/ call'[u][q].at = "idle"
    BY <1>1, <1>3 DEF Served, Ends, Quiet
  <2>2. CASE s \notin Setters
    BY <1>1, <1>3, <2>1, <2>2 DEF Served, NoUserAlone, OneUser
  <2>3. CASE s \in Setters
    <3>1. call[t][s].at = "sent" /\ call[t][s].pair # 0
      BY <1>3, <2>3 DEF Served, Verdict, Valid
    <3>2. pairs[call[t][s].pair] = i /\ mem[t].pair # 0
      BY <2>3, <3>1 DEF OneUser, NoUserAlone
    <3>3. /\ mem' = [mem EXCEPT ![t].me = i] /\ storage' = [storage EXCEPT !.me = i]
          /\ storage.pair # 0
      BY <1>3, <2>3, <3>2 DEF Served
    <3>4. /\ storage'.pair = storage.pair /\ storage'.me = i
          /\ \A u \in Tabs : /\ mem'[u].pair = mem[u].pair
                             /\ mem'[u].me = mem[u].me \/ (u = t /\ mem'[u].me = i)
      BY <1>1, <3>3 DEF Stored
    <3> QED
      BY <1>1, <2>1, <3>2, <3>3, <3>4 DEF NoUserAlone, OneUser
  <2> QED
    BY <2>2, <2>3
<1>4. CASE Unauthorized(t, s)
  <2>1. CASE refresh[t] # 0 \/ mem[t].pair # 0
    <3>1. /\ UNCHANGED <<storage, mem>>
          /\ refresh' = [refresh EXCEPT ![t] = IF refresh[t] # 0 THEN refresh[t] ELSE mem[t].pair]
          /\ call' = [call EXCEPT ![t][s] = Waits]
      BY <1>4, <2>1 DEF Unauthorized
    <3>2. \A u \in Tabs, q \in Setters : call'[u][q] = call[u][q] \/ call'[u][q] = Waits
      BY <1>1, <3>1
    <3>3. \A u \in Tabs : refresh'[u] = refresh[u] \/ refresh'[u] = mem[u].pair
      BY <1>1, <3>1
    <3> QED
      BY <1>1, <3>1, <3>2, <3>3 DEF NoUserAlone, OneUser, Waits
  <2>2. CASE refresh[t] = 0 /\ mem[t].pair = 0
    <3>1. /\ UNCHANGED refresh
          /\ storage' = SignedOut /\ mem' = [mem EXCEPT ![t] = SignedOut]
          /\ \A u \in Tabs, q \in Setters : call'[u][q] = call[u][q] \/ call'[u][q].at = "idle"
      BY <1>1, <1>4, <2>2 DEF Unauthorized, Stores, Ends, Quiet
    <3> QED
      BY <1>1, <2>2, <3>1 DEF NoUserAlone, OneUser, SignedOut
  <2> QED
    BY <2>1, <2>2, <1>1
<1>5. CASE Rejected(t, s)
  <2>1. /\ UNCHANGED refresh
        /\ \A u \in Tabs, q \in Setters : call'[u][q] = call[u][q] \/ call'[u][q].at = "idle"
    BY <1>1, <1>5 DEF Rejected, Ends, Quiet
  <2>2. CASE UNCHANGED <<mem, storage>>
    BY <1>1, <2>1, <2>2 DEF NoUserAlone, OneUser
  <2>3. CASE Stores(t, SignedOut) /\ Overtakes(t)
    <3>1. storage' = SignedOut /\ mem' = [mem EXCEPT ![t] = SignedOut]
      BY <2>3 DEF Stores
    <3>2. \A q \in Setters : call'[t][q].at # "sent"
      BY <2>3 DEF Overtakes
    <3> QED
      BY <1>1, <2>1, <3>1, <3>2 DEF NoUserAlone, OneUser, SignedOut
  <2> QED
    BY <1>5, <2>2, <2>3 DEF Rejected
<1> QED
  BY <1>2, <1>3, <1>4, <1>5

\* A tab that signs out or is loaded anew keeps nothing that is not stored.
LEMMA LeavingKeepsUser ==
    ASSUME SessionType, NoUserAlone, NEW i \in Nat, OneUser(i), ~crossed', NEW t \in Tabs,
           RefreshFails(t) \/ Logout(t) \/ Reload(t)
    PROVE  NoUserAlone' /\ OneUser(i)'
<1> USE DEF For
<1>1. /\ call \in [Tabs -> [Slots -> Request]] /\ mem \in [Tabs -> Stored] /\ storage \in Stored
      /\ refresh \in [Tabs -> Handed] /\ Setters \subseteq Slots /\ UNCHANGED pairs
  BY DEF SessionType, Slots, RefreshFails, Logout, Reload, accountVars
<1>2. CASE RefreshFails(t)
  <2>1. /\ storage' = SignedOut /\ mem' = [mem EXCEPT ![t] = SignedOut]
        /\ refresh' = [refresh EXCEPT ![t] = 0]
        /\ \A u \in Tabs, q \in Setters : call'[u][q] = call[u][q] \/ call'[u][q].at = "idle"
        /\ \A u \in Tabs \ {t} : call'[u] = call[u]
    BY <1>1, <1>2 DEF RefreshFails, Stores, Quiet
  <2>2. \A q \in Setters : call'[t][q].at # "sent"
    BY <1>2 DEF RefreshFails, Overtakes
  <2> QED
    BY <1>1, <2>1, <2>2 DEF NoUserAlone, OneUser, SignedOut
<1>3. CASE Logout(t)
  <2>1. \A q \in Setters : call[t][q].at = "idle"
    BY <1>3 DEF Logout, InFlight
  <2> QED
    BY <1>1, <1>3, <2>1 DEF Logout, Stores, NoUserAlone, OneUser, SignedOut
<1>4. CASE Reload(t)
  <2>1. /\ UNCHANGED storage /\ refresh' = [refresh EXCEPT ![t] = 0]
        /\ mem' = [mem EXCEPT ![t] = IF storage.pair # 0 THEN storage ELSE SignedOut]
        /\ \A q \in Setters : call'[t][q].at = "idle"
        /\ \A u \in Tabs \ {t} : call'[u] = call[u]
    BY <1>1, <1>4 DEF Reload, Quiet
  <2> QED
    BY <1>1, <2>1 DEF NoUserAlone, OneUser, SignedOut
<1> QED
  BY <1>2, <1>3, <1>4

\* New tokens are for the user the old ones were for.
LEMMA RefreshedKeepsUser ==
    ASSUME SessionType, NoUserAlone, NEW i \in Nat, OneUser(i), NEW t \in Tabs, Refreshed(t)
    PROVE  NoUserAlone' /\ OneUser(i)'
<1> DEFINE n == Len(pairs')
<1>1. /\ call \in [Tabs -> [Slots -> Request]] /\ mem \in [Tabs -> Stored] /\ storage \in Stored
      /\ refresh \in [Tabs -> Handed] /\ Setters \subseteq Slots
  BY DEF SessionType, Slots
<1>2. pairs[refresh[t]] = i /\ Issue(i)
  BY DEF Refreshed, OneUser, For
<1>3. /\ n \in Nat \ {0} /\ pairs'[n] = i /\ 0 \in Handed
      /\ \A p \in Handed \ {0} : pairs'[p] = pairs[p]
  BY <1>2, NewPair DEF SessionType
<1>4. /\ n # 0 => pairs'[n] = i
      /\ \A p \in Handed : (p # 0 => pairs[p] = i) => (p # 0 => pairs'[p] = i)
  BY <1>3
<1>5. /\ mem' = [mem EXCEPT ![t].pair = n] /\ storage' = [storage EXCEPT !.pair = n]
      /\ refresh' = [refresh EXCEPT ![t] = 0]
  BY DEF Refreshed, SetTokens
<1> HIDE DEF n
<1>6. /\ storage'.pair = n /\ storage'.me = storage.me
      /\ \A u \in Tabs : /\ mem'[u].me = mem[u].me
                         /\ mem'[u].pair = IF u = t THEN n ELSE mem[u].pair
                         /\ refresh'[u] = refresh[u] \/ refresh'[u] = 0
                         /\ mem[u].pair \in Handed /\ refresh[u] \in Handed
  BY <1>1, <1>5 DEF Stored
<1>7. \A u \in Tabs \ {t}, s \in Setters : call'[u][s] = call[u][s]
  BY <1>1 DEF Refreshed
<1>8. \A s \in Setters : call'[t][s] = call[t][s] \/ call'[t][s].pair = n
  <2>1. \A s \in Setters : call[t][s] \in Request
    BY <1>1
  <2>2. \A s \in Setters :
           call'[t][s] = call[t][s] \/ call'[t][s] = [call[t][s] EXCEPT !.at = "sent", !.pair = n]
    BY <1>1 DEF Refreshed, n
  <2> QED
    BY <2>1, <2>2 DEF Request
<1>9. NoUserAlone'
  BY <1>3, <1>6, <1>7 DEF NoUserAlone
<1>10. \A u \in Tabs, s \in Setters : call[u][s].pair \in Handed
  BY <1>1 DEF Request
<1>11. OneUser(i)'
  BY <1>4, <1>6, <1>7, <1>8, <1>10 DEF OneUser, For
<1> QED
  BY <1>9, <1>11

\* Who signs in where nothing is known of any user is the one user.
LEMMA LoginKeepsUser ==
    ASSUME SessionType, NoUserAlone, NEW t \in Tabs, NEW s \in Logins, NEW i \in Nat, Login(t, s, i), ~crossed'
    PROVE  NoUserAlone' /\ OneUser(i)'
<1> DEFINE n == Len(pairs')
<1>1. /\ call \in [Tabs -> [Slots -> Request]] /\ mem \in [Tabs -> Stored] /\ storage \in Stored
      /\ refresh \in [Tabs -> Handed] /\ Setters \subseteq Slots /\ s \in Setters
  BY DEF SessionType, Slots, Setters
<1>2. n \in Nat \ {0} /\ pairs'[n] = i
  BY NewPair DEF Login, SessionType
<1>3. /\ mem' = [mem EXCEPT ![t].pair = n] /\ storage' = [storage EXCEPT !.pair = n]
      /\ call' = [call EXCEPT ![t][s] = [at |-> "sent", pair |-> n, retried |-> FALSE]]
      /\ UNCHANGED refresh
  BY DEF Login, SetTokens
<1>4. /\ storage.pair = 0 /\ storage.me = 0
      /\ \A u \in Tabs : mem[u].pair = 0 /\ refresh[u] = 0 /\ \A q \in Setters : call[u][q].at = "idle"
  BY DEF Login, InFlight, NoUserAlone
<1> HIDE DEF n
<1>5. \A u \in Tabs : mem[u].me = 0
  BY <1>4 DEF NoUserAlone
<1>6. /\ storage'.pair = n /\ storage'.me = 0
      /\ \A u \in Tabs : /\ mem'[u].me = 0 /\ refresh'[u] = 0
                         /\ mem'[u].pair = IF u = t THEN n ELSE 0
  BY <1>1, <1>3, <1>4, <1>5 DEF Stored
<1>7. \A u \in Tabs, q \in Setters :
         IF u = t /\ q = s THEN call'[u][q].pair = n ELSE call'[u][q].at = "idle"
  BY <1>1, <1>3, <1>4
<1> QED
  BY <1>2, <1>6, <1>7 DEF NoUserAlone, OneUser, For

\* The types of the session, and that one user is all there is.
LEMMA SessionInvariant == Spec => [](SessionType /\ UserInv)
<1>1. Init => SessionType /\ UserInv
  <2> SUFFICES ASSUME Init PROVE SessionType /\ UserInv
    OBVIOUS
  <2>1. pairs \in Seq(Nat) /\ Len(pairs) = 0 /\ 0 \in Handed
    BY EmptySeq DEF Init, AccountInit, Handed
  <2>2. SignedOut \in Stored /\ Quiet \in Request
    BY <2>1 DEF SignedOut, Quiet, Stored, Request
  <2>3. SessionType
    BY <2>1, <2>2 DEF Init, SessionType, PairsType
  <2>4. NoUserAlone /\ OneUser(0)
    BY DEF Init, NoUserAlone, OneUser, For, SignedOut, Quiet, Slots
  <2> QED
    BY <2>3, <2>4 DEF UserInv
<1>2. SessionType /\ UserInv /\ [Next]_vars => SessionType' /\ UserInv'
  <2> SUFFICES ASSUME SessionType, UserInv, [Next]_vars PROVE SessionType' /\ UserInv'
    OBVIOUS
  <2>1. CASE UNCHANGED <<pairs, sessionVars>>
    BY <2>1 DEF SessionType, PairsType, Stored, Request, Handed, UserInv, NoUserAlone, OneUser, For, sessionVars
  <2>2. AccountStep => UNCHANGED pairs
    BY DEF AccountStep, Register, CheckEmail, CountUsers, InsertUser, Disable, Expire
  <2>3. ASSUME NEW t \in Tabs, TabStep(t)
        PROVE  SessionType' /\ UserInv'
    <3>1. crossed => crossed'
      BY <2>3
      DEF TabStep, Login, Send, Served, Unauthorized, Rejected, Refreshed, RefreshFails, Logout, Reload, Overtakes
    <3>2. CASE \E s \in Logins, i \in 1..MaxUsers : Login(t, s, i)
      <4>1. PICK s \in Logins, i \in 1..MaxUsers : Login(t, s, i)
        BY <3>2
      <4>2. i \in Nat
        BY AccountsAssumption DEF AccountsAssumption
      <4> QED
        BY <3>1, <4>1, <4>2, IssueKeepsType, LoginKeepsUser DEF UserInv
    <3>3. CASE Refreshed(t)
      <4>1. SessionType'
        BY <3>3, 0 \in Nat, IssueKeepsType
      <4> QED
        BY <3>1, <3>3, <4>1, RefreshedKeepsUser DEF UserInv
    <3>4. CASE \/ \E s \in Slots \ Logins : Send(t, s)
               \/ \E s \in Slots : Served(t, s) \/ Unauthorized(t, s) \/ Rejected(t, s)
      BY <3>1, <3>4, TabKeepsType, RequestKeepsUser DEF UserInv
    <3>5. CASE RefreshFails(t) \/ Logout(t) \/ Reload(t)
      BY <3>1, <3>5, TabKeepsType, LeavingKeepsUser DEF UserInv
    <3> QED
      BY <2>3, <3>2, <3>3, <3>4, <3>5 DEF TabStep
  <2> QED
    BY <2>1, <2>2, <2>3 DEF Next, vars, accountVars
<1> QED
  BY <1>1, <1>2, PTL DEF Spec

\* A tab shows the user its tokens are for (stores/auth.ts, services/api.ts),
\* through refreshes, failures and reloads, for any number of tabs, requests, pages
\* that sign in or change the profile, and tokens, unless a sign-in or sign-out
\* crossed new tokens or an answer that is the user, or such an answer came into a
\* storage another tab had emptied.
THEOREM UserOfTokens == Spec => []TokensMatchUser
<1>1. SessionType /\ UserInv => TokensMatchUser
  BY DEF UserInv, OneUser, For, TokensMatchUser
<1> QED
  BY <1>1, SessionInvariant, PTL
=============================================================================
