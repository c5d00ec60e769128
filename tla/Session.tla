------------------------------ MODULE Session ------------------------------
(***************************************************************************)
(* The sessions of one browser: its tabs (web/src/stores/auth.ts, the      *)
(* interceptors of web/src/services/api.ts, App.tsx, the pages to sign in  *)
(* and for the settings), the local storage they share, and the accounts   *)
(* they talk to (Accounts).                                                *)
(*                                                                         *)
(* An answer of 401 makes a tab ask for new tokens, once for all requests  *)
(* that wait for them, and send those again, once.                         *)
(***************************************************************************)
EXTENDS Accounts

CONSTANTS
    Tabs,
    \* The requests a tab may have in flight.  The answers to these are the user:
    Gets,       \* App asks who the tokens are for
    Logins,     \* a page that has signed in asks the same
    Profiles,   \* the settings page changes the profile
    Calls       \* all others

ASSUME SessionAssumption ==
    /\ Gets \cap Logins = {} /\ (Gets \cup Logins) \cap Profiles = {}
    /\ (Gets \cup Logins \cup Profiles) \cap Calls = {}

VARIABLES
    storage,     \* what localStorage holds: tokens and user_info
    mem,         \* the same, in the store of each tab
    call,        \* the requests of each tab
    refresh,     \* the pair each tab's doRefresh has sent, or 0
    \* History.
    crossed      \* a tab signed in or out while new tokens or an answer that
                 \* is the user were on their way or another was signed in,
                 \* or the storage got a user whose tokens were gone from it

sessionVars == <<storage, mem, call, refresh, crossed>>

vars == <<accountVars, sessionVars>>

Setters == Gets \cup Logins \cup Profiles

Slots == Calls \cup Setters

\* isAuthenticated is that there are tokens.
SignedOut == [pair |-> 0, me |-> 0]

Quiet == [at |-> "idle", pair |-> 0, retried |-> FALSE]

Waits == [at |-> "waiting", pair |-> 0, retried |-> TRUE]

InFlight(t) == refresh[t] # 0 \/ \E s \in Setters : call[t][s].at # "idle"

\* An answer that is the user may come after the tab has signed out.
Overtakes(t) == crossed' = (crossed \/ \E s \in Setters : call'[t][s].at = "sent")

Stores(t, s) == mem' = [mem EXCEPT ![t] = s] /\ storage' = s

-----------------------------------------------------------------------------
\* setTokens in both; what was stored for the user stays.
SetTokens(t, pair) ==
    /\ mem' = [mem EXCEPT ![t].pair = pair]
    /\ storage' = [storage EXCEPT !.pair = pair]

\* LoginPage, RegisterPage: the tokens of the answer are stored, and the user
\* is asked for.
Login(t, s, i) ==
    /\ i \in Ids /\ users[i].active /\ call[t][s].at = "idle"
    /\ Issue(i)
    /\ SetTokens(t, Len(pairs'))
    /\ call' = [call EXCEPT ![t][s] = [at |-> "sent", pair |-> Len(pairs'), retried |-> FALSE]]
    /\ crossed' = \/ crossed \/ InFlight(t) \/ mem[t].pair # 0 \/ storage.pair # 0
                  \/ \E u \in Tabs \ {t} : mem[u].pair # 0 \/ InFlight(u)
    /\ UNCHANGED <<users, req, stimuli, raced, refresh>>

\* The user logs out.
Logout(t) ==
    /\ mem[t].pair # 0
    /\ Stores(t, SignedOut)
    /\ crossed' = \/ crossed \/ InFlight(t)
                  \/ \E u \in Tabs \ {t} : mem[u].pair # 0
    /\ UNCHANGED <<accountVars, call, refresh>>

\* The request interceptor adds the token there is.  App asks for the user when
\* it has tokens and no user; the settings are shown to who has tokens.
Send(t, s) ==
    /\ call[t][s].at = "idle"
    /\ s \in Gets => mem[t].pair # 0 /\ mem[t].me = 0
    /\ s \in Profiles => mem[t].pair # 0
    /\ call' = [call EXCEPT ![t][s] = [at |-> "sent", pair |-> mem[t].pair, retried |-> FALSE]]
    /\ UNCHANGED <<accountVars, storage, mem, refresh, crossed>>

Ends(t, s) == call' = [call EXCEPT ![t][s] = Quiet]

\* The server serves the request.  An answer that is the user is stored; it may
\* come after another tab has signed out.
Served(t, s) ==
    /\ call[t][s].at = "sent" /\ Verdict(call[t][s].pair) = 200
    /\ Ends(t, s)
    /\ IF s \in Setters
       THEN LET i == pairs[call[t][s].pair]
            IN  /\ mem' = [mem EXCEPT ![t].me = i] /\ storage' = [storage EXCEPT !.me = i]
                /\ crossed' = (crossed \/ storage.pair = 0)
       ELSE UNCHANGED <<mem, storage, crossed>>
    /\ UNCHANGED <<accountVars, refresh>>

\* A first 401: the call waits for new tokens; without a refresh token the tab
\* is signed out.
Unauthorized(t, s) ==
    /\ call[t][s].at = "sent" /\ ~call[t][s].retried /\ Verdict(call[t][s].pair) = 401
    /\ \/ /\ refresh[t] # 0 \/ mem[t].pair # 0
          /\ refresh' = [refresh EXCEPT ![t] = IF @ # 0 THEN @ ELSE mem[t].pair]
          /\ call' = [call EXCEPT ![t][s] = Waits]
          /\ UNCHANGED <<mem, storage>>
       \/ /\ refresh[t] = 0 /\ mem[t].pair = 0
          /\ Stores(t, SignedOut) /\ Ends(t, s) /\ UNCHANGED refresh
    /\ UNCHANGED <<accountVars, crossed>>

\* Any other failure is passed on.  App signs out when its request for the
\* user ends with 401.
Rejected(t, s) ==
    /\ call[t][s].at = "sent"
    /\ Ends(t, s)
    /\ \/ UNCHANGED <<mem, storage, crossed>>
       \/ /\ s \in Gets /\ call[t][s].retried /\ Verdict(call[t][s].pair) = 401
          /\ Stores(t, SignedOut) /\ Overtakes(t)
    /\ UNCHANGED <<accountVars, refresh>>

Waiting(t) == {s \in Slots : call[t][s].at = "waiting"}

\* Mutant of Refreshed: one of the requests that wait is sent again.
RefreshedOne(t) ==
    /\ refresh[t] # 0 /\ Refreshable(refresh[t])
    /\ Issue(pairs[refresh[t]])
    /\ SetTokens(t, Len(pairs'))
    /\ refresh' = [refresh EXCEPT ![t] = 0]
    /\ \E s \in Waiting(t) :
          call' = [call EXCEPT ![t][s].at = "sent", ![t][s].pair = Len(pairs')]
    /\ UNCHANGED <<users, req, stimuli, raced, crossed>>

\* The new tokens come: all that wait for them are sent again.
Refreshed(t) ==
    /\ refresh[t] # 0 /\ Refreshable(refresh[t])
    /\ Issue(pairs[refresh[t]])
    /\ SetTokens(t, Len(pairs'))
    /\ refresh' = [refresh EXCEPT ![t] = 0]
    /\ call' = [call EXCEPT ![t] = [s \in Slots |->
           IF s \in Waiting(t) THEN [call[t][s] EXCEPT !.at = "sent", !.pair = Len(pairs')]
           ELSE call[t][s]]]
    /\ UNCHANGED <<users, req, stimuli, raced, crossed>>

\* Mutant of RefreshFails: the user is kept for the next login.
RefreshFailsKeepingUser(t) ==
    /\ refresh[t] # 0
    /\ Stores(t, [SignedOut EXCEPT !.me = mem[t].me])
    /\ refresh' = [refresh EXCEPT ![t] = 0]
    /\ call' = [call EXCEPT ![t] = [s \in Slots |-> IF s \in Waiting(t) THEN Quiet ELSE call[t][s]]]
    /\ Overtakes(t)
    /\ UNCHANGED accountVars

\* They are refused, or the request fails: the tab is signed out.
RefreshFails(t) ==
    /\ refresh[t] # 0
    /\ Stores(t, SignedOut)
    /\ refresh' = [refresh EXCEPT ![t] = 0]
    /\ call' = [call EXCEPT ![t] = [s \in Slots |-> IF s \in Waiting(t) THEN Quiet ELSE call[t][s]]]
    /\ Overtakes(t)
    /\ UNCHANGED accountVars

\* The tab is loaded anew: it takes what is stored, and nothing is in flight.
Reload(t) ==
    /\ mem' = [mem EXCEPT ![t] = IF storage.pair # 0 THEN storage ELSE SignedOut]
    /\ refresh' = [refresh EXCEPT ![t] = 0]
    /\ call' = [call EXCEPT ![t] = [s \in Slots |-> Quiet]]
    /\ UNCHANGED <<accountVars, storage, crossed>>

Init ==
    /\ AccountInit
    /\ storage = SignedOut /\ mem = [t \in Tabs |-> SignedOut]
    /\ call = [t \in Tabs |-> [s \in Slots |-> Quiet]]
    /\ refresh = [t \in Tabs |-> 0] /\ crossed = FALSE

TabStep(t) ==
    \/ \E s \in Logins, i \in 1..MaxUsers : Login(t, s, i)
    \/ \E s \in Slots \ Logins : Send(t, s)
    \/ \E s \in Slots : Served(t, s) \/ Unauthorized(t, s) \/ Rejected(t, s)
    \/ Refreshed(t) \/ RefreshFails(t) \/ Logout(t) \/ Reload(t)

Next ==
    \/ AccountStep /\ UNCHANGED sessionVars
    \/ \E t \in Tabs : TabStep(t)

\* A request is answered, or fails, and so is a refresh.
Fairness ==
    \A t \in Tabs :
        /\ \A s \in Slots : WF_vars(Served(t, s) \/ Unauthorized(t, s) \/ Rejected(t, s))
        /\ WF_vars(Refreshed(t) \/ RefreshFails(t))

Spec == Init /\ [][Next]_vars /\ Fairness

-----------------------------------------------------------------------------
(* Properties.                                                             *)

\* The user a tab shows is the one its tokens are for, unless a tab signed in or
\* out while new tokens or an answer that is the user - to App, to the page that
\* signed in, to a change of the profile - were on their way or while another was
\* signed in, or a user came into a storage that another tab's failed refresh had
\* emptied: through all refreshes, failures and reloads.
TokensMatchUser ==
    ~crossed =>
        \A t \in Tabs : mem[t].pair # 0 /\ mem[t].me # 0 => pairs[mem[t].pair] = mem[t].me

\* A request of a tab ends, however often its tokens expire and whoever else
\* waits for new ones.
CallEnds ==
    \A t \in Tabs : \A s \in Slots : call[t][s].at # "idle" ~> call[t][s].at = "idle"
=============================================================================
