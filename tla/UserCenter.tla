----------------------------- MODULE UserCenter -----------------------------
(***************************************************************************)
(* The session of the app: DLTUserCenter, the launch in AppDelegate, the   *)
(* login and profile screens, the sign-out paths and the relogin of the    *)
(* network layer, all over the bucket, whose writes are only handed over.  *)
(*                                                                         *)
(* The main thread runs one handler at a time.  Writes it has handed over  *)
(* run on the queue between its own steps, so a handler that writes and    *)
(* then reads the bucket is split at those points (main.at).  Replies      *)
(* arrive in any order; main-queue tasks run first in, first out.          *)
(*                                                                         *)
(* A profile, a token and a password are known by the account they belong  *)
(* to.  The server, the chat SDK and the user choose freely.               *)
(***************************************************************************)
EXTENDS BucketStore, Sequences, FiniteSets

CONSTANTS
    Accounts,
    MaxRequests,    \* bound: requests in flight
    MaxTasks        \* bound: blocks waiting in the main queue

ASSUME UserCenterAssumption ==
    /\ Keys = {"info", "token", "logged"}
    /\ Values = Accounts \cup {"YES", "NO", NoValue}
    /\ NoValue \notin Accounts \cup {"YES", "NO"}
    /\ Accounts \cap {"YES", "NO"} = {}
    /\ {MaxRequests, MaxTasks} \subseteq Nat

VARIABLES
    keychain,       \* the accounts whose password the keychain holds
    screen,         \* what the window shows: "blank", "login", "main", or the
                    \* account whose profile form is shown
    main,           \* where the main thread is in its handler
    tasks,          \* blocks waiting in the main queue
    net,            \* requests in flight
    chat,           \* the account the chat SDK is connected as
    answered,       \* history: the auto login of this launch was answered
                    \* with an incomplete profile or without data
    sess,           \* history: whose login was answered last, NoValue after
                    \* a sign-out
    loggedIn,       \* history: a login was granted, and since then none was
                    \* refused, no relogin failed and nobody signed out
    calm            \* history: no write, reply or read overlapped another

ucVars == <<keychain, screen, main, tasks, net, chat>>
vars == <<ldb, pending, keychain, screen, main, tasks, net, chat,
          answered, sess, loggedIn, calm>>

Someone == Accounts \cup {NoValue}

LoginOps == {"auto", "login", "reglogin"}
Requests ==
    [op : LoginOps \cup {"relogin", "refresh", "profile"}, acct : Accounts]
        \cup [op : {"api"}, acct : {NoValue}]
Tasks == [do : {"loginCompleted", "logoutCompleted"}, acct : Someone]

Idle == [at |-> "idle"]
MainStates ==
    [at : {"idle", "launch", "refreshUser"}]
    \cup [at : {"store"}, req : Requests, complete : BOOLEAN]
    \cup [at : {"refreshToken"}, user : Someone]

TypeOK ==
    /\ StoreTypeOK
    /\ keychain \subseteq Accounts
    /\ screen \in {"blank", "login", "main"} \cup Accounts
    /\ main \in MainStates
    /\ tasks \in Seq(Tasks) /\ Len(tasks) <= MaxTasks
    /\ net \subseteq Requests /\ Cardinality(net) <= MaxRequests
    /\ chat \in Someone
    /\ answered \in BOOLEAN
    /\ sess \in Someone
    /\ loggedIn \in BOOLEAN
    /\ calm \in BOOLEAN

\* The properties of DLTUserCenter: plain reads of the bucket.
curUser == Item("info")
token == Item("token")
isLogged == Item("logged") = "YES"

Quiet == \A k \in Keys : ~WriteOutstanding(k)

-----------------------------------------------------------------------------
\* Sending adds to the requests in flight (an equal one counts once).
Send(sent) ==
    /\ Cardinality(sent) <= MaxRequests
    /\ net' = sent

\* dispatch_async to the main queue.
Post(do, a) ==
    /\ Len(tasks) < MaxTasks
    /\ tasks' = Append(tasks, [do |-> do, acct |-> a])

Init ==
    /\ StoreInit
    /\ keychain = {}
    /\ screen = "blank"
    /\ main = [at |-> "launch"]
    /\ tasks = <<>>
    /\ net = {}
    /\ chat = NoValue
    /\ answered = FALSE
    /\ sess = NoValue
    /\ loggedIn = FALSE
    /\ calm = TRUE

\* didFinishLaunching: an auto login when the bucket says so and both the
\* user and a password are there, the login screen otherwise.
Launch ==
    /\ main.at = "launch"
    /\ main' = Idle
    /\ IF isLogged /\ curUser \in keychain
       THEN Send(net \cup {[op |-> "auto", acct |-> curUser]}) /\ UNCHANGED screen
       ELSE screen' = "login" /\ UNCHANGED net
    /\ UNCHANGED <<ldb, pending, keychain, tasks, chat, answered, sess, loggedIn, calm>>

\* The login button.  The HUD it raises takes every touch, but hides itself
\* after 15 seconds, which an answer may outlast: it rules no tap out.
LoginTap(a) ==
    /\ main.at = "idle" /\ screen = "login"
    /\ Send(net \cup {[op |-> "login", acct |-> a]})
    /\ UNCHANGED <<ldb, pending, keychain, screen, main, tasks, chat, answered, sess, loggedIn, calm>>

\* Mutant: the token of the reply is not stored.
LoginAnsweredNoToken(r) ==
    /\ main.at = "idle" /\ r \in net /\ r.op \in LoginOps
    /\ Dispatch({<<"info", r.acct>>})
    /\ \E complete \in BOOLEAN :
        main' = [at |-> "store", req |-> r, complete |-> complete]
    /\ net' = net \ {r}
    /\ sess' = r.acct /\ loggedIn' = TRUE
    /\ calm' = /\ Quiet /\ net = {r} /\ tasks = <<>>
               /\ chat \in {NoValue, r.acct}
    /\ UNCHANGED <<ldb, keychain, screen, tasks, chat, answered>>

\* login: the reply is a success (code 1, or 2 for an incomplete profile):
\* the writes of the profile and of the token are handed over.
LoginAnswered(r) ==
    /\ main.at = "idle" /\ r \in net /\ r.op \in LoginOps
    /\ Dispatch({<<"info", r.acct>>, <<"token", r.acct>>})
    /\ \E complete \in BOOLEAN :
        main' = [at |-> "store", req |-> r, complete |-> complete]
    /\ net' = net \ {r}
    /\ sess' = r.acct /\ loggedIn' = TRUE
    /\ calm' = /\ Quiet /\ net = {r} /\ tasks = <<>>
               /\ chat \in {NoValue, r.acct}
    /\ UNCHANGED <<ldb, keychain, screen, tasks, chat, answered>>

\* ... the keychain gets the password, the subscriber gets the reply, and
\* the session is marked as logged in (doNext).
StorePassword ==
    /\ main.at = "store"
    /\ main' = [at |-> "refreshUser"]
    /\ LET a == main.req.acct
           op == main.req.op
       IN
       /\ keychain' = keychain \cup {a}
       /\ Dispatch({<<"logged", "YES">>})
       /\ IF op = "auto" /\ main.complete THEN screen' = "main" ELSE
          IF op = "login" /\ ~main.complete /\ screen = "login" THEN screen' = a
          ELSE UNCHANGED screen
       /\ IF op = "login" /\ main.complete THEN Post("loginCompleted", a) ELSE
          IF op = "reglogin" THEN Post("logoutCompleted", NoValue)
          ELSE UNCHANGED tasks
       /\ answered' = (answered \/ (op = "auto" /\ ~main.complete))
    /\ UNCHANGED <<ldb, net, chat, sess, loggedIn, calm>>

\* toRefreshToken, in the same handler: the user is read from the bucket ...
ReadUser ==
    /\ main.at = "refreshUser"
    /\ main' = [at |-> "refreshToken", user |-> curUser]
    /\ calm' = (calm /\ ~WriteOutstanding("info"))
    /\ UNCHANGED <<ldb, pending, keychain, screen, tasks, net, chat,
                   answered, sess, loggedIn>>

\* ... then the token; with both at hand the request goes out.
RefreshToken ==
    /\ main.at = "refreshToken" /\ main.user # NoValue /\ token # NoValue
    /\ main' = Idle
    /\ Send(net \cup {[op |-> "refresh", acct |-> token]})
    /\ calm' = (calm /\ ~WriteOutstanding("token"))
    /\ UNCHANGED <<ldb, pending, keychain, screen, tasks, chat,
                   answered, sess, loggedIn>>

\* Mutant: a failed auto login leaves the launch screen up.
LoginFailedSilently(r) ==
    /\ main.at = "idle" /\ r \in net /\ r.op \in LoginOps
    /\ Dispatch({<<"logged", "NO">>})
    /\ loggedIn' = FALSE
    /\ net' = net \ {r}
    /\ IF r.op = "reglogin" THEN Post("logoutCompleted", NoValue) ELSE UNCHANGED tasks
    /\ calm' = (calm /\ ~WriteOutstanding("logged"))
    /\ UNCHANGED <<ldb, keychain, screen, main, chat, answered, sess>>

\* login: refused by the server, or no connection.
LoginFailed(r) ==
    /\ main.at = "idle" /\ r \in net /\ r.op \in LoginOps
    /\ Dispatch({<<"logged", "NO">>})
    /\ loggedIn' = FALSE
    /\ net' = net \ {r}
    /\ screen' = IF r.op = "auto" THEN "login" ELSE screen
    /\ IF r.op = "reglogin" THEN Post("logoutCompleted", NoValue) ELSE UNCHANGED tasks
    /\ calm' = (calm /\ ~WriteOutstanding("logged"))
    /\ UNCHANGED <<ldb, keychain, main, chat, answered, sess>>

\* login, tokenLogin: a success without data raises no event at all.
LoginWithoutData(r) ==
    /\ main.at = "idle" /\ r \in net /\ r.op \in LoginOps \cup {"relogin"}
    /\ net' = net \ {r}
    /\ answered' = (answered \/ r.op = "auto")
    /\ UNCHANGED <<ldb, pending, keychain, screen, main, tasks, chat,
                   sess, loggedIn, calm>>

\* tokenLogin: a success stores the new token and the password, and raises
\* no event; a refusal or a failure marks the session as logged out.
ReloginAnswered(r) ==
    /\ main.at = "idle" /\ r \in net /\ r.op = "relogin"
    /\ Dispatch({<<"token", r.acct>>})
    /\ keychain' = keychain \cup {r.acct}
    /\ net' = net \ {r}
    /\ calm' = (calm /\ ~WriteOutstanding("token"))
    /\ UNCHANGED <<ldb, screen, main, tasks, chat, answered, sess, loggedIn>>

ReloginFailed(r) ==
    /\ main.at = "idle" /\ r \in net /\ r.op = "relogin"
    /\ Dispatch({<<"logged", "NO">>})
    /\ loggedIn' = FALSE
    /\ net' = net \ {r}
    /\ calm' = (calm /\ ~WriteOutstanding("logged"))
    /\ UNCHANGED <<ldb, keychain, screen, main, tasks, chat, answered, sess>>

\* Any screen behind the login calls the server with the user and the token.
ApiTap ==
    /\ main.at = "idle" /\ screen = "main"
    /\ curUser # NoValue /\ token # NoValue
    /\ Send(net \cup {[op |-> "api", acct |-> NoValue]})
    /\ UNCHANGED <<ldb, pending, keychain, screen, main, tasks, chat,
                   answered, sess, loggedIn, calm>>

\* Answered, or failed, without the code -1, and nothing is stored.
ApiAnswered(r) ==
    /\ main.at = "idle" /\ r \in net /\ r.op = "api"
    /\ net' = net \ {r}
    /\ UNCHANGED <<ldb, pending, keychain, screen, main, tasks, chat,
                   answered, sess, loggedIn, calm>>

\* The reply to an edit of the profile (picture, name, birthday, region,
\* photos): the stored profile is read now, whosever it is, one field of it
\* is changed, and it is stored again.  Storing nil trips an assertion of the
\* wrapper, a death like any other, or stores a value read back as nil.
EditAnswered(r) ==
    /\ main.at = "idle" /\ r \in net /\ r.op = "api"
    /\ Dispatch({<<"info", curUser>>})
    /\ net' = net \ {r}
    /\ calm' = (calm /\ ~WriteOutstanding("info"))
    /\ UNCHANGED <<ldb, keychain, screen, main, tasks, chat,
                   answered, sess, loggedIn>>

\* Code -1 on any request that carries a token: relogin as the user the
\* bucket holds now, not as the one the request was sent for.
TokenExpired(r) ==
    /\ main.at = "idle" /\ r \in net /\ r.op \in {"api", "refresh"}
    /\ curUser \in keychain
    /\ Send((net \ {r}) \cup {[op |-> "relogin", acct |-> curUser]})
    /\ calm' = (calm /\ ~WriteOutstanding("info"))
    /\ UNCHANGED <<ldb, pending, keychain, screen, main, tasks, chat,
                   answered, sess, loggedIn>>

\* toRefreshToken is answered: the chat SDK connects with the token it got,
\* unless it is connected already or the reply carries none.
RefreshAnswered(r) ==
    /\ main.at = "idle" /\ r \in net /\ r.op = "refresh"
    /\ net' = net \ {r}
    /\ \/ chat' = IF chat = NoValue THEN r.acct ELSE chat
       \/ UNCHANGED chat
    /\ UNCHANGED <<ldb, pending, keychain, screen, main, tasks,
                   answered, sess, loggedIn, calm>>

\* The profile form of a new account.
ProfileTap ==
    /\ main.at = "idle" /\ screen \in Accounts
    /\ Send(net \cup {[op |-> "profile", acct |-> screen]})
    /\ UNCHANGED <<ldb, pending, keychain, screen, main, tasks, chat,
                   answered, sess, loggedIn, calm>>

\* setUserInfo: the reply replaces the stored profile; then log in again.
ProfileAnswered(r) ==
    /\ main.at = "idle" /\ r \in net /\ r.op = "profile"
    /\ \/ /\ Dispatch({<<"info", r.acct>>})
          /\ net' = (net \ {r}) \cup {[op |-> "reglogin", acct |-> r.acct]}
          /\ calm' = (calm /\ sess = r.acct /\ ~WriteOutstanding("info"))
       \/ /\ net' = net \ {r}
          /\ UNCHANGED <<pending, calm>>
    /\ UNCHANGED <<ldb, keychain, screen, main, tasks, chat, answered, sess, loggedIn>>

-----------------------------------------------------------------------------
\* Mutant: the sign-out forgets the token.
LogoutKeepsToken ==
    /\ Dispatch({<<"info", NoValue>>, <<"logged", "NO">>})
    /\ chat' = NoValue
    /\ Post("logoutCompleted", NoValue)
    /\ sess' = NoValue /\ loggedIn' = FALSE
    /\ calm' = (Quiet /\ net = {} /\ tasks = <<>>)
    /\ UNCHANGED <<ldb, keychain, screen, main, net, answered>>

\* DLTUserCenter logout, and the login screen asked for through the main
\* queue.  Nothing that is in flight is cancelled.
Logout ==
    /\ Dispatch({<<"info", NoValue>>, <<"logged", "NO">>, <<"token", NoValue>>})
    /\ chat' = NoValue
    /\ Post("logoutCompleted", NoValue)
    /\ sess' = NoValue /\ loggedIn' = FALSE
    /\ calm' = (Quiet /\ net = {} /\ tasks = <<>>)
    /\ UNCHANGED <<ldb, keychain, screen, main, net, answered>>

\* The sign-out row of the settings.
LogoutTap == main.at = "idle" /\ screen = "main" /\ Logout

\* Another device signed in: the SDK kicks this one.
KickedOffline == main.at = "idle" /\ screen = "main" /\ chat # NoValue /\ Logout

\* Mutant: the main queue served last in, first out.
RunLastTask ==
    /\ main.at = "idle" /\ tasks # <<>>
    /\ LET n == Len(tasks) IN
        /\ tasks' = SubSeq(tasks, 1, n - 1)
        /\ IF tasks[n].do = "loginCompleted"
           THEN screen' = "main" /\ Dispatch({<<"token", tasks[n].acct>>})
           ELSE screen' = "login" /\ UNCHANGED pending
    /\ UNCHANGED <<ldb, keychain, main, net, chat, answered, sess, loggedIn, calm>>

\* The next block of the main queue: loginCompleted (after the login screen
\* has stored the token a second time) or logoutCompleted.
RunTask ==
    /\ main.at = "idle" /\ tasks # <<>>
    /\ tasks' = Tail(tasks)
    /\ IF Head(tasks).do = "loginCompleted"
       THEN screen' = "main" /\ Dispatch({<<"token", Head(tasks).acct>>})
       ELSE screen' = "login" /\ UNCHANGED pending
    /\ UNCHANGED <<ldb, keychain, main, net, chat, answered, sess, loggedIn, calm>>

\* The queue runs one of the writes handed over.
RunWrite(k, v) ==
    /\ RunBlock(k, v)
    /\ UNCHANGED <<ucVars, answered, sess, loggedIn, calm>>

\* The process dies with all it had in memory and is launched again.
Relaunch ==
    /\ LoseBlocks
    /\ screen' = "blank"
    /\ main' = [at |-> "launch"]
    /\ tasks' = <<>> /\ net' = {} /\ chat' = NoValue
    /\ answered' = FALSE
    /\ calm' = (calm /\ Quiet /\ main.at # "store")
    /\ UNCHANGED <<keychain, sess, loggedIn>>

\* Killed by the system or the user.
Die == Relaunch

\* Killed by a nil: the literal of toRefreshToken with no user or no token,
\* or tokenLogin asserting on a user or a password that is not there.
NilCrash ==
    /\ \/ main.at = "refreshToken" /\ NoValue \in {main.user, token}
       \/ /\ main.at = "idle" /\ curUser \notin keychain
          /\ \E r \in net : r.op \in {"api", "refresh"}
    /\ Relaunch

Reply(r) ==
    \/ LoginAnswered(r) \/ LoginFailed(r) \/ LoginWithoutData(r)
    \/ ReloginAnswered(r) \/ ReloginFailed(r)
    \/ ApiAnswered(r) \/ EditAnswered(r) \/ TokenExpired(r)
    \/ RefreshAnswered(r) \/ ProfileAnswered(r)

MainStep == Launch \/ StorePassword \/ ReadUser \/ RefreshToken

Next ==
    \/ MainStep
    \/ RunTask
    \/ \E r \in Requests : Reply(r)
    \/ \E a \in Accounts : LoginTap(a)
    \/ ApiTap \/ ProfileTap \/ LogoutTap \/ KickedOffline
    \/ \E k \in Keys, v \in Values : RunWrite(k, v)
    \/ Die \/ NilCrash

Spec == Init /\ [][Next]_vars

\* The main thread goes on, its queue and the global queue are served, and
\* every request is answered, if only by its timeout.
Fairness ==
    /\ WF_vars(MainStep \/ NilCrash)
    /\ WF_vars(RunTask)
    /\ \A r \in Requests : WF_vars(Reply(r))
    /\ \A k \in Keys, v \in Values : WF_vars(RunWrite(k, v))

FairSpec == Spec /\ Fairness

-----------------------------------------------------------------------------
\* While nothing overlaps and the writes have run, the session is one
\* account's: profile, token, password and chat connection are those of the
\* login answered last, after a sign-out neither profile nor token is left,
\* and the login flag says whether that login still stands (login,
\* tokenLogin, logout, setUserProfile and toRefreshToken together, through
\* deaths between their writes' hand-over and the next launch).
CalmSession ==
    calm /\ Quiet /\ main.at # "store" =>
        /\ sess # NoValue => curUser = sess /\ token = sess /\ sess \in keychain
        /\ sess = NoValue => curUser = NoValue /\ token = NoValue
        /\ isLogged <=> loggedIn
        /\ chat \in {NoValue, sess}

\* The handler of a calm login reads back what it has just handed over, once
\* the queue has run it: toRefreshToken builds its request from that login's
\* own profile and token, and meets no nil.
ReadsOwnLogin ==
    calm /\ main.at = "refreshToken" /\ ~WriteOutstanding("token") =>
        main.user = sess /\ token = sess

\* However late a login is answered and in whatever order the main queue
\* fills, the main screen of a session that was signed out, by the user or
\* by another device, is on its way out (logout, logoutCompleted).
SignedOutLeavesMain ==
    screen = "main" /\ sess = NoValue =>
        \E i \in 1..Len(tasks) : tasks[i].do = "logoutCompleted"

\* The launch screen gives way to the login or the main screen, unless the
\* auto login is answered with an incomplete profile (code 2, for which
\* AppDelegate does nothing) or without data (which raises no event).
LaunchResolves ==
    <>[][~Die]_vars => (screen = "blank" ~> screen # "blank" \/ answered)

\* isLogged YES means that an auto login is possible, as DLTUserCenter.h:89
\* says: a death between the writes of a login or of a sign-out breaks it.
LoggedCanAutoLogin == main.at = "launch" /\ isLogged => curUser \in keychain
=============================================================================
