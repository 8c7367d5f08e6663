-------------------------- MODULE UserCenterProofs --------------------------
(***************************************************************************)
(* The session, for any accounts, any number of requests, any length of    *)
(* the main queue and any number of outstanding writes.                    *)
(*                                                                         *)
(* The main screen.  A block that shows it is posted by the handler of a   *)
(* login that has just been answered (so the session is that login's), and *)
(* runs before any block posted later.  If the session is signed out when  *)
(* it runs, the sign-out came after the login, and its own block is        *)
(* behind.                                                                 *)
(*                                                                         *)
(* The store.  Every key gets only what belongs under it.  While the       *)
(* session is calm whatever is due or in flight is the session's, and what *)
(* is not there yet is due; the same goes for the login flag.              *)
(***************************************************************************)
EXTENDS UserCenter, FiniteSetTheorems, SequenceTheorems, TLAPS

-----------------------------------------------------------------------------
(* The main screen.                                                        *)

\* Some block of the queue q takes the main screen away.
Leaving(q) == \E i \in 1..Len(q) : q[i].do = "logoutCompleted"

\* Behind every block that shows the main screen waits one that takes it away.
Behind(q) ==
    \A i \in 1..Len(q) : q[i].do = "loginCompleted" =>
        \E j \in 1..Len(q) : i < j /\ q[j].do = "logoutCompleted"

\* The strengthening: the handler of a login works for a session that is
\* not signed out, and a signed-out queue ends on the login screen.
SInv ==
    /\ tasks \in Seq(Tasks)
    /\ main.at = "store" => main.req.acct \in Someone /\ sess # NoValue
    /\ sess = NoValue => Behind(tasks)
    /\ SignedOutLeavesMain

-----------------------------------------------------------------------------
LEMMA AppendSignOut ==
    ASSUME NEW q \in Seq(Tasks), NEW t \in Tasks, t.do = "logoutCompleted"
    PROVE  Append(q, t) \in Seq(Tasks) /\ Behind(Append(q, t)) /\ Leaving(Append(q, t))
<1> DEFINE p == Append(q, t)
<1>1. /\ p \in Seq(Tasks) /\ Len(p) = Len(q) + 1
      /\ p[Len(q) + 1] = t
      /\ Len(q) \in Nat
  BY AppendProperties, LenProperties
<1>2. Leaving(p)
  BY <1>1 DEF Leaving
<1>3. Behind(p)
  <2> SUFFICES ASSUME NEW i \in 1..Len(p), p[i].do = "loginCompleted"
               PROVE  \E j \in 1..Len(p) : i < j /\ p[j].do = "logoutCompleted"
    BY DEF Behind
  <2>1. i # Len(p)
    BY <1>1
  <2> QED BY <1>1, <2>1
<1> QED BY <1>1, <1>2, <1>3

LEMMA TailSignOut ==
    ASSUME NEW q \in Seq(Tasks), q # <<>>
    PROVE  /\ Tail(q) \in Seq(Tasks)
           /\ Behind(q) => Behind(Tail(q))
           /\ Behind(q) /\ Head(q).do = "loginCompleted" => Leaving(Tail(q))
<1> DEFINE p == Tail(q)
<1>1. /\ p \in Seq(Tasks) /\ Len(p) = Len(q) - 1
      /\ \A i \in 1..Len(p) : p[i] = q[i + 1]
      /\ Head(q) = q[1]
      /\ Len(q) \in Nat /\ Len(q) >= 1
  BY HeadTailProperties, LenProperties, EmptySeq
<1>2. ASSUME Behind(q) PROVE Behind(p)
  <2> SUFFICES ASSUME NEW i \in 1..Len(p), p[i].do = "loginCompleted"
               PROVE  \E j \in 1..Len(p) : i < j /\ p[j].do = "logoutCompleted"
    BY DEF Behind
  <2>1. PICK j \in 1..Len(q) : i + 1 < j /\ q[j].do = "logoutCompleted"
    BY <1>1, <1>2 DEF Behind
  <2>2. j - 1 \in 1..Len(p) /\ i < j - 1 /\ p[j - 1] = q[j]
    BY <1>1, <2>1
  <2> QED BY <2>1, <2>2
<1>3. ASSUME Behind(q), Head(q).do = "loginCompleted" PROVE Leaving(p)
  <2>1. PICK j \in 1..Len(q) : 1 < j /\ q[j].do = "logoutCompleted"
    BY <1>1, <1>3 DEF Behind
  <2>2. j - 1 \in 1..Len(p) /\ p[j - 1] = q[j]
    BY <1>1, <2>1
  <2> QED BY <2>1, <2>2 DEF Leaving
<1> QED BY <1>1, <1>2, <1>3

-----------------------------------------------------------------------------
LEMMA InvInit == Init => SInv
<1>1. <<>> \in Seq(Tasks) /\ Len(<<>>) = 0
  BY EmptySeq
<1> QED BY <1>1 DEF Init, SInv, Behind, SignedOutLeavesMain

\* A sign-out puts its own block behind all the others.
LEMMA LogoutKeeps ==
    ASSUME SInv, main.at = "idle", Logout
    PROVE  SInv'
<1> DEFINE t == [do |-> "logoutCompleted", acct |-> NoValue]
<1>1. t \in Tasks /\ t.do = "logoutCompleted"
  BY DEF Tasks, Someone
<1>2. tasks' = Append(tasks, t) /\ UNCHANGED <<main, screen>>
  BY DEF Logout, Post
<1>3. tasks' \in Seq(Tasks) /\ Behind(tasks') /\ Leaving(tasks')
  BY <1>1, <1>2, AppendSignOut DEF SInv
<1>4. main'.at # "store"
  BY <1>2
<1> QED BY <1>3, <1>4 DEF SInv, SignedOutLeavesMain, Leaving

\* The next block of the queue: what it leaves is behind it.
LEMMA RunTaskKeeps ==
    ASSUME SInv, RunTask
    PROVE  SInv'
<1>1. /\ tasks \in Seq(Tasks) /\ tasks # <<>> /\ tasks' = Tail(tasks)
      /\ main.at = "idle" /\ UNCHANGED <<main, sess>>
  BY DEF RunTask, SInv
<1>2. /\ tasks' \in Seq(Tasks)
      /\ sess' = NoValue => Behind(tasks')
      /\ sess' = NoValue /\ Head(tasks).do = "loginCompleted" => Leaving(tasks')
  BY <1>1, TailSignOut DEF SInv
<1>3. Head(tasks).do # "loginCompleted" => screen' = "login"
  BY DEF RunTask
<1> QED BY <1>1, <1>2, <1>3 DEF SInv, SignedOutLeavesMain, Leaving

\* The handler of a login posts for a session that is not signed out.
LEMMA StorePasswordKeeps ==
    ASSUME SInv, StorePassword
    PROVE  SInv'
<1>1. /\ main.at = "store" /\ sess # NoValue /\ main.req.acct \in Someone
      /\ tasks \in Seq(Tasks)
      /\ sess' = sess /\ main' = [at |-> "refreshUser"]
  BY DEF StorePassword, SInv
<1>2. tasks' \in Seq(Tasks)
  <2>1. \/ tasks' = tasks
        \/ tasks' = Append(tasks, [do |-> "loginCompleted", acct |-> main.req.acct])
        \/ tasks' = Append(tasks, [do |-> "logoutCompleted", acct |-> NoValue])
    BY DEF StorePassword, Post
  <2>2. /\ [do |-> "loginCompleted", acct |-> main.req.acct] \in Tasks
        /\ [do |-> "logoutCompleted", acct |-> NoValue] \in Tasks
    BY <1>1 DEF Tasks, Someone
  <2> QED BY <1>1, <2>1, <2>2, AppendProperties
<1>3. main'.at # "store"
  BY <1>1
<1> QED BY <1>1, <1>2, <1>3 DEF SInv, SignedOutLeavesMain

\* A success is somebody's session.
LEMMA LoginAnsweredKeeps ==
    ASSUME SInv, NEW r \in Requests, LoginAnswered(r)
    PROVE  SInv'
<1>1. r.acct \in Accounts /\ r.acct # NoValue
  BY UserCenterAssumption DEF LoginAnswered, LoginOps, Requests
<1>2. PICK complete \in BOOLEAN :
          main' = [at |-> "store", req |-> r, complete |-> complete]
  BY DEF LoginAnswered
<1>3. sess' = r.acct /\ tasks' = tasks
  BY DEF LoginAnswered
<1>4. main'.req.acct \in Someone
  BY <1>1, <1>2 DEF Someone
<1> QED BY <1>1, <1>3, <1>4 DEF SInv, SignedOutLeavesMain

\* A failure shows the login screen or leaves it, and after a registration
\* posts a block of its own.
LEMMA LoginFailedKeeps ==
    ASSUME SInv, NEW r \in Requests, LoginFailed(r)
    PROVE  SInv'
<1> DEFINE t == [do |-> "logoutCompleted", acct |-> NoValue]
<1>1. /\ main.at = "idle" /\ UNCHANGED <<main, sess>>
      /\ screen' = "login" \/ screen' = screen
      /\ tasks' = tasks \/ tasks' = Append(tasks, t)
  BY DEF LoginFailed, Post
<1>2. t \in Tasks /\ t.do = "logoutCompleted"
  BY DEF Tasks, Someone
<1>3. CASE tasks' = tasks
  BY <1>1, <1>3 DEF SInv, SignedOutLeavesMain
<1>4. CASE tasks' = Append(tasks, t)
  <2>1. tasks' \in Seq(Tasks) /\ Behind(tasks') /\ Leaving(tasks')
    BY <1>2, <1>4, AppendSignOut DEF SInv
  <2> QED BY <1>1, <2>1 DEF SInv, SignedOutLeavesMain, Leaving
<1> QED BY <1>1, <1>3, <1>4

\* A new process starts with an empty main queue and a blank screen.
LEMMA RelaunchKeeps ==
    ASSUME SInv, Relaunch
    PROVE  SInv'
<1>1. tasks' = <<>> /\ screen' = "blank" /\ main' = [at |-> "launch"]
  BY DEF Relaunch
<1>2. tasks' \in Seq(Tasks) /\ Len(tasks') = 0
  BY <1>1, EmptySeq
<1>3. Behind(tasks')
  BY <1>2 DEF Behind
<1> QED BY <1>1, <1>2, <1>3 DEF SInv, SignedOutLeavesMain

LEMMA InvStep == SInv /\ [Next]_vars => SInv'
<1> SUFFICES ASSUME SInv, [Next]_vars PROVE SInv'
  OBVIOUS
\* What leaves the queue, the session and the handler alone, or moves the
\* handler on without a reply in its hands.
<1>1. ASSUME UNCHANGED <<tasks, sess>>,
             main' = main \/ main'.at # "store",
             screen' = screen \/ screen' # "main"
      PROVE  SInv'
  BY <1>1 DEF SInv, Behind, SignedOutLeavesMain
<1>2. CASE MainStep
  <2>1. CASE Launch
    BY <1>1, <2>1 DEF Launch, Idle
  <2>2. CASE StorePassword
    BY <2>2, StorePasswordKeeps
  <2>3. CASE ReadUser
    BY <1>1, <2>3 DEF ReadUser
  <2>4. CASE RefreshToken
    BY <1>1, <2>4 DEF RefreshToken, Idle
  <2> QED BY <1>2, <2>1, <2>2, <2>3, <2>4 DEF MainStep
<1>3. CASE RunTask
  BY <1>3, RunTaskKeeps
<1>4. ASSUME NEW r \in Requests, Reply(r) PROVE SInv'
  <2>1. CASE LoginAnswered(r)
    BY <2>1, LoginAnsweredKeeps
  <2>2. CASE LoginFailed(r)
    BY <2>2, LoginFailedKeeps
  <2>3. CASE LoginWithoutData(r)
    BY <1>1, <2>3 DEF LoginWithoutData
  <2>4. CASE ReloginAnswered(r) \/ ReloginFailed(r)
    BY <1>1, <2>4 DEF ReloginAnswered, ReloginFailed
  <2>5. CASE ApiAnswered(r) \/ EditAnswered(r) \/ TokenExpired(r)
    BY <1>1, <2>5 DEF ApiAnswered, EditAnswered, TokenExpired
  <2>6. CASE RefreshAnswered(r) \/ ProfileAnswered(r)
    BY <1>1, <2>6 DEF RefreshAnswered, ProfileAnswered
  <2> QED BY <1>4, <2>1, <2>2, <2>3, <2>4, <2>5, <2>6 DEF Reply
<1>5. ASSUME NEW a \in Accounts, LoginTap(a) PROVE SInv'
  BY <1>1, <1>5 DEF LoginTap
<1>6. CASE ApiTap \/ ProfileTap
  BY <1>1, <1>6 DEF ApiTap, ProfileTap
<1>7. CASE LogoutTap \/ KickedOffline
  BY <1>7, LogoutKeeps DEF LogoutTap, KickedOffline
<1>8. ASSUME NEW k \in Keys, NEW v \in Values, RunWrite(k, v) PROVE SInv'
  BY <1>1, <1>8 DEF RunWrite, ucVars
<1>9. CASE Die \/ NilCrash
  BY <1>9, RelaunchKeeps DEF Die, NilCrash
<1>10. CASE UNCHANGED vars
  BY <1>1, <1>10 DEF vars
<1> QED BY <1>2, <1>3, <1>4, <1>5, <1>6, <1>7, <1>8, <1>9, <1>10 DEF Next

\* However replies, sign-outs, kicks and deaths interleave, a signed-out
\* session does not keep the main screen: a block that takes it away waits
\* in the main queue (logout and logoutCompleted against loginCompleted).
THEOREM SessionLeavesMain == Spec => []SignedOutLeavesMain
<1>1. Init => SInv
  BY InvInit
<1>2. SInv /\ [Next]_vars => SInv'
  BY InvStep
<1>3. SInv => SignedOutLeavesMain
  BY DEF SInv
<1> QED BY <1>1, <1>2, <1>3, PTL DEF Spec

-----------------------------------------------------------------------------
(* The store: what is handed over, what has run, and of what type.         *)

\* A write of v under k has been handed over and has not run.
Due(k, v) == pending[<<k, v>>] > 0

\* What is written under a key.
Fits(k, v) == IF k = "logged" THEN v \in {"YES", "NO", NoValue} ELSE v \in Someone

KeyTypes ==
    /\ \A k \in Keys : Fits(k, ldb[k])
    /\ \A k \in Keys, v \in Values : Due(k, v) => Fits(k, v)

NetOK == net \subseteq Requests /\ IsFiniteSet(net) /\ Cardinality(net) <= MaxRequests

\* What the handler stores is the answer to a login.
StoresLogin == main.at = "store" => main.req.op \in LoginOps

TInv == TypeOK /\ IsFiniteSet(net) /\ KeyTypes /\ StoresLogin

LEMMA KeysAndValues ==
  /\ "info" \in Keys /\ "token" \in Keys /\ "logged" \in Keys
  /\ "YES" \in Values /\ "NO" \in Values /\ NoValue \in Values
  /\ Accounts \subseteq Values /\ Someone \subseteq Values
  /\ NoValue \notin Accounts /\ NoValue # "YES" /\ NoValue # "NO"
  /\ \A a \in Someone : Fits("info", a) /\ Fits("token", a)
  /\ Fits("logged", "YES") /\ Fits("logged", "NO")
  BY UserCenterAssumption DEF Someone, Fits

\* Handing over changes what is due by what is handed over.
LEMMA DispatchDue ==
  ASSUME StoreTypeOK, NEW S, Dispatch(S)
  PROVE  /\ pending' \in [Blocks -> Nat]
         /\ \A k \in Keys, v \in Values : Due(k, v)' <=> Due(k, v) \/ <<k, v>> \in S
<1>1. pending \in [Blocks -> Nat] /\ \A k \in Keys, v \in Values : <<k, v>> \in Blocks
  BY BucketAssumption DEF StoreTypeOK, Blocks
<1>2. pending' = [b \in Blocks |-> IF b \in S THEN pending[b] + 1 ELSE pending[b]]
  BY DEF Dispatch
<1>3. QED
  BY <1>1, <1>2 DEF Due

LEMMA DispatchTypes ==
  ASSUME StoreTypeOK, KeyTypes, UNCHANGED ldb, NEW S, Dispatch(S),
         \A k \in Keys, v \in Values : <<k, v>> \in S => Fits(k, v), S \subseteq Blocks
  PROVE  StoreTypeOK' /\ KeyTypes'
<1>1. pending' = [b \in Blocks |-> IF b \in S THEN pending[b] + 1 ELSE pending[b]]
  BY DEF Dispatch
<1>2. \A b \in S : pending[b] < MaxPending
  BY DEF Dispatch
<1>3. \A b \in Blocks : (IF b \in S THEN pending[b] + 1 ELSE pending[b]) \in 0..MaxPending
  BY <1>2, BucketAssumption DEF StoreTypeOK
<1>4. StoreTypeOK'
  BY <1>1, <1>3 DEF StoreTypeOK, Blocks
<1>5. \A k \in Keys, v \in Values : Due(k, v)' => Due(k, v) \/ <<k, v>> \in S
  BY DispatchDue
<1>6. KeyTypes'
  BY <1>5 DEF KeyTypes
<1>7. QED
  BY <1>4, <1>6

\* One write runs.
LEMMA RunDue ==
  ASSUME StoreTypeOK, NEW k \in Keys, NEW v \in Values, RunBlock(k, v)
  PROVE  /\ Due(k, v) /\ ldb' = [ldb EXCEPT ![k] = v]
         /\ \A l \in Keys, w \in Values : /\ Due(l, w)' => Due(l, w)
                                          /\ Due(l, w) /\ <<l, w>> # <<k, v>> => Due(l, w)'
<1>1. pending \in [Blocks -> Nat] /\ \A l \in Keys, w \in Values : <<l, w>> \in Blocks
  BY BucketAssumption DEF StoreTypeOK, Blocks
<1>2. pending' = [pending EXCEPT ![<<k, v>>] = @ - 1]
  BY DEF RunBlock
<1>3. QED
  BY <1>1, <1>2 DEF Due, RunBlock

LEMMA RunTypes ==
  ASSUME StoreTypeOK, KeyTypes, NEW k \in Keys, NEW v \in Values, RunBlock(k, v)
  PROVE  StoreTypeOK' /\ KeyTypes'
<1>1. <<k, v>> \in Blocks /\ pending[<<k, v>>] \in 0..MaxPending /\ MaxPending \in Nat
  BY BucketAssumption DEF StoreTypeOK, Blocks
<1>2. pending[<<k, v>>] - 1 \in 0..MaxPending
  BY <1>1 DEF RunBlock
<1>3. pending' \in [Blocks -> 0..MaxPending]
  BY <1>2 DEF RunBlock, StoreTypeOK
<1>4. ldb' \in [Keys -> Values]
  BY RunDue DEF StoreTypeOK
<1>5. StoreTypeOK'
  BY <1>3, <1>4 DEF StoreTypeOK, Blocks
<1>6. Fits(k, v)
  BY RunDue DEF KeyTypes
<1>7. \A l \in Keys : Fits(l, ldb'[l])
  BY <1>6, RunDue DEF KeyTypes, StoreTypeOK
<1>8. KeyTypes'
  BY <1>7, RunDue DEF KeyTypes
<1>9. QED
  BY <1>5, <1>8

LEMMA LoseTypes ==
  ASSUME StoreTypeOK, KeyTypes, LoseBlocks
  PROVE  StoreTypeOK' /\ KeyTypes' /\ \A k \in Keys, v \in Values : ~Due(k, v)'
<1>1. \A k \in Keys, v \in Values : ~Due(k, v)'
  BY DEF LoseBlocks, Due, Blocks
<1>2. QED
  BY <1>1, BucketAssumption DEF StoreTypeOK, KeyTypes, LoseBlocks, Blocks

LEMMA TInvGives ==
  ASSUME TInv
  PROVE  /\ StoreTypeOK /\ KeyTypes /\ NetOK /\ StoresLogin
         /\ keychain \subseteq Accounts /\ screen \in {"blank", "login", "main"} \cup Accounts
         /\ main \in MainStates /\ tasks \in Seq(Tasks) /\ Len(tasks) <= MaxTasks
         /\ chat \in Someone /\ answered \in BOOLEAN /\ sess \in Someone
         /\ loggedIn \in BOOLEAN /\ calm \in BOOLEAN
         /\ curUser \in Someone /\ token \in Someone
<1>1. \A k \in {"info", "token"} : ldb[k] \in Someone
  BY KeysAndValues DEF TInv, KeyTypes, Fits
<1>2. QED
  BY <1>1 DEF TInv, TypeOK, NetOK, curUser, token, Item

\* A handler's state, by where it is.
LEMMA Handler ==
  /\ \A m \in MainStates : /\ m.at = "store" => m.req \in Requests /\ m.complete \in BOOLEAN
                           /\ m.at = "refreshToken" => m.user \in Someone
  /\ Idle \in MainStates /\ [at |-> "refreshUser"] \in MainStates /\ [at |-> "launch"] \in MainStates
  /\ \A r \in Requests, c \in BOOLEAN : [at |-> "store", req |-> r, complete |-> c] \in MainStates
  /\ \A u \in Someone : [at |-> "refreshToken", user |-> u] \in MainStates
  BY DEF MainStates, Idle

\* Requests by what they are for.
LEMMA RequestOf ==
  /\ \A r \in Requests : r.op # "api" => r.acct \in Accounts
  /\ \A r \in Requests : r.op \in LoginOps => r.acct \in Accounts
  /\ \A a \in Accounts, op \in LoginOps \cup {"relogin", "refresh", "profile"} : [op |-> op, acct |-> a] \in Requests
  /\ [op |-> "api", acct |-> NoValue] \in Requests
  BY DEF Requests, LoginOps

LEMMA FewerRequests == ASSUME NetOK, net' \subseteq net PROVE NetOK'
  BY FS_Subset, FS_CardinalityType, UserCenterAssumption DEF NetOK

LEMMA OneMoreRequest == ASSUME NetOK, NEW r \in Requests, Send(net \cup {r}) PROVE NetOK'
  BY FS_AddElement DEF NetOK, Send

LEMMA OneForAnother ==
  ASSUME NetOK, NEW r \in net, NEW new \in Requests, net' = (net \ {r}) \cup {new}
  PROVE  NetOK'
<1>1. IsFiniteSet(net) /\ Cardinality(net) \in Nat /\ Cardinality(net) <= MaxRequests
  BY FS_CardinalityType DEF NetOK
<1>2. IsFiniteSet(net \ {r}) /\ Cardinality(net \ {r}) = Cardinality(net) - 1
  BY <1>1, FS_RemoveElement
<1>3. /\ IsFiniteSet((net \ {r}) \cup {new})
      /\ Cardinality((net \ {r}) \cup {new})
            = IF new \in net \ {r} THEN Cardinality(net \ {r}) ELSE Cardinality(net \ {r}) + 1
  BY <1>2, FS_AddElement
<1>4. Cardinality(net') <= MaxRequests
  BY <1>1, <1>2, <1>3, UserCenterAssumption
<1>5. QED
  BY <1>3, <1>4 DEF NetOK

\* A block is put behind the others, or the first one taken off.
LEMMA PostTypes ==
  ASSUME tasks \in Seq(Tasks), Len(tasks) <= MaxTasks, NEW do \in {"loginCompleted", "logoutCompleted"},
         NEW a \in Someone, Post(do, a)
  PROVE  tasks' \in Seq(Tasks) /\ Len(tasks') <= MaxTasks
<1>1. [do |-> do, acct |-> a] \in Tasks
  BY DEF Tasks
<1>2. Len(tasks) < MaxTasks /\ tasks' = Append(tasks, [do |-> do, acct |-> a])
  BY DEF Post
<1>3. tasks' \in Seq(Tasks) /\ Len(tasks') = Len(tasks) + 1 /\ Len(tasks) \in Nat
  BY <1>1, <1>2, AppendProperties, LenProperties
<1>4. QED
  BY <1>2, <1>3, UserCenterAssumption

-----------------------------------------------------------------------------
(* Types.                                                                  *)

LEMMA StillTyped ==
  ASSUME StoreTypeOK', KeyTypes', NetOK', StoresLogin', keychain' \subseteq Accounts,
         screen' \in {"blank", "login", "main"} \cup Accounts, main' \in MainStates,
         tasks' \in Seq(Tasks), Len(tasks') <= MaxTasks, chat' \in Someone,
         answered' \in BOOLEAN, sess' \in Someone, loggedIn' \in BOOLEAN, calm' \in BOOLEAN
  PROVE  TInv'
  BY DEF TInv, TypeOK, NetOK

\* A step that hands nothing over and posts nothing.
LEMMA NothingWritten ==
  ASSUME TInv, UNCHANGED <<ldb, pending, keychain, tasks, sess, loggedIn>>, NetOK',
         screen' \in {"blank", "login", "main"} \cup Accounts, main' \in MainStates, chat' \in Someone,
         answered' \in BOOLEAN, calm' \in BOOLEAN, main' = main \/ main'.at # "store"
  PROVE  TInv'
<1>0. StoresLogin'
  BY TInvGives DEF StoresLogin
<1>1. StoreTypeOK' /\ KeyTypes'
  BY TInvGives DEF StoreTypeOK, Blocks, KeyTypes, Due
<1>2. QED
  BY <1>0, <1>1, TInvGives, StillTyped

LEMMA TypesInit == Init => TInv
<1> SUFFICES ASSUME Init PROVE TInv
  OBVIOUS
<1>1. StoreTypeOK /\ \A k \in Keys : ldb[k] = NoValue
  BY BucketAssumption DEF Init, StoreInit, StoreTypeOK, Blocks
<1>2. \A k \in Keys, v \in Values : ~Due(k, v)
  BY DEF Init, StoreInit, Due, Blocks
<1>3. KeyTypes
  BY <1>1, <1>2 DEF KeyTypes, Fits, Someone
<1>4. IsFiniteSet(net) /\ Cardinality(net) = 0 /\ net = {}
  BY FS_EmptySet DEF Init
<1>5. tasks \in Seq(Tasks) /\ Len(tasks) = 0
  BY EmptySeq DEF Init
<1>6. /\ keychain = {} /\ screen = "blank" /\ main = [at |-> "launch"] /\ chat = NoValue
      /\ answered = FALSE /\ sess = NoValue /\ loggedIn = FALSE /\ calm = TRUE
  BY DEF Init
<1>7. answered \in BOOLEAN /\ loggedIn \in BOOLEAN /\ calm \in BOOLEAN
  BY <1>6
<1>8. TypeOK
  BY <1>1, <1>4, <1>5, <1>6, <1>7, Handler, UserCenterAssumption DEF TypeOK, Someone
<1>9. StoresLogin
  BY <1>6 DEF StoresLogin
<1>10. QED
  BY <1>3, <1>4, <1>8, <1>9 DEF TInv

LEMMA LaunchTypes == ASSUME TInv, Launch PROVE TInv'
<1>1. main' = Idle /\ main'.at # "store" /\ UNCHANGED <<ldb, pending, keychain, tasks, chat, answered, sess, loggedIn, calm>>
  BY DEF Launch, Idle
<1>2. CASE curUser \in keychain /\ Send(net \cup {[op |-> "auto", acct |-> curUser]}) /\ UNCHANGED screen
  <2>1. [op |-> "auto", acct |-> curUser] \in Requests
    BY <1>2, TInvGives, RequestOf DEF LoginOps
  <2>2. NetOK'
    BY <1>2, <2>1, OneMoreRequest, TInvGives
  <2>3. QED
    BY <1>1, <1>2, <2>2, TInvGives, Handler, NothingWritten
<1>3. CASE screen' = "login" /\ UNCHANGED net
  <2>1. NetOK'
    BY <1>3, TInvGives DEF NetOK
  <2>2. QED
    BY <1>1, <1>3, <2>1, TInvGives, Handler, NothingWritten
<1>4. QED
  BY <1>2, <1>3 DEF Launch

\* One request goes out and nothing else changes of type.
LEMMA SendTypes ==
  ASSUME TInv, NEW r \in Requests, Send(net \cup {r}), UNCHANGED <<ldb, pending, keychain, screen, tasks, chat,
         answered, sess, loggedIn>>, main' \in MainStates, calm' \in BOOLEAN, main' = main \/ main'.at # "store"
  PROVE  TInv'
<1>1. NetOK'
  BY OneMoreRequest, TInvGives
<1>2. QED
  BY <1>1, TInvGives, NothingWritten

LEMMA LoginTapTypes == ASSUME TInv, NEW a \in Accounts, LoginTap(a) PROVE TInv'
<1>1. [op |-> "login", acct |-> a] \in Requests
  BY RequestOf DEF LoginOps
<1>2. QED
  BY <1>1, TInvGives, SendTypes DEF LoginTap

LEMMA ApiTapTypes == ASSUME TInv, ApiTap PROVE TInv'
  BY TInvGives, SendTypes, RequestOf DEF ApiTap

LEMMA ProfileTapTypes == ASSUME TInv, ProfileTap PROVE TInv'
<1>1. [op |-> "profile", acct |-> screen] \in Requests
  BY RequestOf DEF ProfileTap
<1>2. QED
  BY <1>1, TInvGives, SendTypes DEF ProfileTap

LEMMA ReadUserTypes == ASSUME TInv, ReadUser PROVE TInv'
<1>1. main' \in MainStates /\ main'.at # "store"
      /\ UNCHANGED <<ldb, pending, keychain, screen, tasks, net, chat, answered, sess, loggedIn>>
  BY TInvGives, Handler DEF ReadUser
<1>2. calm' \in BOOLEAN
  BY TInvGives, Zenon DEF ReadUser
<1>3. NetOK'
  BY <1>1, TInvGives DEF NetOK
<1>4. QED
  BY <1>1, <1>2, <1>3, TInvGives, NothingWritten

LEMMA RefreshTokenTypes == ASSUME TInv, RefreshToken PROVE TInv'
<1>1. [op |-> "refresh", acct |-> token] \in Requests
  BY TInvGives, RequestOf DEF RefreshToken, Someone
<1>2. calm' \in BOOLEAN
  BY TInvGives, Zenon DEF RefreshToken
<1>3. QED
  BY <1>1, <1>2, TInvGives, Handler, SendTypes DEF RefreshToken, Idle

LEMMA StorePasswordTypes == ASSUME TInv, StorePassword PROVE TInv'
<1> DEFINE a == main.req.acct
<1>1. /\ main.at = "store" /\ main.req \in Requests /\ UNCHANGED <<ldb, net, chat, sess, loggedIn, calm>>
      /\ main' = [at |-> "refreshUser"]
  BY TInvGives, Handler DEF StorePassword
<1>2. Dispatch({<<"logged", "YES">>}) /\ keychain' = keychain \cup {a}
  BY DEF StorePassword
<1>3. a \in Accounts
  BY <1>1, TInvGives, RequestOf DEF StoresLogin
<1>4. StoreTypeOK' /\ KeyTypes'
  <2>1. {<<"logged", "YES">>} \subseteq Blocks
    BY KeysAndValues DEF Blocks
  <2>2. \A k \in Keys, v \in Values : <<k, v>> \in {<<"logged", "YES">>} => Fits(k, v)
    BY KeysAndValues
  <2>3. QED
    BY <1>1, <1>2, <2>1, <2>2, DispatchTypes, TInvGives
<1>5. screen' \in {"blank", "login", "main"} \cup Accounts
  BY <1>3, TInvGives DEF StorePassword
<1>6. tasks' \in Seq(Tasks) /\ Len(tasks') <= MaxTasks
  <2>1. \/ Post("loginCompleted", a) \/ Post("logoutCompleted", NoValue) \/ UNCHANGED tasks
    BY DEF StorePassword
  <2>2. a \in Someone /\ NoValue \in Someone
    BY <1>3 DEF Someone
  <2>3. QED
    BY <2>1, <2>2, PostTypes, TInvGives
<1>7. answered' \in BOOLEAN
  BY TInvGives, Zenon DEF StorePassword
<1>8. NetOK' /\ main' \in MainStates /\ StoresLogin' /\ keychain' \subseteq Accounts
  BY <1>1, <1>2, <1>3, TInvGives, Handler DEF NetOK, StoresLogin
<1>9. QED
  BY <1>1, <1>4, <1>5, <1>6, <1>7, <1>8, TInvGives, StillTyped

\* Replies.

LEMMA LoginAnsweredTypes == ASSUME TInv, NEW r \in Requests, LoginAnswered(r) PROVE TInv'
<1>1. r \in net /\ r.op \in LoginOps /\ r.acct \in Accounts
  BY RequestOf DEF LoginAnswered
<1>2. /\ Dispatch({<<"info", r.acct>>, <<"token", r.acct>>}) /\ net' = net \ {r} /\ sess' = r.acct /\ loggedIn' \in BOOLEAN
      /\ UNCHANGED <<ldb, keychain, screen, tasks, chat, answered>>
      /\ \E c \in BOOLEAN : main' = [at |-> "store", req |-> r, complete |-> c]
      /\ calm' = (Quiet /\ net = {r} /\ tasks = <<>> /\ chat \in {NoValue, r.acct})
  BY DEF LoginAnswered
<1>3. StoreTypeOK' /\ KeyTypes'
  <2> DEFINE S == {<<"info", r.acct>>, <<"token", r.acct>>}
  <2>1. S \subseteq Blocks
    BY <1>1, KeysAndValues DEF Blocks
  <2>2. \A k \in Keys, v \in Values : <<k, v>> \in S => Fits(k, v)
    BY <1>1, KeysAndValues DEF Someone
  <2> HIDE DEF S
  <2>3. Dispatch(S)
    BY <1>2 DEF S
  <2>4. QED
    BY <1>2, <2>1, <2>2, <2>3, DispatchTypes, TInvGives
<1>4. NetOK'
  BY <1>2, FewerRequests, TInvGives
<1>5. main' \in MainStates /\ StoresLogin'
  BY <1>1, <1>2, Handler DEF StoresLogin
<1>6. calm' \in BOOLEAN
  BY <1>2, Zenon
<1>7. QED
  BY <1>1, <1>2, <1>3, <1>4, <1>5, <1>6, TInvGives, StillTyped DEF Someone

\* A step that hands over one write and does not touch the handler.
LEMMA OneWriteTypes ==
  ASSUME TInv, NEW k \in {"info", "token", "logged"}, NEW v \in Values, Fits(k, v), Dispatch({<<k, v>>}),
         UNCHANGED <<ldb, main, chat, answered, sess>>, NetOK', loggedIn' \in BOOLEAN, keychain' \subseteq Accounts,
         screen' \in {"blank", "login", "main"} \cup Accounts, tasks' \in Seq(Tasks), Len(tasks') <= MaxTasks,
         calm' \in BOOLEAN
  PROVE  TInv'
<1>1. k \in Keys /\ {<<k, v>>} \subseteq Blocks
  BY KeysAndValues DEF Blocks
<1>2. \A l \in Keys, w \in Values : <<l, w>> \in {<<k, v>>} => Fits(l, w)
  OBVIOUS
<1>3. StoreTypeOK' /\ KeyTypes'
  BY <1>1, <1>2, DispatchTypes, TInvGives
<1>4. StoresLogin'
  BY TInvGives DEF StoresLogin
<1>5. QED
  BY <1>3, <1>4, TInvGives, StillTyped

LEMMA LoginFailedTypes == ASSUME TInv, NEW r \in Requests, LoginFailed(r) PROVE TInv'
<1>1. /\ Dispatch({<<"logged", "NO">>}) /\ net' = net \ {r}
      /\ screen' \in {screen, "login"} /\ UNCHANGED <<ldb, keychain, main, chat, answered, sess>>
      /\ loggedIn' \in BOOLEAN
      /\ calm' = (calm /\ ~WriteOutstanding("logged"))
      /\ Post("logoutCompleted", NoValue) \/ UNCHANGED tasks
  BY DEF LoginFailed
<1>2. NetOK'
  BY <1>1, FewerRequests, TInvGives
<1>3. tasks' \in Seq(Tasks) /\ Len(tasks') <= MaxTasks
  BY <1>1, PostTypes, TInvGives DEF Someone
<1>4. calm' \in BOOLEAN
  BY <1>1, TInvGives, Zenon
<1>5. QED
  BY <1>1, <1>2, <1>3, <1>4, TInvGives, KeysAndValues, OneWriteTypes

LEMMA ReloginTypes == ASSUME TInv, NEW r \in Requests, ReloginAnswered(r) \/ ReloginFailed(r) PROVE TInv'
<1>1. /\ r.acct \in Accounts /\ net' = net \ {r} /\ loggedIn' \in BOOLEAN
      /\ UNCHANGED <<ldb, screen, main, tasks, chat, answered, sess>>
  BY RequestOf, TInvGives DEF ReloginAnswered, ReloginFailed
<1>2. NetOK'
  BY <1>1, FewerRequests, TInvGives
<1>3. CASE ReloginAnswered(r)
  <2>1. Dispatch({<<"token", r.acct>>}) /\ keychain' \subseteq Accounts /\ r.acct \in Values /\ Fits("token", r.acct)
    BY <1>1, <1>3, TInvGives, KeysAndValues DEF ReloginAnswered, Someone
  <2>2. calm' \in BOOLEAN
    BY <1>3, TInvGives, Zenon DEF ReloginAnswered
  <2>3. QED
    BY <1>1, <1>2, <2>1, <2>2, TInvGives, OneWriteTypes
<1>4. CASE ReloginFailed(r)
  <2>1. Dispatch({<<"logged", "NO">>}) /\ keychain' = keychain
    BY <1>4 DEF ReloginFailed
  <2>2. calm' \in BOOLEAN
    BY <1>4, TInvGives, Zenon DEF ReloginFailed
  <2>3. QED
    BY <1>1, <1>2, <2>1, <2>2, TInvGives, KeysAndValues, OneWriteTypes
<1>5. QED
  BY <1>3, <1>4

LEMMA PlainReplyTypes ==
  ASSUME TInv, NEW r \in Requests,
         LoginWithoutData(r) \/ ApiAnswered(r) \/ TokenExpired(r) \/ RefreshAnswered(r)
  PROVE  TInv'
<1>1. r \in net /\ UNCHANGED <<ldb, pending, keychain, screen, main, tasks, sess, loggedIn>>
  BY DEF LoginWithoutData, ApiAnswered, TokenExpired, RefreshAnswered
<1>2. NetOK'
  <2>1. CASE net' = net \ {r}
    BY <2>1, FewerRequests, TInvGives
  <2>2. CASE TokenExpired(r)
    <3>1. [op |-> "relogin", acct |-> curUser] \in Requests
      BY <2>2, TInvGives, RequestOf DEF TokenExpired
    <3>2. net' = (net \ {r}) \cup {[op |-> "relogin", acct |-> curUser]}
      BY <2>2 DEF TokenExpired, Send
    <3>3. QED
      BY <1>1, <3>1, <3>2, OneForAnother, TInvGives
  <2>3. QED
    BY <2>1, <2>2 DEF LoginWithoutData, ApiAnswered, RefreshAnswered
<1>3. answered' \in BOOLEAN /\ calm' \in BOOLEAN
  BY TInvGives, Zenon DEF LoginWithoutData, ApiAnswered, TokenExpired, RefreshAnswered
<1>4. chat' \in Someone
  <2>1. RefreshAnswered(r) => r.acct \in Someone
    BY RequestOf DEF RefreshAnswered, Someone
  <2>2. QED
    BY <2>1, TInvGives DEF LoginWithoutData, ApiAnswered, TokenExpired, RefreshAnswered
<1>5. QED
  BY <1>1, <1>2, <1>3, <1>4, TInvGives, NothingWritten

LEMMA ProfileAnsweredTypes == ASSUME TInv, NEW r \in Requests, ProfileAnswered(r) PROVE TInv'
<1>1. /\ r \in net /\ r.acct \in Accounts
      /\ UNCHANGED <<ldb, keychain, screen, main, tasks, chat, answered, sess, loggedIn>>
  BY RequestOf DEF ProfileAnswered
<1>2. CASE /\ Dispatch({<<"info", r.acct>>})
           /\ net' = (net \ {r}) \cup {[op |-> "reglogin", acct |-> r.acct]}
           /\ calm' = (calm /\ sess = r.acct /\ ~WriteOutstanding("info"))
  <2>1. [op |-> "reglogin", acct |-> r.acct] \in Requests /\ r.acct \in Values /\ Fits("info", r.acct)
    BY <1>1, RequestOf, KeysAndValues DEF LoginOps, Someone
  <2>2. NetOK'
    BY <1>1, <1>2, <2>1, OneForAnother, TInvGives
  <2>3. calm' \in BOOLEAN
    BY <1>2, TInvGives, Zenon
  <2>4. QED
    BY <1>1, <1>2, <2>1, <2>2, <2>3, TInvGives, OneWriteTypes
<1>3. CASE net' = net \ {r} /\ UNCHANGED <<pending, calm>>
  <2>1. NetOK'
    BY <1>3, FewerRequests, TInvGives
  <2>2. QED
    BY <1>1, <1>3, <2>1, TInvGives, NothingWritten
<1>4. QED
  BY <1>2, <1>3 DEF ProfileAnswered

LEMMA EditAnsweredTypes == ASSUME TInv, NEW r \in Requests, EditAnswered(r) PROVE TInv'
<1>1. /\ Dispatch({<<"info", curUser>>}) /\ net' = net \ {r}
      /\ UNCHANGED <<ldb, keychain, screen, main, tasks, chat, answered, sess, loggedIn>>
      /\ calm' = (calm /\ ~WriteOutstanding("info"))
  BY DEF EditAnswered
<1>2. NetOK'
  BY <1>1, FewerRequests, TInvGives
<1>3. calm' \in BOOLEAN
  BY <1>1, TInvGives, Zenon
<1>4. curUser \in Values /\ Fits("info", curUser)
  BY TInvGives, KeysAndValues
<1>5. QED
  BY <1>1, <1>2, <1>3, <1>4, TInvGives, OneWriteTypes

\* The rest.

LEMMA LogoutTypes == ASSUME TInv, Logout PROVE TInv'
<1> DEFINE S == {<<"info", NoValue>>, <<"logged", "NO">>, <<"token", NoValue>>}
<1>1. S \subseteq Blocks /\ \A k \in Keys, v \in Values : <<k, v>> \in S => Fits(k, v)
  BY KeysAndValues DEF Blocks, Someone
<1>2. Dispatch(S) /\ UNCHANGED <<ldb, keychain, screen, main, net, answered>> /\ chat' = NoValue /\ sess' = NoValue
      /\ loggedIn' \in BOOLEAN /\ Post("logoutCompleted", NoValue)
  BY DEF Logout
<1> HIDE DEF S
<1>3. StoreTypeOK' /\ KeyTypes'
  BY <1>1, <1>2, DispatchTypes, TInvGives
<1>4. calm' \in BOOLEAN
  BY Zenon DEF Logout
<1>5. NoValue \in Someone
  BY DEF Someone
<1>6. tasks' \in Seq(Tasks) /\ Len(tasks') <= MaxTasks
  BY <1>2, <1>5, PostTypes, TInvGives
<1>7. NetOK' /\ StoresLogin'
  BY <1>2, TInvGives DEF NetOK, StoresLogin
<1>8. QED
  BY <1>2, <1>3, <1>4, <1>5, <1>6, <1>7, TInvGives, StillTyped

LEMMA RunTaskTypes == ASSUME TInv, RunTask PROVE TInv'
<1>1. /\ tasks # <<>> /\ tasks' = Tail(tasks) /\ UNCHANGED <<ldb, keychain, main, net, chat, answered, sess, loggedIn, calm>>
      /\ screen' \in {"main", "login"}
      /\ \/ Head(tasks).do = "loginCompleted" /\ Dispatch({<<"token", Head(tasks).acct>>})
         \/ UNCHANGED pending
  BY DEF RunTask
<1>2. /\ Head(tasks) \in Tasks /\ Tail(tasks) \in Seq(Tasks) /\ Len(Tail(tasks)) = Len(tasks) - 1
      /\ Len(tasks) \in Nat
  BY <1>1, TInvGives, HeadTailProperties, LenProperties
<1>3. tasks' \in Seq(Tasks) /\ Len(tasks') <= MaxTasks
  BY <1>1, <1>2, TInvGives, UserCenterAssumption
<1>4. NetOK'
  BY <1>1, TInvGives DEF NetOK
<1>5. Head(tasks).acct \in Values /\ Fits("token", Head(tasks).acct)
  BY <1>2, KeysAndValues DEF Tasks
<1>6. CASE Dispatch({<<"token", Head(tasks).acct>>})
  BY <1>1, <1>3, <1>4, <1>5, <1>6, TInvGives, OneWriteTypes
<1>7. CASE UNCHANGED pending
  <2>1. StoreTypeOK' /\ KeyTypes' /\ StoresLogin'
    BY <1>1, <1>7, TInvGives DEF StoreTypeOK, Blocks, KeyTypes, Due, StoresLogin
  <2>2. QED
    BY <1>1, <1>3, <1>4, <2>1, TInvGives, StillTyped
<1>8. QED
  BY <1>1, <1>6, <1>7

LEMMA RunWriteTypes == ASSUME TInv, NEW k \in Keys, NEW v \in Values, RunWrite(k, v) PROVE TInv'
<1>1. RunBlock(k, v) /\ UNCHANGED <<keychain, screen, main, tasks, net, chat, answered, sess, loggedIn, calm>>
  BY DEF RunWrite, ucVars
<1>2. NetOK' /\ StoresLogin'
  BY <1>1, TInvGives DEF NetOK, StoresLogin
<1>3. QED
  BY <1>1, <1>2, TInvGives, RunTypes, StillTyped

LEMMA RelaunchTypes == ASSUME TInv, Relaunch PROVE TInv'
<1>1. /\ LoseBlocks /\ screen' = "blank" /\ main' = [at |-> "launch"] /\ tasks' = <<>> /\ net' = {}
      /\ chat' = NoValue /\ answered' = FALSE /\ UNCHANGED <<keychain, sess, loggedIn>>
  BY DEF Relaunch
<1>2. NetOK'
  BY <1>1, FewerRequests, TInvGives
<1>3. tasks' \in Seq(Tasks) /\ Len(tasks') <= MaxTasks
  BY <1>1, EmptySeq, UserCenterAssumption
<1>4. answered' \in BOOLEAN /\ calm' \in BOOLEAN
  BY TInvGives, Zenon DEF Relaunch
<1>5. main' \in MainStates /\ StoresLogin'
  BY <1>1, Handler DEF StoresLogin
<1>6. QED
  BY <1>1, <1>2, <1>3, <1>4, <1>5, TInvGives, LoseTypes, StillTyped DEF Someone

LEMMA TypesStep == TInv /\ [Next]_vars => TInv'
<1> SUFFICES ASSUME TInv, [Next]_vars PROVE TInv'
  OBVIOUS
<1>1. CASE MainStep
  BY <1>1, LaunchTypes, StorePasswordTypes, ReadUserTypes, RefreshTokenTypes DEF MainStep
<1>2. ASSUME NEW r \in Requests, Reply(r) PROVE TInv'
  BY <1>2, LoginAnsweredTypes, LoginFailedTypes, ReloginTypes, PlainReplyTypes, EditAnsweredTypes,
     ProfileAnsweredTypes DEF Reply
<1>3. CASE LogoutTap \/ KickedOffline
  BY <1>3, LogoutTypes DEF LogoutTap, KickedOffline
<1>4. CASE Die \/ NilCrash
  BY <1>4, RelaunchTypes DEF Die, NilCrash
<1>5. CASE UNCHANGED vars
  <2>1. UNCHANGED <<ldb, pending, keychain, screen, main, tasks, net, chat, answered, sess, loggedIn, calm>>
    BY <1>5 DEF vars
  <2>2. NetOK'
    BY <2>1, TInvGives DEF NetOK
  <2>3. QED
    BY <2>1, <2>2, TInvGives, NothingWritten
<1>6. QED
  BY <1>1, <1>2, <1>3, <1>4, <1>5, RunTaskTypes, LoginTapTypes, ApiTapTypes, ProfileTapTypes, RunWriteTypes
  DEF Next

LEMMA TypesHold == Spec => []TInv
  BY TypesInit, TypesStep, PTL DEF Spec

\* The bucket, the session, the main queue and the requests are of their
\* types, for any accounts, and every key holds what belongs under it.
THEOREM SessionTypes == Spec => []TypeOK
<1>1. TInv => TypeOK
  BY DEF TInv
<1>2. QED
  BY <1>1, TypesHold, PTL

-----------------------------------------------------------------------------
(* The calm session.                                                       *)

\* Whatever is due under k is the session's, and it is there or due.
Follows(k) ==
    /\ \A v \in Values : Due(k, v) => v = sess
    /\ ldb[k] = sess \/ Due(k, sess)

\* The login flag: what is due under it agrees with the last login, and so
\* does what is there, unless it is due or about to be handed over.
Flag == IF loggedIn THEN "YES" ELSE "NO"

Marks(at) ==
    /\ \A v \in Values : Due("logged", v) => v = Flag
    /\ at = "store" \/ Due("logged", Flag) \/ (loggedIn <=> ldb["logged"] = "YES")

\* What is stored and due belongs to the session.
Stored ==
    /\ Follows("info") /\ Follows("token")
    /\ Marks(main.at)

\* So does what is in flight, posted and in the handler's hands.
Bound ==
    /\ \A r \in net : r.op \in {"refresh", "relogin"} => r.acct = sess
    /\ \A i \in 1..Len(tasks) : tasks[i].do = "loginCompleted" => tasks[i].acct = sess
    /\ chat \in {NoValue, sess}
    /\ main.at = "refreshToken" => main.user = sess

CInv ==
    /\ main.at = "store" => main.req.acct = sess /\ loggedIn
    /\ calm => /\ Stored /\ Bound
               /\ sess # NoValue => sess \in keychain \/ main.at = "store"

\* What has been handed over has run: the store is the session's.
LEMMA CalmStore ==
  ASSUME TInv, CInv, calm
  PROVE  /\ ~WriteOutstanding("info") => curUser = sess
         /\ ~WriteOutstanding("token") => token = sess
         /\ ~WriteOutstanding("logged") /\ main.at # "store" => (isLogged <=> loggedIn)
<1>1. sess \in Values /\ Flag \in Values
  BY TInvGives, KeysAndValues DEF Flag
<1>2. Follows("info") /\ Follows("token") /\ Marks(main.at)
  BY DEF CInv, Stored
<1>3. QED
  BY <1>1, <1>2 DEF Follows, Marks, Due, WriteOutstanding, curUser, token, isLogged, Item

\* A quiet store has nothing due.
LEMMA QuietDue == Quiet => \A k \in Keys, v \in Values : ~Due(k, v)
  BY DEF Quiet, WriteOutstanding, Due

LEMMA CInvInit == Init => CInv
<1> SUFFICES ASSUME Init PROVE CInv
  OBVIOUS
<1>1. (\A k \in Keys, v \in Values : ~Due(k, v)) /\ \A k \in Keys : ldb[k] = NoValue
  BY DEF Init, StoreInit, Due, Blocks
<1>2. Stored
  BY <1>1, KeysAndValues DEF Stored, Follows, Marks, Flag, Init
<1>3. Len(tasks) = 0
  BY EmptySeq DEF Init
<1>4. QED
  BY <1>2, <1>3 DEF CInv, Bound, Init

\* The store stays the session's when what is handed over is, and the flag
\* is handed over whenever the last login no longer stands as it did.
LEMMA StoredStays ==
  ASSUME TInv, Stored, UNCHANGED <<ldb, sess>>, NEW S, Dispatch(S),
         \A k \in Keys, v \in Values : <<k, v>> \in S =>
            (k \in {"info", "token"} /\ v = sess) \/ (k = "logged" /\ v = Flag'),
         \/ UNCHANGED loggedIn /\ (main.at = "store" => main'.at = "store")
         \/ <<"logged", Flag'>> \in S /\ (UNCHANGED loggedIn \/ ~WriteOutstanding("logged"))
  PROVE  Stored'
<1>1. \A k \in Keys, v \in Values : Due(k, v)' <=> Due(k, v) \/ <<k, v>> \in S
  BY DispatchDue, TInvGives
<1>2. sess \in Values /\ Flag \in Values /\ Flag' \in Values /\ "logged" \in Keys
  BY TInvGives, KeysAndValues DEF Flag
<1>3. ASSUME NEW k \in {"info", "token"} PROVE Follows(k)'
  <2>1. k \in Keys /\ Follows(k) /\ k # "logged"
    BY KeysAndValues DEF Stored
  <2>2. \A v \in Values : Due(k, v)' => v = sess
    BY <1>1, <2>1 DEF Follows
  <2>3. ldb[k] = sess \/ Due(k, sess)'
    BY <1>1, <1>2, <2>1 DEF Follows
  <2>4. QED
    BY <2>2, <2>3 DEF Follows
<1>4. UNCHANGED loggedIn => Flag' = Flag
  BY DEF Flag
<1>5. Marks(main.at)
  BY DEF Stored
<1>6. ASSUME NEW v \in Values, Due("logged", v)' PROVE v = Flag'
  <2>1. CASE <<"logged", v>> \in S
    BY <1>2, <2>1
  <2>2. CASE Due("logged", v)
    <3>1. WriteOutstanding("logged")
      BY <2>2 DEF WriteOutstanding, Due
    <3>2. v = Flag
      BY <1>5, <2>2 DEF Marks
    <3>3. QED
      BY <1>4, <3>1, <3>2
  <2>3. QED
    BY <1>1, <1>2, <1>6, <2>1, <2>2
<1>7. main'.at = "store" \/ Due("logged", Flag)' \/ (loggedIn' <=> ldb'["logged"] = "YES")
  <2>1. CASE <<"logged", Flag'>> \in S
    BY <1>1, <1>2, <2>1
  <2>2. CASE UNCHANGED loggedIn /\ (main.at = "store" => main'.at = "store")
    BY <1>1, <1>2, <1>4, <1>5, <2>2, Zenon DEF Marks
  <2>3. QED
    BY <2>1, <2>2
<1>8. Marks(main.at)'
  BY <1>6, <1>7 DEF Marks
<1>9. QED
  BY <1>3, <1>8 DEF Stored

LEMMA StoredUnmoved ==
  ASSUME Stored, UNCHANGED <<ldb, pending, sess, loggedIn>>, main.at = "store" => main'.at = "store"
  PROVE  Stored'
<1>1. /\ \A k, v : Due(k, v)' <=> Due(k, v)
      /\ Flag' = Flag
  BY DEF Due, Flag
<1>2. Marks(main.at)'
  BY <1>1 DEF Stored, Marks
<1>3. QED
  BY <1>1, <1>2 DEF Stored, Follows

\* A write of the session's runs.
LEMMA StoredRuns ==
  ASSUME TInv, Stored, NEW k \in Keys, NEW v \in Values, RunBlock(k, v), UNCHANGED <<sess, loggedIn, main>>
  PROVE  Stored'
<1>1. /\ Due(k, v) /\ ldb' = [ldb EXCEPT ![k] = v]
      /\ \A l \in Keys, w \in Values : /\ Due(l, w)' => Due(l, w)
                                       /\ Due(l, w) /\ <<l, w>> # <<k, v>> => Due(l, w)'
  BY RunDue, TInvGives
<1>2. sess \in Values /\ ldb \in [Keys -> Values] /\ Flag \in Values /\ Flag' = Flag
  BY TInvGives, KeysAndValues DEF StoreTypeOK, Flag
<1>3. ASSUME NEW l \in {"info", "token"} PROVE Follows(l)'
  <2>1. l \in Keys /\ Follows(l)
    BY KeysAndValues DEF Stored
  <2>2. CASE l = k
    BY <1>1, <1>2, <2>1, <2>2 DEF Follows
  <2>3. CASE l # k
    BY <1>1, <1>2, <2>1, <2>3 DEF Follows
  <2>4. QED
    BY <2>2, <2>3
<1>4. Marks(main.at) /\ "logged" \in Keys
  BY KeysAndValues DEF Stored
<1>5. \A w \in Values : Due("logged", w)' => w = Flag
  BY <1>1, <1>4 DEF Marks
<1>6. main.at = "store" \/ Due("logged", Flag)' \/ (loggedIn <=> ldb'["logged"] = "YES")
  <2>1. CASE k = "logged"
    <3>1. ldb'["logged"] = Flag
      BY <1>1, <1>2, <1>4, <2>1 DEF Marks
    <3>2. QED
      BY <3>1 DEF Flag
  <2>2. CASE k # "logged"
    <3>1. ldb'["logged"] = ldb["logged"] /\ (Due("logged", Flag) => Due("logged", Flag)')
      BY <1>1, <1>2, <1>4, <2>2
    <3>2. QED
      BY <1>4, <3>1, Zenon DEF Marks
  <2>3. QED
    BY <2>1, <2>2
<1>7. Marks(main.at)'
  BY <1>2, <1>5, <1>6 DEF Marks
<1>8. QED
  BY <1>3, <1>7 DEF Stored

\* Steps that store nothing and keep the session.
LEMMA NothingStored ==
  ASSUME TInv, CInv, UNCHANGED <<ldb, pending, sess, loggedIn, keychain, tasks>>,
         main' = main \/ (main.at # "store" /\ main'.at # "store"), calm' => calm,
         calm' /\ calm => /\ \A r \in net' : r.op \in {"refresh", "relogin"} => r \in net \/ r.acct = sess
                          /\ chat' \in {NoValue, sess}
                          /\ main'.at = "refreshToken" => main' = main \/ main'.user = sess
  PROVE  CInv'
<1>1. main'.at = "store" => main'.req.acct = sess' /\ loggedIn'
  BY DEF CInv
<1>2. ASSUME calm' PROVE Stored' /\ Bound' /\ (sess' # NoValue => sess' \in keychain' \/ main'.at = "store")
  <2>1. calm /\ Stored /\ Bound /\ (sess # NoValue => sess \in keychain \/ main.at = "store")
    BY <1>2 DEF CInv
  <2>2. Stored'
    BY <2>1, StoredUnmoved
  <2>3. Bound'
    BY <1>2, <2>1 DEF Bound
  <2>4. QED
    BY <2>1, <2>2, <2>3
<1>3. QED
  BY <1>1, <1>2 DEF CInv

\* Steps that hand over one write of the session's.
LEMMA OneStored ==
  ASSUME TInv, CInv, NEW k, NEW v, Dispatch({<<k, v>>}), UNCHANGED <<ldb, sess, main, chat>>,
         main.at = "idle", calm' => calm,
         calm' /\ calm => \/ k \in {"info", "token"} /\ v = sess /\ UNCHANGED loggedIn
                          \/ k = "logged" /\ v = Flag' /\ ~WriteOutstanding("logged"),
         keychain \subseteq keychain',
         \A r \in net' : r.op \in {"refresh", "relogin"} => r \in net,
         \A i \in 1..Len(tasks') : tasks'[i].do = "loginCompleted" => \E j \in 1..Len(tasks) : tasks[j] = tasks'[i]
  PROVE  CInv'
<1>1. main'.at = "store" => main'.req.acct = sess' /\ loggedIn'
  BY DEF CInv
<1>2. ASSUME calm' PROVE Stored' /\ Bound' /\ (sess' # NoValue => sess' \in keychain' \/ main'.at = "store")
  <2>1. calm /\ Stored /\ Bound /\ (sess # NoValue => sess \in keychain)
    BY <1>2 DEF CInv
  <2>2. \A l \in Keys, w \in Values : <<l, w>> \in {<<k, v>>} =>
            (l \in {"info", "token"} /\ w = sess) \/ (l = "logged" /\ w = Flag')
    BY <1>2, <2>1
  <2>3. UNCHANGED loggedIn \/ (<<"logged", Flag'>> \in {<<k, v>>} /\ ~WriteOutstanding("logged"))
    BY <1>2, <2>1
  <2>4. Stored'
    BY <2>1, <2>2, <2>3, StoredStays
  <2>5. Bound'
    BY <2>1 DEF Bound
  <2>6. QED
    BY <2>1, <2>4, <2>5
<1>3. QED
  BY <1>1, <1>2 DEF CInv

\* A block behind the others, or one less, adds none that shows the main screen.
LEMMA PostedSignOut ==
  ASSUME tasks \in Seq(Tasks), UNCHANGED tasks \/ Post("logoutCompleted", NoValue)
  PROVE  \A i \in 1..Len(tasks') : tasks'[i].do = "loginCompleted" => \E j \in 1..Len(tasks) : tasks[j] = tasks'[i]
<1>1. CASE Post("logoutCompleted", NoValue)
  <2> DEFINE t == [do |-> "logoutCompleted", acct |-> NoValue]
  <2>1. t \in Tasks /\ tasks' = Append(tasks, t) /\ t.do = "logoutCompleted"
    BY <1>1 DEF Post, Tasks, Someone
  <2> HIDE DEF t
  <2>2. /\ Len(tasks') = Len(tasks) + 1 /\ Len(tasks) \in Nat /\ tasks'[Len(tasks) + 1] = t
        /\ \A i \in 1..Len(tasks) : tasks'[i] = tasks[i]
    BY <2>1, AppendProperties, LenProperties
  <2>3. QED
    BY <2>1, <2>2
<1>2. QED
  BY <1>1

LEMMA TailOf ==
  ASSUME tasks \in Seq(Tasks), tasks # <<>>, tasks' = Tail(tasks)
  PROVE  /\ \A i \in 1..Len(tasks') : \E j \in 1..Len(tasks) : tasks[j] = tasks'[i]
         /\ 1 \in 1..Len(tasks) /\ Head(tasks) = tasks[1]
<1>1. /\ Len(tasks') = Len(tasks) - 1 /\ Len(tasks) \in Nat /\ Len(tasks) >= 1 /\ Head(tasks) = tasks[1]
      /\ \A i \in 1..Len(tasks') : tasks'[i] = tasks[i + 1]
  BY HeadTailProperties, LenProperties, EmptySeq
<1>2. QED
  BY <1>1

-----------------------------------------------------------------------------
LEMMA LoginAnsweredCalm == ASSUME TInv, CInv, NEW r \in Requests, LoginAnswered(r) PROVE CInv'
<1> DEFINE S == {<<"info", r.acct>>, <<"token", r.acct>>}
<1>1. /\ r.op \in LoginOps /\ r.acct \in Accounts /\ r.acct \in Values
      /\ Dispatch(S) /\ net' = net \ {r} /\ sess' = r.acct /\ loggedIn' = TRUE
      /\ UNCHANGED <<ldb, keychain, tasks, chat>>
      /\ \E c \in BOOLEAN : main' = [at |-> "store", req |-> r, complete |-> c]
  BY RequestOf, KeysAndValues DEF LoginAnswered
<1>2. main'.at = "store" /\ main'.req = r
  BY <1>1
<1>3. ASSUME calm' PROVE Stored' /\ Bound'
  <2>1. Quiet /\ net = {r} /\ tasks = <<>> /\ chat \in {NoValue, r.acct}
    BY <1>3, Zenon DEF LoginAnswered
  <2>2. \A k \in Keys, v \in Values : Due(k, v)' <=> <<k, v>> \in S
    <3>1. \A k \in Keys, v \in Values : ~Due(k, v)
      BY <2>1, QuietDue
    <3>2. Dispatch(S) /\ StoreTypeOK
      BY <1>1, TInvGives
    <3> HIDE DEF S
    <3>3. \A k \in Keys, v \in Values : Due(k, v)' <=> Due(k, v) \/ <<k, v>> \in S
      BY <3>2, DispatchDue
    <3>4. QED
      BY <3>1, <3>3
  <2>3. Stored'
    BY <1>1, <1>2, <2>2, KeysAndValues DEF Stored, Follows, Marks
  <2>4. Len(tasks') = 0
    BY <1>1, <2>1, EmptySeq
  <2>5. Bound'
    BY <1>1, <1>2, <2>1, <2>4 DEF Bound
  <2>6. QED
    BY <2>3, <2>5
<1>4. QED
  BY <1>1, <1>2, <1>3 DEF CInv

LEMMA LogoutCalm == ASSUME TInv, CInv, main.at = "idle", Logout PROVE CInv'
<1> DEFINE S == {<<"info", NoValue>>, <<"logged", "NO">>, <<"token", NoValue>>}
<1>1. /\ Dispatch(S) /\ UNCHANGED <<ldb, main, net>> /\ chat' = NoValue /\ sess' = NoValue
      /\ loggedIn' = FALSE /\ Post("logoutCompleted", NoValue)
  BY DEF Logout
<1>2. ASSUME calm' PROVE Stored' /\ Bound'
  <2>1. Quiet /\ net = {} /\ tasks = <<>>
    BY <1>2, Zenon DEF Logout
  <2>2. \A k \in Keys, v \in Values : Due(k, v)' <=> <<k, v>> \in S
    <3>1. \A k \in Keys, v \in Values : ~Due(k, v)
      BY <2>1, QuietDue
    <3>2. Dispatch(S) /\ StoreTypeOK
      BY <1>1, TInvGives
    <3> HIDE DEF S
    <3>3. \A k \in Keys, v \in Values : Due(k, v)' <=> Due(k, v) \/ <<k, v>> \in S
      BY <3>2, DispatchDue
    <3>4. QED
      BY <3>1, <3>3
  <2>3. Stored'
    BY <1>1, <2>2, KeysAndValues DEF Stored, Follows, Marks, Flag
  <2>4. \A i \in 1..Len(tasks') : tasks'[i].do # "loginCompleted"
    <3>1. Len(tasks) = 0
      BY <2>1, EmptySeq
    <3>2. QED
      BY <1>1, <3>1, PostedSignOut, TInvGives
  <2>5. Bound'
    BY <1>1, <2>1, <2>4 DEF Bound
  <2>6. QED
    BY <2>3, <2>5
<1>3. QED
  BY <1>1, <1>2 DEF CInv

LEMMA StorePasswordCalm == ASSUME TInv, CInv, StorePassword PROVE CInv'
<1> DEFINE a == main.req.acct
<1>1. /\ main.at = "store" /\ UNCHANGED <<ldb, net, chat, sess, loggedIn, calm>> /\ main' = [at |-> "refreshUser"]
      /\ keychain' = keychain \cup {a} /\ Dispatch({<<"logged", "YES">>})
  BY DEF StorePassword
<1>2. a = sess /\ a \in Accounts /\ sess # NoValue /\ loggedIn
  BY <1>1, TInvGives, Handler, RequestOf, KeysAndValues DEF CInv, StoresLogin
<1>3. main'.at = "refreshUser"
  BY <1>1
<1>4. ASSUME calm' PROVE Stored' /\ Bound'
  <2>1. Stored /\ Bound
    BY <1>1, <1>4, Zenon DEF CInv
  <2>2. \A k \in Keys, v \in Values : <<k, v>> \in {<<"logged", "YES">>} =>
            (k \in {"info", "token"} /\ v = sess) \/ (k = "logged" /\ v = Flag')
    BY <1>1, <1>2 DEF Flag
  <2>3. Stored'
    BY <1>1, <1>2, <2>1, <2>2, StoredStays DEF Flag
  <2>4. \A i \in 1..Len(tasks') : tasks'[i].do = "loginCompleted" => tasks'[i].acct = sess
    <3>1. CASE Post("loginCompleted", a)
      <4> DEFINE t == [do |-> "loginCompleted", acct |-> a]
      <4>1. t \in Tasks /\ tasks' = Append(tasks, t) /\ t.acct = sess
        BY <1>2, <3>1 DEF Post, Tasks, Someone
      <4> HIDE DEF t
      <4>2. /\ Len(tasks') = Len(tasks) + 1 /\ Len(tasks) \in Nat /\ tasks'[Len(tasks) + 1] = t
            /\ \A i \in 1..Len(tasks) : tasks'[i] = tasks[i]
        BY <4>1, TInvGives, AppendProperties, LenProperties
      <4>3. QED
        BY <2>1, <4>1, <4>2 DEF Bound
    <3>2. CASE UNCHANGED tasks \/ Post("logoutCompleted", NoValue)
      <4>1. \A i \in 1..Len(tasks') : tasks'[i].do = "loginCompleted" => \E j \in 1..Len(tasks) : tasks[j] = tasks'[i]
        BY <3>2, PostedSignOut, TInvGives
      <4>2. QED
        BY <2>1, <4>1 DEF Bound
    <3>3. QED
      BY <3>1, <3>2 DEF StorePassword
  <2>5. Bound'
    BY <1>1, <1>3, <2>1, <2>4 DEF Bound
  <2>6. QED
    BY <2>3, <2>5
<1>5. QED
  BY <1>1, <1>2, <1>3, <1>4 DEF CInv

LEMMA ReadUserCalm == ASSUME TInv, CInv, ReadUser PROVE CInv'
<1>1. /\ main.at = "refreshUser" /\ main' = [at |-> "refreshToken", user |-> curUser]
      /\ UNCHANGED <<ldb, pending, keychain, tasks, net, chat, sess, loggedIn>>
  BY DEF ReadUser
<1>2. calm' => calm /\ ~WriteOutstanding("info")
  BY Zenon DEF ReadUser
<1>3. calm => chat \in {NoValue, sess}
  BY DEF CInv, Bound
<1>4. main'.at = "refreshToken" /\ main'.user = curUser
  BY <1>1
<1>5. QED
  BY <1>1, <1>2, <1>3, <1>4, CalmStore, NothingStored

LEMMA RefreshTokenCalm == ASSUME TInv, CInv, RefreshToken PROVE CInv'
<1>1. /\ main.at = "refreshToken" /\ main' = Idle /\ net' = net \cup {[op |-> "refresh", acct |-> token]}
      /\ UNCHANGED <<ldb, pending, keychain, tasks, chat, sess, loggedIn>>
  BY DEF RefreshToken, Send
<1>2. calm' => calm /\ ~WriteOutstanding("token")
  BY Zenon DEF RefreshToken
<1>3. calm => chat \in {NoValue, sess}
  BY DEF CInv, Bound
<1>4. main'.at = "idle"
  BY <1>1 DEF Idle
<1>5. calm' => token = sess
  BY <1>2, CalmStore
<1>6. QED
  BY <1>1, <1>2, <1>3, <1>4, <1>5, NothingStored

\* Nothing of the session moves but a request that is none of its replies.
LEMMA QuietCalm ==
  ASSUME TInv, CInv, UNCHANGED <<ldb, pending, sess, loggedIn, keychain, tasks, chat, calm>>,
         main' = main \/ (main.at # "store" /\ main'.at = "idle"),
         \A r \in net' : r.op \in {"refresh", "relogin"} => r \in net
  PROVE  CInv'
<1>1. calm => chat \in {NoValue, sess}
  BY DEF CInv, Bound
<1>2. QED
  BY <1>1, NothingStored

LEMMA LaunchCalm == ASSUME TInv, CInv, Launch PROVE CInv'
  BY QuietCalm DEF Launch, Idle, Send

LEMMA TapCalm ==
  ASSUME TInv, CInv, ApiTap \/ ProfileTap \/ (\E a \in Accounts : LoginTap(a))
  PROVE  CInv'
<1>1. ASSUME ApiTap \/ ProfileTap PROVE CInv'
  BY <1>1, QuietCalm DEF ApiTap, ProfileTap, Send
<1>2. ASSUME NEW a \in Accounts, LoginTap(a) PROVE CInv'
  BY <1>2, QuietCalm DEF LoginTap, Send
<1>3. QED
  BY <1>1, <1>2

LEMMA PlainReplyCalm == ASSUME TInv, CInv, NEW r \in Requests, LoginWithoutData(r) \/ ApiAnswered(r) PROVE CInv'
  BY QuietCalm DEF LoginWithoutData, ApiAnswered

LEMMA TokenExpiredCalm == ASSUME TInv, CInv, NEW r \in Requests, TokenExpired(r) PROVE CInv'
<1>1. /\ net' = (net \ {r}) \cup {[op |-> "relogin", acct |-> curUser]}
      /\ UNCHANGED <<ldb, pending, keychain, main, tasks, chat, sess, loggedIn>>
  BY DEF TokenExpired, Send
<1>2. calm' => calm /\ ~WriteOutstanding("info")
  BY Zenon DEF TokenExpired
<1>3. calm => chat \in {NoValue, sess}
  BY DEF CInv, Bound
<1>4. calm' => curUser = sess
  BY <1>2, CalmStore
<1>5. QED
  BY <1>1, <1>2, <1>3, <1>4, NothingStored

LEMMA RefreshAnsweredCalm == ASSUME TInv, CInv, NEW r \in Requests, RefreshAnswered(r) PROVE CInv'
<1>1. /\ r \in net /\ r.op = "refresh" /\ net' = net \ {r} /\ chat' \in {chat, r.acct}
      /\ UNCHANGED <<ldb, pending, keychain, main, tasks, sess, loggedIn, calm>>
  BY DEF RefreshAnswered
<1>2. calm => chat \in {NoValue, sess} /\ r.acct = sess
  BY <1>1 DEF CInv, Bound
<1>3. QED
  BY <1>1, <1>2, NothingStored

LEMMA LoginFailedCalm == ASSUME TInv, CInv, NEW r \in Requests, LoginFailed(r) PROVE CInv'
<1>1. /\ main.at = "idle" /\ Dispatch({<<"logged", "NO">>}) /\ net' = net \ {r}
      /\ UNCHANGED <<ldb, keychain, main, chat, sess>> /\ loggedIn' = FALSE
      /\ UNCHANGED tasks \/ Post("logoutCompleted", NoValue)
  BY DEF LoginFailed
<1>2. calm' => calm /\ ~WriteOutstanding("logged")
  BY Zenon DEF LoginFailed
<1>3. Flag' = "NO"
  BY <1>1 DEF Flag
<1>4. QED
  BY <1>1, <1>2, <1>3, PostedSignOut, TInvGives, OneStored

LEMMA ReloginCalm == ASSUME TInv, CInv, NEW r \in Requests, ReloginAnswered(r) \/ ReloginFailed(r) PROVE CInv'
<1>1. /\ main.at = "idle" /\ r \in net /\ r.op = "relogin" /\ net' = net \ {r}
      /\ UNCHANGED <<ldb, main, tasks, chat, sess>> /\ keychain \subseteq keychain'
  BY DEF ReloginAnswered, ReloginFailed
<1>2. calm => r.acct = sess
  BY <1>1 DEF CInv, Bound
<1>3. CASE ReloginAnswered(r)
  <2>1. Dispatch({<<"token", r.acct>>}) /\ UNCHANGED loggedIn
    BY <1>3 DEF ReloginAnswered
  <2>2. calm' => calm
    BY <1>3, Zenon DEF ReloginAnswered
  <2>3. QED
    BY <1>1, <1>2, <2>1, <2>2, OneStored
<1>4. CASE ReloginFailed(r)
  <2>1. Dispatch({<<"logged", "NO">>}) /\ Flag' = "NO"
    BY <1>4 DEF ReloginFailed, Flag
  <2>2. calm' => calm /\ ~WriteOutstanding("logged")
    BY <1>4, Zenon DEF ReloginFailed
  <2>3. QED
    BY <1>1, <2>1, <2>2, OneStored
<1>5. QED
  BY <1>3, <1>4

LEMMA EditAnsweredCalm == ASSUME TInv, CInv, NEW r \in Requests, EditAnswered(r) PROVE CInv'
<1>1. /\ main.at = "idle" /\ Dispatch({<<"info", curUser>>}) /\ net' = net \ {r}
      /\ UNCHANGED <<ldb, keychain, main, tasks, chat, sess, loggedIn>>
  BY DEF EditAnswered
<1>2. calm' => calm /\ ~WriteOutstanding("info")
  BY Zenon DEF EditAnswered
<1>3. calm' => curUser = sess
  BY <1>2, CalmStore
<1>4. QED
  BY <1>1, <1>2, <1>3, OneStored

LEMMA ProfileAnsweredCalm == ASSUME TInv, CInv, NEW r \in Requests, ProfileAnswered(r) PROVE CInv'
<1>1. main.at = "idle" /\ UNCHANGED <<ldb, keychain, main, tasks, chat, sess, loggedIn>>
  BY DEF ProfileAnswered
<1>2. CASE /\ Dispatch({<<"info", r.acct>>})
           /\ net' = (net \ {r}) \cup {[op |-> "reglogin", acct |-> r.acct]}
           /\ calm' = (calm /\ sess = r.acct /\ ~WriteOutstanding("info"))
  <2>1. calm' => calm /\ sess = r.acct
    BY <1>2, Zenon
  <2>2. \A q \in net' : q.op \in {"refresh", "relogin"} => q \in net
    BY <1>2
  <2>3. QED
    BY <1>1, <1>2, <2>1, <2>2, OneStored
<1>3. CASE net' = net \ {r} /\ UNCHANGED <<pending, calm>>
  BY <1>1, <1>3, QuietCalm
<1>4. QED
  BY <1>2, <1>3 DEF ProfileAnswered

LEMMA RunTaskCalm == ASSUME TInv, CInv, RunTask PROVE CInv'
<1>1. /\ main.at = "idle" /\ tasks # <<>> /\ tasks' = Tail(tasks)
      /\ UNCHANGED <<ldb, keychain, main, net, chat, sess, loggedIn, calm>>
      /\ \/ Head(tasks).do = "loginCompleted" /\ Dispatch({<<"token", Head(tasks).acct>>})
         \/ UNCHANGED pending
  BY DEF RunTask
<1>2. /\ \A i \in 1..Len(tasks') : \E j \in 1..Len(tasks) : tasks[j] = tasks'[i]
      /\ 1 \in 1..Len(tasks) /\ Head(tasks) = tasks[1]
  BY <1>1, TailOf, TInvGives
<1>3. CASE Head(tasks).do = "loginCompleted" /\ Dispatch({<<"token", Head(tasks).acct>>})
  <2>1. calm => Head(tasks).acct = sess
    BY <1>2, <1>3 DEF CInv, Bound
  <2>2. calm' => calm
    BY <1>1, Zenon
  <2>3. QED
    BY <1>1, <1>2, <1>3, <2>1, <2>2, OneStored
<1>4. CASE UNCHANGED pending
  <2>1. calm => Stored' /\ Bound'
    BY <1>1, <1>2, <1>4, StoredUnmoved DEF CInv, Bound
  <2>2. calm' => calm
    BY <1>1, Zenon
  <2>3. QED
    BY <1>1, <2>1, <2>2 DEF CInv
<1>5. QED
  BY <1>1, <1>3, <1>4

LEMMA RunWriteCalm == ASSUME TInv, CInv, NEW k \in Keys, NEW v \in Values, RunWrite(k, v) PROVE CInv'
<1>1. RunBlock(k, v) /\ UNCHANGED <<keychain, main, tasks, net, chat, sess, loggedIn, calm>>
  BY DEF RunWrite, ucVars
<1>2. calm' => calm
  BY <1>1, Zenon
<1>3. calm => Stored' /\ Bound'
  BY <1>1, StoredRuns DEF CInv, Bound
<1>4. QED
  BY <1>1, <1>2, <1>3 DEF CInv

LEMMA RelaunchCalm == ASSUME TInv, CInv, Relaunch PROVE CInv'
<1>1. /\ LoseBlocks /\ main' = [at |-> "launch"] /\ tasks' = <<>> /\ net' = {} /\ chat' = NoValue
      /\ UNCHANGED <<ldb, keychain, sess, loggedIn>>
  BY DEF Relaunch, LoseBlocks
<1>2. ASSUME calm' PROVE Stored' /\ Bound' /\ (sess' # NoValue => sess' \in keychain')
  <2>1. calm /\ Quiet /\ main.at # "store"
    BY <1>2, Zenon DEF Relaunch
  <2>2. /\ \A k \in Keys, v \in Values : ~Due(k, v) /\ ~Due(k, v)'
        /\ sess \in Values
    BY <1>1, <2>1, QuietDue, LoseTypes, TInvGives, KeysAndValues
  <2>3. Stored'
    BY <1>1, <2>1, <2>2, KeysAndValues DEF CInv, Stored, Follows, Marks, Flag
  <2>4. Len(tasks') = 0
    BY <1>1, EmptySeq
  <2>5. Bound'
    BY <1>1, <2>4 DEF Bound
  <2>6. QED
    BY <1>1, <2>1, <2>3, <2>5 DEF CInv
<1>3. QED
  BY <1>1, <1>2 DEF CInv

LEMMA CInvStep == TInv /\ CInv /\ [Next]_vars => CInv'
<1> SUFFICES ASSUME TInv, CInv, [Next]_vars PROVE CInv'
  OBVIOUS
<1>1. CASE MainStep
  BY <1>1, LaunchCalm, StorePasswordCalm, ReadUserCalm, RefreshTokenCalm DEF MainStep
<1>2. ASSUME NEW r \in Requests, Reply(r) PROVE CInv'
  BY <1>2, LoginAnsweredCalm, LoginFailedCalm, ReloginCalm, PlainReplyCalm, EditAnsweredCalm,
     TokenExpiredCalm, RefreshAnsweredCalm, ProfileAnsweredCalm DEF Reply
<1>3. CASE LogoutTap \/ KickedOffline
  BY <1>3, LogoutCalm DEF LogoutTap, KickedOffline
<1>4. CASE Die \/ NilCrash
  BY <1>4, RelaunchCalm DEF Die, NilCrash
<1>5. CASE UNCHANGED vars
  BY <1>5, QuietCalm DEF vars
<1>6. QED
  BY <1>1, <1>2, <1>3, <1>4, <1>5, RunTaskCalm, TapCalm, RunWriteCalm DEF Next

LEMMA CalmHolds == Spec => [](TInv /\ CInv)
<1>1. Init => TInv /\ CInv
  BY TypesInit, CInvInit
<1>2. TInv /\ CInv /\ [Next]_vars => (TInv /\ CInv)'
  BY TypesStep, CInvStep
<1>3. QED
  BY <1>1, <1>2, PTL DEF Spec

\* While nothing overlaps and the writes have run, profile, token, password
\* and chat connection are those of the login answered last, neither profile
\* nor token is left after a sign-out, and the login flag says whether the
\* login stands, through relogins, profile edits and forms, and deaths of
\* the process.
THEOREM SessionCalm == Spec => []CalmSession
<1>1. TInv /\ CInv => CalmSession
  <2> SUFFICES ASSUME TInv, CInv, calm, Quiet, main.at # "store"
               PROVE  /\ sess # NoValue => curUser = sess /\ token = sess /\ sess \in keychain
                      /\ sess = NoValue => curUser = NoValue /\ token = NoValue
                      /\ isLogged <=> loggedIn
                      /\ chat \in {NoValue, sess}
    BY DEF CalmSession
  <2>1. ~WriteOutstanding("info") /\ ~WriteOutstanding("token") /\ ~WriteOutstanding("logged")
    BY KeysAndValues DEF Quiet
  <2>2. curUser = sess /\ token = sess /\ (isLogged <=> loggedIn)
    BY <2>1, CalmStore
  <2>3. QED
    BY <2>2 DEF CInv, Bound
<1>2. QED
  BY <1>1, CalmHolds, PTL

\* The handler of a calm login reads back its own profile and token.
THEOREM SessionReadsOwnLogin == Spec => []ReadsOwnLogin
<1>1. TInv /\ CInv => ReadsOwnLogin
  BY CalmStore DEF ReadsOwnLogin, CInv, Bound
<1>2. QED
  BY <1>1, CalmHolds, PTL
=============================================================================
