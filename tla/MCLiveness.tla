----------------------------- MODULE MCLiveness -----------------------------
(***************************************************************************)
(* What must happen in the end, in one run: part says which system a       *)
(* behaviour is about.  First the app is launched, signed in and out and   *)
(* killed; from the idle login screen of a fresh installation the writers  *)
(* of a database may take over, and the session stands still: nothing of   *)
(* it is due there.                                                        *)
(***************************************************************************)
EXTENDS LevelDBWrite, TLC

CONSTANTS
    Keys, Values, NoValue, MaxPending, Accounts, MaxRequests,
    MaxTasks,       \* those of UserCenter
    ann, t1, t2

VARIABLES
    part,
    ldb, pending, keychain, screen, main, tasks, net, chat, answered, sess,
    loggedIn, calm

sessionVars == <<ldb, pending, keychain, screen, main, tasks, net, chat,
                 answered, sess, loggedIn, calm>>

Session == INSTANCE UserCenter

LiveInit == part = "launch" /\ Init /\ Session!Init

LaunchStep == part = "launch" /\ Session!Next /\ UNCHANGED <<part, vars>>

\* Nobody has ever signed in, and nothing is under way.
Fresh ==
    /\ screen = "login" /\ main.at = "idle" /\ calm
    /\ keychain = {} /\ net = {} /\ tasks = <<>> /\ Session!Quiet
    /\ Session!curUser = NoValue /\ Session!token = NoValue /\ ldb["logged"] = NoValue
TakeOver == Fresh /\ part = "launch" /\ part' = "write" /\ UNCHANGED <<vars, sessionVars>>

WriteStep == part = "write" /\ Next /\ UNCHANGED <<part, sessionVars>>

LiveNext == LaunchStep \/ TakeOver \/ WriteStep

\* The fairness of both: a part that stands still has no fair step to take.
LiveSpec ==
    /\ LiveInit /\ [][LiveNext]_<<part, vars, sessionVars>>
    /\ Fairness /\ Session!Fairness

\* The launch screen gives way to the login or the main screen, unless the
\* auto login is answered with an incomplete profile (code 2, for which
\* AppDelegate does nothing) or without data (which raises no event).
LaunchResolves == Session!LaunchResolves
=============================================================================
