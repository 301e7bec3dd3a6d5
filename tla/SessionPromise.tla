--------------------------- MODULE SessionPromise ---------------------------
(***************************************************************************)
(* What sign-in sessions promise the people who use them, with nothing of  *)
(* how the server keeps them: no Map, table, journal, checkpoint, request  *)
(* or clock.  A session is granted for an account under the password it    *)
(* has then; once ended it is ended for good; changing the password or     *)
(* deleting the account ends all of them.  AuthSessions implements it.     *)
(***************************************************************************)
EXTENDS Naturals

CONSTANTS Users, Tokens, Nobody

VARIABLES
  password,  \* which password the account has, 0 for no account
  holder,    \* whose session it is, Nobody if it was never granted
  version,   \* the password it was granted under
  ended,     \* sessions that were logged out, or ended with the account's others
  accepted   \* sessions that give access now

vars == <<password, holder, version, ended, accepted>>

Granted       == {t \in Tokens : holder[t] # Nobody}
SessionsOf(u) == {t \in Tokens : holder[t] = u}

\* The sessions ts, if any, were never granted and now are: for u, under h.
Grant(ts, u, h) ==
  /\ ts \cap Granted = {}
  /\ holder'  = [t \in Tokens |-> IF t \in ts THEN u ELSE holder[t]]
  /\ version' = [t \in Tokens |-> IF t \in ts THEN h ELSE version[t]]

SignUp(u, ts) ==
  /\ password[u] = 0 /\ SessionsOf(u) = {}
  /\ password' = [password EXCEPT ![u] = 1]
  /\ Grant(ts, u, 1)
  /\ accepted' = accepted \cup ts
  /\ UNCHANGED ended

\* A release that is no longer running may have granted it.
SignIn(u, ts) ==
  /\ password[u] # 0
  /\ Grant(ts, u, password[u])
  /\ accepted' \in {accepted, accepted \cup ts}
  /\ UNCHANGED <<password, ended>>

SignOut(t) ==
  /\ t \in Granted
  /\ ended' = ended \cup {t} /\ accepted' = accepted \ {t}
  /\ UNCHANGED <<password, holder, version>>

ChangePassword(u, ts) ==
  /\ password[u] # 0
  /\ password' = [password EXCEPT ![u] = @ + 1]
  /\ ended' = ended \cup SessionsOf(u)
  /\ Grant(ts, u, password[u] + 1)
  /\ accepted' = (accepted \ SessionsOf(u)) \cup ts

DeleteAccount(u) ==
  /\ password[u] # 0
  /\ password' = [password EXCEPT ![u] = 0]
  /\ ended' = ended \cup SessionsOf(u) /\ accepted' = accepted \ SessionsOf(u)
  /\ UNCHANGED <<holder, version>>

\* Time passes, or the server stops, fails or starts: a session may cease to
\* be accepted, for good or for a while, but none that was ended comes back.
Lapse ==
  /\ accepted' \subseteq Granted \ ended
  /\ UNCHANGED <<password, holder, version, ended>>

Init ==
  /\ password \in [Users -> {0, 1}]
  /\ holder = [t \in Tokens |-> Nobody] /\ version = [t \in Tokens |-> 0]
  /\ ended = {} /\ accepted = {}

One == {{}} \cup {{t} : t \in Tokens}

Next ==
  \/ \E u \in Users, ts \in One : SignUp(u, ts) \/ SignIn(u, ts) \/ ChangePassword(u, ts)
  \/ \E u \in Users : DeleteAccount(u)
  \/ \E t \in Tokens : SignOut(t)
  \/ Lapse

Spec == Init /\ [][Next]_vars
=============================================================================
