------------------------------ MODULE Sessions ------------------------------
(***************************************************************************)
(* Logins of a server in password mode and the sessions they open          *)
(* (internal/auth, cmd/server/auth).  Every query is a step of its own:    *)
(* concurrent first logins create one account, and validation, which looks *)
(* a session up, compares its expiry with the clock and deletes it if that *)
(* has passed, interleaves with other requests, with logout, with the      *)
(* hourly reaper and with a wall clock that may be set back.               *)
(***************************************************************************)
EXTENDS Integers

CONSTANTS
    Handlers,        \* concurrent handlers of requests
    Users,           \* identifiers of users rows
    Sessions,        \* sessions, each named by its token
    None,            \* no row
    SessionTTL,      \* 7 * 24 * time.Hour
    MaxTime          \* bound on the clock

ASSUME ClockAssumption == SessionTTL \in Nat \ {0} /\ MaxTime \in Nat

\* A row of sessions; its token hash is its name.
Row == [user_id : Users, expires_at : Nat]

ASSUME NoneIsNoRow == None \notin Row

VARIABLES
    clock,           \* time.Now()
    latest,          \* history: the latest time the clock has shown
    users,           \* the rows of users whose sub is "local"
    sessions,        \* the sessions table
    expiry,          \* history: expires_at of every session ever issued, or 0
    told,            \* history: how a client was told that its session is over
    handlers         \* what each handler is at

vars == <<clock, latest, users, sessions, expiry, told, handlers>>

\* read is what the handler's SELECT found of the session; late is a history
\* field: the request was sent after its client was told the session is over.
Handler == [pc : {"idle", "insert", "reselect", "create", "failed",
                  "check", "expired", "authorized"},
            user_id : Users \cup {None}, session : Sessions \cup {None},
            expires_at : Nat, logout : BOOLEAN, late : BOOLEAN]

Idle == [pc |-> "idle", user_id |-> None, session |-> None,
         expires_at |-> 0, logout |-> FALSE, late |-> FALSE]

TypeOK ==
    /\ clock \in Nat /\ latest \in Nat
    /\ users \subseteq Users
    /\ sessions \in [Sessions -> Row \cup {None}]
    /\ expiry \in [Sessions -> Nat]
    /\ told \in [Sessions -> {"nothing", "expired", "logout"}]
    /\ handlers \in [Handlers -> Handler]

Init ==
    /\ clock \in 0 .. MaxTime /\ latest = clock
    /\ users = {}
    /\ sessions = [s \in Sessions |-> None]
    /\ expiry = [s \in Sessions |-> 0]
    /\ told = [s \in Sessions |-> "nothing"]
    /\ handlers = [h \in Handlers |-> Idle]

Tick ==
    /\ clock' \in 0 .. MaxTime /\ clock' # clock
    /\ latest' = IF clock' > latest THEN clock' ELSE latest
    /\ UNCHANGED <<users, sessions, expiry, told, handlers>>

-----------------------------------------------------------------------------
(* Login                                                                    *)

\* handlePasswordLogin with the right password: UpsertLocalUser's first SELECT.
Login(h) ==
    /\ handlers[h].pc = "idle"
    /\ \/ users = {} /\ handlers' = [handlers EXCEPT ![h].pc = "insert"]
       \/ \E u \in users : handlers' = [handlers EXCEPT ![h] =
            [@ EXCEPT !.pc = "create", !.user_id = u]]
    /\ UNCHANGED <<clock, latest, users, sessions, expiry, told>>

\* INSERT ... ON CONFLICT (sub) DO NOTHING RETURNING id.
InsertUser(h) ==
    /\ handlers[h].pc = "insert"
    /\ \/ \E u \in Users : /\ users = {} /\ users' = {u}
                           /\ handlers' = [handlers EXCEPT ![h] =
                                [@ EXCEPT !.pc = "create", !.user_id = u]]
       \/ users # {} /\ handlers' = [handlers EXCEPT ![h].pc = "reselect"] /\ UNCHANGED users
    /\ UNCHANGED <<clock, latest, sessions, expiry, told>>

\* "Lost the race; the row exists now", or the login fails.
ReselectUser(h) ==
    /\ handlers[h].pc = "reselect"
    /\ \/ users = {} /\ handlers' = [handlers EXCEPT ![h].pc = "failed"]
       \/ \E u \in users : handlers' = [handlers EXCEPT ![h] =
            [@ EXCEPT !.pc = "create", !.user_id = u]]
    /\ UNCHANGED <<clock, latest, users, sessions, expiry, told>>

\* CreateSession, under a fresh token; user_id references users.
CreateSession(h) ==
    /\ handlers[h].pc = "create"
    /\ IF handlers[h].user_id \in users
       THEN \E s \in Sessions :
              /\ expiry[s] = 0
              /\ sessions' = [sessions EXCEPT ![s] =
                   [user_id |-> handlers[h].user_id, expires_at |-> clock + SessionTTL]]
              /\ expiry' = [expiry EXCEPT ![s] = clock + SessionTTL]
              /\ handlers' = [handlers EXCEPT ![h] = Idle]
       ELSE /\ handlers' = [handlers EXCEPT ![h].pc = "failed"]
            /\ UNCHANGED <<sessions, expiry>>
    /\ UNCHANGED <<clock, latest, users, told>>

-----------------------------------------------------------------------------
(* Authenticated requests                                                   *)

\* requireAuth with a token that was issued: ValidateSession's SELECT.  A
\* token without a row is answered 401 invalid_session at once.
Present(h, s, logout) ==
    /\ handlers[h].pc = "idle" /\ expiry[s] # 0
    /\ \/ /\ sessions[s] = None
          /\ told' = [told EXCEPT ![s] = IF @ = "nothing" THEN "expired" ELSE @]
          /\ UNCHANGED handlers
       \/ /\ sessions[s] # None
          /\ handlers' = [handlers EXCEPT ![h] =
               [@ EXCEPT !.pc = "check", !.session = s, !.logout = logout,
                         !.expires_at = sessions[s].expires_at,
                         !.late = told[s] # "nothing"]]
          /\ UNCHANGED told
    /\ UNCHANGED <<clock, latest, users, sessions, expiry>>

\* expiresAt.Time.After(time.Now()) decides, on the row read before.
Check(h) ==
    /\ handlers[h].pc = "check"
    /\ handlers' = [handlers EXCEPT ![h].pc =
         IF handlers[h].expires_at > clock THEN "authorized" ELSE "expired"]
    /\ UNCHANGED <<clock, latest, users, sessions, expiry, told>>

\* Bug: an expired session is refused but left for the reaper.
RefuseAndKeep(h) ==
    /\ handlers[h].pc = "expired"
    /\ told' = [told EXCEPT ![handlers[h].session] = IF @ = "nothing" THEN "expired" ELSE @]
    /\ handlers' = [handlers EXCEPT ![h] = Idle]
    /\ UNCHANGED <<clock, latest, users, sessions, expiry>>

\* The expired row is deleted, and only then is the client told.
Refuse(h) ==
    /\ handlers[h].pc = "expired"
    /\ sessions' = [sessions EXCEPT ![handlers[h].session] = None]
    /\ told' = [told EXCEPT ![handlers[h].session] = IF @ = "nothing" THEN "expired" ELSE @]
    /\ handlers' = [handlers EXCEPT ![h] = Idle]
    /\ UNCHANGED <<clock, latest, users, expiry>>

\* Bug: logging out ends every session of the account.
LogoutEverywhere(h) ==
    /\ handlers[h].pc = "authorized" /\ handlers[h].logout
    /\ sessions' = [s \in Sessions |-> None]
    /\ told' = [told EXCEPT ![handlers[h].session] = "logout"]
    /\ handlers' = [handlers EXCEPT ![h] = Idle]
    /\ UNCHANGED <<clock, latest, users, expiry>>

\* handleLogout: DeleteSession, also of a session already gone, then 204.
Logout(h) ==
    /\ handlers[h].pc = "authorized" /\ handlers[h].logout
    /\ sessions' = [sessions EXCEPT ![handlers[h].session] = None]
    /\ told' = [told EXCEPT ![handlers[h].session] = "logout"]
    /\ handlers' = [handlers EXCEPT ![h] = Idle]
    /\ UNCHANGED <<clock, latest, users, expiry>>

\* Any other request is served; or a handler is cut off, by a lost client, a
\* failed query or a restart of the server.
Finish(h) ==
    /\ handlers[h].pc # "idle"
    /\ handlers' = [handlers EXCEPT ![h] = Idle]
    /\ UNCHANGED <<clock, latest, users, sessions, expiry, told>>

-----------------------------------------------------------------------------

\* Bug: the reaper counts the lifetime again, from the expiry.
ReapableLater(s) ==
    sessions[s] # None /\ sessions[s].expires_at + SessionTTL < clock

\* expires_at < now: an hour or a moment later than validation refuses it.
Reapable(s) == sessions[s] # None /\ sessions[s].expires_at < clock

\* ReapSessions, in one DELETE.
ReapSessions ==
    /\ \E s \in Sessions : Reapable(s)
    /\ sessions' = [s \in Sessions |-> IF Reapable(s) THEN None ELSE sessions[s]]
    /\ UNCHANGED <<clock, latest, users, expiry, told, handlers>>

HandlerStep(h) ==
    \/ Login(h) \/ InsertUser(h) \/ ReselectUser(h) \/ CreateSession(h)
    \/ \E s \in Sessions, logout \in BOOLEAN : Present(h, s, logout)
    \/ Check(h) \/ Refuse(h) \/ Logout(h) \/ Finish(h)

Next ==
    \/ \E h \in Handlers : HandlerStep(h)
    \/ ReapSessions
    \/ Tick

Spec == Init /\ [][Next]_vars

\* The jobs goroutine runs the reaper every hour, and the clock goes on.
FairSpec == Spec /\ WF_vars(ReapSessions) /\ WF_vars(Tick /\ clock' > clock)

-----------------------------------------------------------------------------
(* Properties                                                               *)

\* user.go: "ON CONFLICT DO NOTHING plus a re-select keeps two concurrent first
\* logins from failing on the sub unique constraint."  Nor does one fail on
\* the session's reference to its user.
LoginsDoNotFail == \A h \in Handlers : handlers[h].pc # "failed"

\* A client that was told its session is over, by a refusal or by its logout,
\* may forget the token: no request it sends later is authorized, whatever
\* validations were under way and wherever the clock is set back to.
OverMeansOver ==
    \A h \in Handlers : handlers[h].pc = "authorized" => ~handlers[h].late

\* A session ends by its own logout or by its own expiry: no reaper, refusal or
\* logout that overlaps with it takes it away before.
SessionsLastTheirTime ==
    \A s \in Sessions :
        expiry[s] # 0 /\ sessions[s] = None
            => told[s] = "logout" \/ expiry[s] <= latest

\* Sessions nobody presents again do not pile up, once the clock is no longer
\* set back.
ExpiredSessionsGo ==
    <>[][clock' >= clock]_vars =>
        \A s \in Sessions : \A t \in 1 .. MaxTime - 1 :
            sessions[s] # None /\ sessions[s].expires_at = t ~> sessions[s] = None
=============================================================================
