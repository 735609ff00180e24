--------------------------- MODULE SessionsProofs ---------------------------
(***************************************************************************)
(* Logins do not fail, sessions last their time, and what is over stays    *)
(* over, for any number of handlers and sessions and any wall clock.       *)
(***************************************************************************)
EXTENDS Sessions, TLAPS

\* What a handler holds: its account exists, its session was issued with the
\* expiry it read, was not over when it was presented, and has lapsed once it
\* is about to be refused.
HandlerHolds(h) ==
    LET handler == handlers[h] IN
    /\ handler.pc # "failed"
    /\ ~handler.late
    /\ handler.pc = "reselect" => users # {}
    /\ handler.pc = "create" => handler.user_id \in users
    /\ handler.pc \in {"check", "expired", "authorized"} =>
         /\ handler.session \in Sessions
         /\ expiry[handler.session] # 0
         /\ handler.expires_at = expiry[handler.session]
    /\ handler.pc = "expired" => handler.expires_at <= latest

\* What the tables and the history say of a session.
SessionHolds(s) ==
    /\ sessions[s] # None => expiry[s] # 0 /\ sessions[s].expires_at = expiry[s]
    /\ told[s] # "nothing" => expiry[s] # 0 /\ sessions[s] = None
    /\ expiry[s] # 0 /\ sessions[s] = None => told[s] = "logout" \/ expiry[s] <= latest

IInv ==
    /\ TypeOK /\ clock <= latest
    /\ \A h \in Handlers : HandlerHolds(h)
    /\ \A s \in Sessions : SessionHolds(s)

\* Nothing has happened yet.
LEMMA InitInv == Init => IInv
  BY ClockAssumption DEF Init, IInv, TypeOK, Handler, Idle, HandlerHolds, SessionHolds

\* A step that is about handler h alone.
LEMMA HandlerMoves ==
    ASSUME IInv, NEW h \in Handlers, NEW next \in Handler,
           handlers' = [handlers EXCEPT ![h] = next],
           UNCHANGED <<clock, latest, users, sessions, expiry, told>>,
           HandlerHolds(h)'
    PROVE  IInv'
  <1>1. \A i \in Handlers : i # h => handlers'[i] = handlers[i]
    BY DEF IInv, TypeOK
  <1>2. \A i \in Handlers : HandlerHolds(i)'
    BY <1>1 DEF IInv, HandlerHolds
  <1>3. TypeOK'
    BY DEF IInv, TypeOK
  <1> QED
    BY <1>2, <1>3 DEF IInv, SessionHolds

\* An idle handler holds nothing.
LEMMA IdleHandler == Idle \in Handler
  BY DEF Idle, Handler

\* It does, wherever it is.
LEMMA IdleHolds == ASSUME NEW h \in Handlers, handlers'[h] = Idle PROVE HandlerHolds(h)'
  <1>1. /\ Idle.pc = "idle" /\ Idle.late = FALSE
    BY DEF Idle
  <1> QED
    BY <1>1 DEF HandlerHolds

\* Handlers that do nothing, while accounts, sessions and time go on.
LEMMA HandlerKept ==
    ASSUME IInv, NEW h \in Handlers, handlers'[h] = handlers[h],
           users \subseteq users', latest' >= latest, latest' \in Nat,
           \A s \in Sessions : expiry[s] # 0 => expiry'[s] = expiry[s]
    PROVE  HandlerHolds(h)'
  <1>1. handlers[h] \in Handler /\ latest \in Nat
    BY DEF IInv, TypeOK
  <1> QED
    BY <1>1 DEF IInv, HandlerHolds, Handler

\* The end of a session, by its own handler: the row goes, the client is told.
LEMMA SessionEnds ==
    ASSUME IInv, NEW h \in Handlers, NEW how \in {"nothing", "expired", "logout"},
           LET s == handlers[h].session IN
           /\ handlers[h].pc \in {"expired", "authorized"}
           /\ sessions' = [sessions EXCEPT ![s] = None]
           /\ told' = [told EXCEPT ![s] = how]
           /\ how # "nothing" /\ (how = "logout" \/ expiry[s] <= latest),
           handlers' = [handlers EXCEPT ![h] = Idle],
           UNCHANGED <<clock, latest, users, expiry>>
    PROVE  IInv'
  <1> DEFINE e == handlers[h].session
  <1>1. e \in Sessions /\ expiry[e] # 0
    BY DEF IInv, HandlerHolds
  <1>2. TypeOK'
    BY <1>1, IdleHandler DEF IInv, TypeOK
  <1>3. \A i \in Handlers : HandlerHolds(i)'
    <2>1. HandlerHolds(h)'
      BY IdleHolds DEF IInv, TypeOK
    <2>2. ASSUME NEW i \in Handlers, i # h PROVE HandlerHolds(i)'
      <3>1. handlers'[i] = handlers[i] /\ latest' \in Nat /\ latest' >= latest
        BY <2>2 DEF IInv, TypeOK
      <3> QED
        BY <3>1, HandlerKept
    <2> QED
      BY <2>1, <2>2
  <1>4. \A s \in Sessions : SessionHolds(s)'
    BY <1>1 DEF IInv, TypeOK, SessionHolds
  <1> QED
    BY <1>2, <1>3, <1>4 DEF IInv

\* Every step of a handler keeps the invariant.
LEMMA HandlerKeepsInv ==
    ASSUME IInv, NEW h \in Handlers, HandlerStep(h)
    PROVE  IInv'
  <1>1. handlers[h] \in Handler /\ HandlerHolds(h) /\ handlers \in [Handlers -> Handler]
    BY DEF IInv, TypeOK
  <1>2. CASE Login(h)
    <2>1. CASE handlers' = [handlers EXCEPT ![h].pc = "insert"]
      <3>1. [handlers[h] EXCEPT !.pc = "insert"] \in Handler
        BY <1>1 DEF Handler
      <3>2. HandlerHolds(h)'
        BY <1>1, <1>2, <2>1 DEF Login, HandlerHolds, Handler
      <3> QED
        BY <1>2, <2>1, <3>1, <3>2, HandlerMoves DEF Login
    <2>2. ASSUME NEW u \in users, handlers' = [handlers EXCEPT ![h] =
                   [@ EXCEPT !.pc = "create", !.user_id = u]]
          PROVE  IInv'
      <3>1. [handlers[h] EXCEPT !.pc = "create", !.user_id = u] \in Handler
        BY <1>1 DEF Handler, IInv, TypeOK
      <3>2. HandlerHolds(h)'
        BY <1>1, <1>2, <2>2 DEF Login, HandlerHolds, Handler
      <3> QED
        BY <1>2, <2>2, <3>1, <3>2, HandlerMoves DEF Login
    <2> QED
      BY <1>2, <2>1, <2>2 DEF Login
  <1>3. CASE InsertUser(h)
    <2>1. CASE users # {} /\ handlers' = [handlers EXCEPT ![h].pc = "reselect"] /\ UNCHANGED users
      <3>1. [handlers[h] EXCEPT !.pc = "reselect"] \in Handler
        BY <1>1 DEF Handler
      <3>2. HandlerHolds(h)'
        BY <1>1, <1>3, <2>1 DEF InsertUser, HandlerHolds, Handler
      <3> QED
        BY <1>3, <2>1, <3>1, <3>2, HandlerMoves DEF InsertUser
    <2>2. ASSUME NEW u \in Users, users = {}, users' = {u},
                 handlers' = [handlers EXCEPT ![h] =
                   [@ EXCEPT !.pc = "create", !.user_id = u]]
          PROVE  IInv'
      <3>1. [handlers[h] EXCEPT !.pc = "create", !.user_id = u] \in Handler
        BY <1>1 DEF Handler
      <3>2. TypeOK'
        BY <1>3, <2>2, <3>1 DEF InsertUser, IInv, TypeOK
      <3>3. HandlerHolds(h)'
        BY <1>1, <1>3, <2>2 DEF InsertUser, HandlerHolds, Handler
      <3>4. ASSUME NEW i \in Handlers, i # h PROVE HandlerHolds(i)'
        <4>1. handlers'[i] = handlers[i] /\ users \subseteq users'
          BY <1>1, <2>2, <3>4
        <4>2. UNCHANGED <<latest, expiry>>
          BY <1>3 DEF InsertUser
        <4>3. latest' \in Nat /\ latest' >= latest
          BY <4>2 DEF IInv, TypeOK
        <4> QED
          BY <4>1, <4>2, <4>3, HandlerKept
      <3> QED
        BY <1>3, <3>2, <3>3, <3>4 DEF InsertUser, IInv, SessionHolds
    <2> QED
      BY <1>3, <2>1, <2>2 DEF InsertUser
  <1>4. CASE ReselectUser(h)
    <2>1. users # {}
      BY <1>1, <1>4 DEF ReselectUser, HandlerHolds
    <2>2. PICK u \in users : handlers' = [handlers EXCEPT ![h] =
                   [@ EXCEPT !.pc = "create", !.user_id = u]]
      BY <1>4, <2>1 DEF ReselectUser
    <2>3. [handlers[h] EXCEPT !.pc = "create", !.user_id = u] \in Handler
      BY <1>1 DEF Handler, IInv, TypeOK
    <2>4. HandlerHolds(h)'
      BY <1>1, <1>4, <2>2 DEF ReselectUser, HandlerHolds, Handler
    <2> QED
      BY <1>4, <2>2, <2>3, <2>4, HandlerMoves DEF ReselectUser
  <1>5. CASE CreateSession(h)
    <2>1. handlers[h].user_id \in users /\ users \subseteq Users
      BY <1>1, <1>5 DEF CreateSession, HandlerHolds, IInv, TypeOK
    <2> DEFINE row == [user_id |-> handlers[h].user_id, expires_at |-> clock + SessionTTL]
    <2>2. PICK s \in Sessions :
            /\ expiry[s] = 0
            /\ sessions' = [sessions EXCEPT ![s] = row]
            /\ expiry' = [expiry EXCEPT ![s] = clock + SessionTTL]
            /\ handlers' = [handlers EXCEPT ![h] = Idle]
      BY <1>5, <2>1 DEF CreateSession
    <2>3. row \in Row /\ row # None /\ row.expires_at = clock + SessionTTL
          /\ clock + SessionTTL \in Nat \ {0}
      BY <2>1, ClockAssumption, NoneIsNoRow DEF IInv, TypeOK, Row
    <2> HIDE DEF row
    <2>4. UNCHANGED <<clock, latest, users, told>>
      BY <1>5 DEF CreateSession
    <2>5. TypeOK'
      BY <2>2, <2>3, <2>4, IdleHandler DEF IInv, TypeOK
    <2>6. \A i \in Handlers : HandlerHolds(i)'
      <3>1. HandlerHolds(h)'
        BY <1>1, <2>2, IdleHolds
      <3>2. ASSUME NEW i \in Handlers, i # h PROVE HandlerHolds(i)'
        <4>1. /\ handlers'[i] = handlers[i] /\ latest' \in Nat /\ latest' >= latest
              /\ \A t \in Sessions : expiry[t] # 0 => expiry'[t] = expiry[t]
          BY <2>2, <2>4, <3>2 DEF IInv, TypeOK
        <4> QED
          BY <2>4, <4>1, HandlerKept
      <3> QED
        BY <3>1, <3>2
    <2>7. \A t \in Sessions : SessionHolds(t)'
      BY <2>2, <2>3, <2>4 DEF IInv, TypeOK, SessionHolds
    <2> QED
      BY <2>4, <2>5, <2>6, <2>7 DEF IInv
  <1>6. ASSUME NEW s \in Sessions, NEW logout \in BOOLEAN, Present(h, s, logout) PROVE IInv'
    <2>1. CASE sessions[s] = None
      <3>1. /\ told' = [told EXCEPT ![s] = IF @ = "nothing" THEN "expired" ELSE @]
            /\ UNCHANGED <<clock, latest, users, sessions, expiry, handlers>>
            /\ expiry[s] # 0
        BY <1>6, <2>1 DEF Present
      <3>2. TypeOK'
        BY <3>1 DEF IInv, TypeOK
      <3>3. \A t \in Sessions : SessionHolds(t)'
        BY <2>1, <3>1 DEF IInv, TypeOK, SessionHolds
      <3> QED
        BY <3>1, <3>2, <3>3 DEF IInv, HandlerHolds
    <2>2. CASE sessions[s] # None
      <3> DEFINE next == [handlers[h] EXCEPT !.pc = "check", !.session = s, !.logout = logout,
                            !.expires_at = sessions[s].expires_at,
                            !.late = told[s] # "nothing"]
      <3>1. sessions[s].expires_at = expiry[s] /\ expiry[s] # 0 /\ told[s] = "nothing"
            /\ sessions[s].expires_at \in Nat
        BY <2>2 DEF IInv, SessionHolds, TypeOK, Row
      <3>2. /\ next \in Handler /\ next.pc = "check" /\ next.session = s
            /\ next.expires_at = expiry[s] /\ ~next.late
        BY <1>1, <3>1 DEF Handler
      <3>3. /\ handlers' = [handlers EXCEPT ![h] = next]
            /\ UNCHANGED <<clock, latest, users, sessions, expiry, told>>
        BY <1>6, <2>2 DEF Present
      <3> HIDE DEF next
      <3>4. handlers'[h] = next
        BY <1>1, <3>3
      <3>5. HandlerHolds(h)'
        BY <3>1, <3>2, <3>3, <3>4 DEF HandlerHolds
      <3> QED
        BY <3>2, <3>3, <3>5, HandlerMoves
    <2> QED
      BY <2>1, <2>2
  <1>7. CASE Check(h)
    <2> DEFINE pc == IF handlers[h].expires_at > clock THEN "authorized" ELSE "expired"
               next == [handlers[h] EXCEPT !.pc = pc]
    <2>1. /\ next \in Handler /\ next.pc = pc /\ next.late = handlers[h].late
          /\ next.session = handlers[h].session /\ next.expires_at = handlers[h].expires_at
      BY <1>1 DEF Handler
    <2>2. pc = "expired" => handlers[h].expires_at <= latest
      BY <1>1 DEF IInv, TypeOK, Handler
    <2>3. pc \in {"authorized", "expired"}
      OBVIOUS
    <2>4. handlers' = [handlers EXCEPT ![h] = next]
      BY <1>7 DEF Check
    <2> HIDE DEF next, pc
    <2>5. handlers'[h] = next
      BY <1>1, <2>4
    <2>6. UNCHANGED <<clock, latest, users, sessions, expiry, told>> /\ handlers[h].pc = "check"
      BY <1>7 DEF Check
    <2>7. HandlerHolds(h)'
      BY <1>1, <2>1, <2>2, <2>3, <2>5, <2>6 DEF HandlerHolds
    <2> QED
      BY <2>1, <2>4, <2>6, <2>7, HandlerMoves
  <1>8. CASE Refuse(h)
    <2> DEFINE how == IF told[handlers[h].session] = "nothing" THEN "expired"
                      ELSE told[handlers[h].session]
    <2>1. how \in {"nothing", "expired", "logout"} /\ how # "nothing"
      BY <1>1, <1>8 DEF Refuse, HandlerHolds, IInv, TypeOK
    <2>2. told' = [told EXCEPT ![handlers[h].session] = how]
      BY <1>8 DEF Refuse
    <2>3. expiry[handlers[h].session] <= latest
      BY <1>1, <1>8 DEF Refuse, HandlerHolds
    <2>4. /\ handlers[h].pc \in {"expired", "authorized"}
          /\ sessions' = [sessions EXCEPT ![handlers[h].session] = None]
          /\ handlers' = [handlers EXCEPT ![h] = Idle]
          /\ UNCHANGED <<clock, latest, users, expiry>>
      BY <1>8 DEF Refuse
    <2> HIDE DEF how
    <2> QED
      BY <2>1, <2>2, <2>3, <2>4, SessionEnds
  <1>9. CASE Logout(h)
    BY <1>9, SessionEnds DEF Logout
  <1>10. CASE Finish(h)
    <2>1. HandlerHolds(h)'
      BY <1>1, <1>10, IdleHolds DEF Finish
    <2> QED
      BY <1>10, <2>1, IdleHandler, HandlerMoves DEF Finish
  <1> QED
    BY <1>2, <1>3, <1>4, <1>5, <1>6, <1>7, <1>8, <1>9, <1>10 DEF HandlerStep

\* So do the reaper and the clock, set back or not.
LEMMA NextInv == IInv /\ [Next]_vars => IInv'
  <1> SUFFICES ASSUME IInv, [Next]_vars PROVE IInv'
    OBVIOUS
  <1>1. CASE ReapSessions
    <2>1. TypeOK'
      BY <1>1 DEF ReapSessions, IInv, TypeOK
    <2>2. \A s \in Sessions : SessionHolds(s)'
      BY <1>1 DEF ReapSessions, Reapable, IInv, TypeOK, SessionHolds
    <2> QED
      BY <1>1, <2>1, <2>2 DEF ReapSessions, IInv, HandlerHolds
  <1>2. CASE Tick
    <2>1. /\ clock' \in Nat /\ latest' \in Nat /\ latest' >= latest /\ clock' <= latest'
          /\ UNCHANGED <<users, sessions, expiry, told, handlers>>
      BY <1>2, ClockAssumption DEF Tick, IInv, TypeOK
    <2>2. \A h \in Handlers : HandlerHolds(h)'
      BY <2>1, HandlerKept
    <2>3. \A s \in Sessions : SessionHolds(s)'
      BY <2>1 DEF IInv, TypeOK, SessionHolds
    <2>4. TypeOK'
      BY <2>1 DEF IInv, TypeOK
    <2> QED
      BY <2>1, <2>2, <2>3, <2>4 DEF IInv
  <1>3. CASE UNCHANGED vars
    BY <1>3 DEF vars, IInv, TypeOK, HandlerHolds, SessionHolds
  <1> QED
    BY <1>1, <1>2, <1>3, HandlerKeepsInv DEF Next

\* Concurrent first logins all succeed.
THEOREM LoginsSucceed == Spec => []LoginsDoNotFail
  <1>1. IInv => LoginsDoNotFail
    BY DEF IInv, HandlerHolds, LoginsDoNotFail
  <1> QED
    BY InitInv, NextInv, <1>1, PTL DEF Spec

\* A session that a client was told is over authorizes nothing it sends later.
THEOREM SessionsStayOver == Spec => []OverMeansOver
  <1>1. IInv => OverMeansOver
    BY DEF IInv, HandlerHolds, OverMeansOver
  <1> QED
    BY InitInv, NextInv, <1>1, PTL DEF Spec

\* Nothing but its own logout or expiry ends a session.
THEOREM SessionsLast == Spec => []SessionsLastTheirTime
  <1>1. IInv => SessionsLastTheirTime
    BY DEF IInv, SessionHolds, SessionsLastTheirTime
  <1> QED
    BY InitInv, NextInv, <1>1, PTL DEF Spec
=============================================================================
