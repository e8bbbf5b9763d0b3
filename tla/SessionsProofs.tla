--------------------------- MODULE SessionsProofs ---------------------------
(***************************************************************************)
(* Whatever users, sessions and requests there are: a reset that completes *)
(* ends what was stored before it, events and rows agree, and a request    *)
(* acts for an active identity.  The invariant adds what each request may  *)
(* still rely on of what it read some awaits ago (Fits), which is so       *)
(* because rows and passwords only move forwards (Moves).                  *)
(***************************************************************************)
EXTENDS Sessions, TLAPS

SessionSteps == {"session", "bound", "leaving", "changing", "changed"}

\* A request that has found a session keeps one that is stored.
Binds(q) ==
  work[q].step \in SessionSteps =>
    /\ work[q].session \in SessionIds
    /\ sessions[work[q].session] # None
    /\ sessions[work[q].session].user = work[q].user

\* Nobody disables an identity.
ActsForActive(q) ==
  work[q].step \in SessionSteps \ {"session"} => users[work[q].user] = "active"

\* What a request has replaced a password by is not in the future.
HasReplaced(q) ==
  work[q].step \in {"changed", "resetting", "listed"} =>
    work[q].password <= password[work[q].user]

\* A session stored before the replacement is on the list of the reset, or
\* has ended.
Lists(q) ==
  work[q].step = "listed" =>
    /\ \A s \in work[q].ends : sessions[s] # None
    /\ \A s \in SessionIds :
         /\ Active(s)
         /\ sessions[s].user = work[q].user
         /\ sessions[s].at < work[q].password
         => s \in work[q].ends

Fits(q) ==
  /\ work[q].step # "idle" => work[q].user \in Users
  /\ Binds(q) /\ ActsForActive(q) /\ HasReplaced(q) /\ Lists(q)

\* A reset is announced after the password has been replaced.
ResetsAreDone ==
  \A u \in Users, w \in Passwords :
    Updated(u, w, "password_reset") \in announced => w <= password[u]

Safe ==
  /\ TypeOK
  /\ \A q \in Requests : Fits(q)
  /\ ResetsAreDone /\ ResetEndsStoredSessions /\ SessionsAreAnnounced

-----------------------------------------------------------------------------
(* What a step may do to the rows that others have read. *)

\* A session row stays, keeps its user and its time, and never becomes active
\* again; a new one is stored under the password in force.
SessionsMove ==
  \A s \in SessionIds :
    /\ sessions[s] # None =>
         /\ sessions'[s] # None
         /\ sessions'[s].user = sessions[s].user
         /\ sessions'[s].at = sessions[s].at
         /\ Active(s)' => Active(s)
    /\ sessions[s] = None /\ sessions'[s] # None =>
         /\ sessions'[s].user \in Users
         /\ sessions'[s].at = password'[sessions'[s].user]

PasswordsMove ==
  /\ password' \in [Users -> Passwords]
  /\ \A u \in Users : password'[u] >= password[u]

UsersMove ==
  /\ users' \in [Users -> {"pending", "active", None}]
  /\ \A u \in Users : users[u] = "active" => users'[u] = "active"

\* The rows and the events after a step, together.
StoreIsSound ==
  /\ sessions \in [SessionIds -> SessionRow \union {None}]
  /\ announced \subseteq Events
  /\ ResetsAreDone /\ ResetEndsStoredSessions /\ SessionsAreAnnounced

\* Events of different kinds are different.
LEMMA EventsAreApart ==
  ASSUME NEW s, NEW t, NEW r, NEW u, NEW w, NEW why, NEW v
  PROVE  /\ Created(s) # Ended(t, r) /\ Created(s) # Updated(u, w, why)
         /\ Created(s) # Asked(v)
         /\ Ended(t, r) # Updated(u, w, why) /\ Ended(t, r) # Asked(v)
         /\ Updated(u, w, why) # Asked(v)
<1>1. /\ Created(s)[1] = "created" /\ Ended(t, r)[1] = "ended"
      /\ Updated(u, w, why)[1] = "updated" /\ Asked(v)[1] = "asked"
  BY DEF Created, Ended, Updated, Asked
<1>2. QED
  BY <1>1

\* An event says what it is about.
LEMMA EventsSayWhat ==
  ASSUME NEW s, NEW t, NEW r, NEW r2, NEW u, NEW w, NEW why,
         NEW u2, NEW w2, NEW why2
  PROVE  /\ Created(s) = Created(t) => s = t
         /\ Ended(s, r) = Ended(t, r2) => s = t
         /\ Updated(u, w, why) = Updated(u2, w2, why2) =>
              u = u2 /\ w = w2 /\ why = why2
BY DEF Created, Ended, Updated

LEMMA RowsAreRows ==
  ASSUME NEW row \in SessionRow
  PROVE  row # None
BY NoneIsNoRow

\* What a request remembers fits after a step that leaves its memory alone.
LEMMA StillFits ==
  ASSUME Safe, SessionsMove, PasswordsMove, UsersMove,
         NEW q \in Requests, work'[q] = work[q]
  PROVE  Fits(q)'
<1>1. Fits(q) /\ work[q] \in Work
  BY DEF Safe, TypeOK
<1>2. work[q].step # "idle" => work[q].user \in Users
  BY <1>1 DEF Fits
<1>3. Binds(q)'
  BY <1>1 DEF Fits, Binds, SessionsMove
<1>4. ActsForActive(q)'
  BY <1>1, <1>2 DEF Fits, ActsForActive, UsersMove, SessionSteps
<1>5. HasReplaced(q)'
  <2>1. SUFFICES ASSUME work[q].step \in {"changed", "resetting", "listed"}
                 PROVE  work[q].password <= password'[work[q].user]
    BY DEF HasReplaced
  <2>2. work[q].user \in Users /\ work[q].password <= password[work[q].user]
    BY <1>1, <1>2, <2>1 DEF Fits, HasReplaced
  <2>3. /\ password[work[q].user] \in Int /\ password'[work[q].user] \in Int
        /\ work[q].password \in Int
        /\ password'[work[q].user] >= password[work[q].user]
    BY <1>1, <2>2, PasswordsAreCounted
       DEF Safe, TypeOK, PasswordsMove, Passwords, Work
  <2>4. QED
    BY <2>2, <2>3
<1>6. Lists(q)'
  <2> SUFFICES ASSUME work[q].step = "listed"
               PROVE  /\ \A s \in work[q].ends : sessions'[s] # None
                      /\ \A s \in SessionIds :
                           /\ Active(s)'
                           /\ sessions'[s].user = work[q].user
                           /\ sessions'[s].at < work[q].password
                           => s \in work[q].ends
    BY DEF Lists
  <2>1. /\ \A s \in work[q].ends : sessions[s] # None
        /\ \A s \in SessionIds :
             /\ Active(s)
             /\ sessions[s].user = work[q].user
             /\ sessions[s].at < work[q].password
             => s \in work[q].ends
    BY <1>1 DEF Fits, Lists
  <2>2. work[q].ends \subseteq SessionIds
    BY <1>1 DEF Work
  <2>3. \A s \in work[q].ends : sessions'[s] # None
    BY <2>1, <2>2 DEF SessionsMove
  <2>4. ASSUME NEW s \in SessionIds, Active(s)',
               sessions'[s].user = work[q].user,
               sessions'[s].at < work[q].password
        PROVE  s \in work[q].ends
    <3>1. CASE sessions[s] # None
      BY <2>1, <2>4, <3>1 DEF SessionsMove
    <3>2. CASE sessions[s] = None
      <4>1. sessions'[s] # None
        BY <2>4 DEF Active
      <4>2. sessions'[s].at = password'[work[q].user]
        BY <2>4, <3>2, <4>1 DEF SessionsMove
      <4>3. work[q].password <= password'[work[q].user]
        BY <1>5 DEF HasReplaced
      <4>4. /\ password'[work[q].user] \in Int /\ work[q].password \in Int
        BY <1>1, <1>2, PasswordsAreCounted DEF PasswordsMove, Passwords, Work
      <4>5. QED
        BY <2>4, <4>2, <4>3, <4>4
    <3>3. QED
      BY <3>1, <3>2
  <2>5. QED
    BY <2>3, <2>4
<1>7. QED
  BY <1>2, <1>3, <1>4, <1>5, <1>6 DEF Fits

\* A step is sound that moves the rows forwards and leaves the request that
\* takes it with what fits.
LEMMA SoundStep ==
  ASSUME Safe, SessionsMove, PasswordsMove, UsersMove, StoreIsSound',
         confirmed' \subseteq Users, tokens' \subseteq Users,
         credentials' \in [Users -> Passwords \union {None}],
         lapsed' \subseteq SessionIds,
         NEW q \in Requests, NEW w \in Work, Proceed(q, w), Fits(q)'
  PROVE  Safe'
<1>1. work' = [work EXCEPT ![q] = w] /\ work \in [Requests -> Work]
  BY DEF Proceed, Safe, TypeOK
<1>2. work' \in [Requests -> Work]
  BY <1>1
<1>3. TypeOK'
  BY <1>2 DEF TypeOK, StoreIsSound, PasswordsMove, UsersMove
<1>4. ASSUME NEW p \in Requests
      PROVE  Fits(p)'
  <2>1. CASE p = q
    BY <2>1
  <2>2. CASE p # q
    <3>1. work'[p] = work[p]
      BY <1>1, <2>2
    <3>2. QED
      BY <3>1, StillFits
  <2>3. QED
    BY <2>1, <2>2
<1>5. QED
  BY <1>3, <1>4 DEF Safe, StoreIsSound

-----------------------------------------------------------------------------
(* The three ways in which a step may change the rows of sessions.         *)

\* The rows stay; the events that are added say nothing of sessions.
LEMMA StoreStays ==
  ASSUME Safe, sessions' = sessions, PasswordsMove,
         announced \subseteq announced', announced' \subseteq Events,
         \A e \in announced' \ announced :
           \/ \E u \in Users : e = Asked(u)
           \/ \E u \in Users, w \in Passwords :
                e = Updated(u, w, "password_change")
  PROVE  SessionsMove /\ StoreIsSound'
<1> USE DEF Safe
<1>1. SessionsMove
  BY DEF SessionsMove, Active
<1>2. \A s \in SessionIds : Active(s)' <=> Active(s)
  BY DEF Active
<1>3. \A s \in SessionIds : Created(s) \in announced' => Created(s) \in announced
  BY EventsAreApart
<1>4. \A s \in SessionIds, r \in EndReasons :
        Ended(s, r) \in announced' => Ended(s, r) \in announced
  BY EventsAreApart
<1>5. \A u \in Users, w \in Passwords :
        Updated(u, w, "password_reset") \in announced' =>
          Updated(u, w, "password_reset") \in announced
  BY EventsAreApart, EventsSayWhat
<1>6. SessionsAreAnnounced'
  BY <1>2, <1>3, <1>4 DEF SessionsAreAnnounced
<1>7. ResetsAreDone'
  <2>1. SUFFICES ASSUME NEW u \in Users, NEW w \in Passwords,
                        Updated(u, w, "password_reset") \in announced'
                 PROVE  w <= password'[u]
    BY DEF ResetsAreDone
  <2>2. w <= password[u]
    BY <1>5, <2>1 DEF ResetsAreDone
  <2>3. w \in Int /\ password[u] \in Int /\ password'[u] \in Int
    BY PasswordsAreCounted DEF TypeOK, PasswordsMove, Passwords
  <2>4. QED
    BY <2>2, <2>3 DEF PasswordsMove
<1>8. ResetEndsStoredSessions'
  <2>1. ASSUME NEW s \in SessionIds, Active(s)
        PROVE  sessions[s].user \in Users
    BY <2>1 DEF Active, TypeOK, SessionRow
  <2>2. QED
    BY <1>2, <1>5, <2>1 DEF ResetEndsStoredSessions
<1>9. StoreIsSound'
  BY <1>6, <1>7, <1>8 DEF StoreIsSound, TypeOK
<1>10. QED
  BY <1>1, <1>9

\* A session is stored under the password in force.
LEMMA SessionIsInserted ==
  ASSUME Safe, password' = password,
         NEW s \in SessionIds, NEW u \in Users, NEW w \in Passwords,
         InsertSession(s, u, w)
  PROVE  SessionsMove /\ StoreIsSound'
<1> USE DEF Safe
<1> DEFINE row == NewSession(u, w, password[u])
<1>1. /\ sessions[s] = None
      /\ sessions' = [sessions EXCEPT ![s] = row]
      /\ announced' = announced \union {Created(s)}
  BY DEF InsertSession
<1>2. password[u] \in Passwords
  BY DEF TypeOK
<1>3. /\ row \in SessionRow /\ row.user = u /\ row.at = password[u]
      /\ row.status = "active"
  BY <1>2 DEF NewSession, SessionRow
<1> HIDE DEF row
<1>4. /\ sessions'[s] = row /\ row # None
      /\ \A t \in SessionIds : t # s => sessions'[t] = sessions[t]
  BY <1>1, <1>3, RowsAreRows DEF TypeOK
<1>5. sessions' \in [SessionIds -> SessionRow \union {None}]
  BY <1>1, <1>3 DEF TypeOK
<1>6. announced' \subseteq Events
  BY <1>1 DEF TypeOK, Events
<1>7. SessionsMove
  BY <1>1, <1>3, <1>4 DEF SessionsMove, Active
<1>8. /\ Active(s)'
      /\ \A t \in SessionIds : t # s => (Active(t)' <=> Active(t))
  BY <1>3, <1>4 DEF Active
<1>9. /\ \A t \in SessionIds :
           Created(t) \in announced' <=> t = s \/ Created(t) \in announced
      /\ \A t \in SessionIds, r \in EndReasons :
           Ended(t, r) \in announced' <=> Ended(t, r) \in announced
      /\ \A v \in Users, x \in Passwords :
           Updated(v, x, "password_reset") \in announced' <=>
             Updated(v, x, "password_reset") \in announced
  BY <1>1, EventsAreApart, EventsSayWhat
<1>10. SessionsAreAnnounced'
  <2> SUFFICES ASSUME NEW t \in SessionIds
               PROVE  /\ sessions'[t] # None <=> Created(t) \in announced'
                      /\ (\E r \in EndReasons : Ended(t, r) \in announced')
                           <=> sessions'[t] # None /\ ~Active(t)'
    BY DEF SessionsAreAnnounced
  <2>1. CASE t = s
    BY <1>1, <1>4, <1>8, <1>9, <2>1 DEF SessionsAreAnnounced
  <2>2. CASE t # s
    BY <1>4, <1>8, <1>9, <2>2 DEF SessionsAreAnnounced
  <2>3. QED
    BY <2>1, <2>2
<1>11. ResetsAreDone'
  BY <1>9 DEF ResetsAreDone
<1>12. ResetEndsStoredSessions'
  <2> SUFFICES ASSUME NEW t \in SessionIds, NEW x \in Passwords, Active(t)',
                      Updated(sessions'[t].user, x, "password_reset")
                        \in announced'
               PROVE  sessions'[t].at >= x
    BY DEF ResetEndsStoredSessions
  <2>1. CASE t = s
    <3>1. Updated(u, x, "password_reset") \in announced
      BY <1>3, <1>4, <1>9, <2>1
    <3>2. x <= password[u]
      BY <3>1 DEF ResetsAreDone
    <3>3. x \in Int /\ password[u] \in Int
      BY <1>2, PasswordsAreCounted DEF Passwords
    <3>4. QED
      BY <1>3, <1>4, <2>1, <3>2, <3>3
  <2>2. CASE t # s
    <3>1. Active(t) /\ sessions'[t] = sessions[t]
      BY <1>4, <1>8, <2>2
    <3>2. sessions[t].user \in Users
      BY <3>1 DEF Active, TypeOK, SessionRow
    <3>3. Updated(sessions[t].user, x, "password_reset") \in announced
      BY <1>9, <3>1, <3>2
    <3>4. QED
      BY <3>1, <3>3 DEF ResetEndsStoredSessions
  <2>3. QED
    BY <2>1, <2>2
<1>13. StoreIsSound'
  BY <1>5, <1>6, <1>10, <1>11, <1>12 DEF StoreIsSound
<1>14. QED
  BY <1>7, <1>13

\* Sessions are ended that are stored, and by a reset all that it has to end.
LEMMA SessionsAreEnded ==
  ASSUME Safe, password' = password,
         NEW ends \in SUBSET SessionIds, \A s \in ends : sessions[s] # None,
         NEW reason \in EndReasons, NEW u \in Users, NEW w \in Passwords,
         NEW events, EndSessions(ends, reason, events),
         events \subseteq {Updated(u, w, "password_reset")},
         events # {} =>
           /\ w <= password[u]
           /\ \A s \in SessionIds :
                Active(s) /\ sessions[s].user = u /\ sessions[s].at < w =>
                  s \in ends
  PROVE  SessionsMove /\ StoreIsSound'
<1> USE DEF Safe
<1>1. /\ sessions' = [s \in SessionIds |->
                        IF s \in ends
                        THEN [sessions[s] EXCEPT !.status = "signed_out"]
                        ELSE sessions[s]]
      /\ announced' = announced \union {Ended(s, reason) : s \in ends}
                        \union events
  BY DEF EndSessions, EndEvents
<1>2. ASSUME NEW s \in ends
      PROVE  /\ sessions[s] \in SessionRow /\ sessions'[s] \in SessionRow
             /\ sessions'[s].user = sessions[s].user
             /\ sessions'[s].at = sessions[s].at
             /\ sessions'[s].status = "signed_out"
  <2>1. s \in SessionIds /\ sessions[s] \in SessionRow
    BY <1>2 DEF TypeOK
  <2>2. sessions'[s] = [sessions[s] EXCEPT !.status = "signed_out"]
    BY <1>1, <1>2, <2>1
  <2>3. QED
    BY <2>1, <2>2 DEF SessionRow
<1>3. \A s \in SessionIds \ ends : sessions'[s] = sessions[s]
  BY <1>1
<1>4. sessions' \in [SessionIds -> SessionRow \union {None}]
  <2>1. ASSUME NEW s \in SessionIds
        PROVE  sessions'[s] \in SessionRow \union {None}
    BY <1>2, <1>3 DEF TypeOK
  <2>2. DOMAIN sessions' = SessionIds
    BY <1>1
  <2>3. sessions' = [s \in SessionIds |-> sessions'[s]]
    BY <1>1
  <2>4. QED
    BY <2>1, <2>3
<1>5. announced' \subseteq Events
  <2>1. {Ended(s, reason) : s \in ends} \subseteq Events
    BY DEF Events
  <2>2. events \subseteq Events
    BY DEF Events, UpdateReasons
  <2>3. QED
    BY <1>1, <2>1, <2>2 DEF TypeOK
<1>6. \A s \in ends : sessions'[s] # None /\ ~Active(s)'
  BY <1>2, RowsAreRows DEF Active
<1>7. \A s \in SessionIds \ ends : Active(s)' <=> Active(s)
  BY <1>3 DEF Active
<1>8. SessionsMove
  BY <1>2, <1>3, <1>6, <1>7 DEF SessionsMove
<1>9. \A s \in SessionIds : Created(s) \in announced' <=> Created(s) \in announced
  BY <1>1, EventsAreApart
<1>10. \A s \in ends : Ended(s, reason) \in announced'
  BY <1>1
<1>11. \A s \in SessionIds \ ends, r \in EndReasons :
         Ended(s, r) \in announced' <=> Ended(s, r) \in announced
  BY <1>1, EventsAreApart, EventsSayWhat
<1>12. SessionsAreAnnounced'
  <2> SUFFICES ASSUME NEW s \in SessionIds
               PROVE  /\ sessions'[s] # None <=> Created(s) \in announced'
                      /\ (\E r \in EndReasons : Ended(s, r) \in announced')
                           <=> sessions'[s] # None /\ ~Active(s)'
    BY DEF SessionsAreAnnounced
  <2>1. CASE s \in ends
    BY <1>6, <1>9, <1>10, <2>1 DEF SessionsAreAnnounced
  <2>2. CASE s \notin ends
    BY <1>3, <1>7, <1>9, <1>11, <2>2 DEF SessionsAreAnnounced
  <2>3. QED
    BY <2>1, <2>2
<1>13. \A v \in Users, x \in Passwords :
         Updated(v, x, "password_reset") \in announced' =>
           \/ Updated(v, x, "password_reset") \in announced
           \/ events # {} /\ v = u /\ x = w
  BY <1>1, EventsAreApart, EventsSayWhat
<1>14. ResetsAreDone'
  BY <1>13 DEF ResetsAreDone
<1>15. ResetEndsStoredSessions'
  <2> SUFFICES ASSUME NEW s \in SessionIds, NEW x \in Passwords, Active(s)',
                      Updated(sessions'[s].user, x, "password_reset")
                        \in announced'
               PROVE  sessions'[s].at >= x
    BY DEF ResetEndsStoredSessions
  <2>1. s \notin ends
    BY <1>6
  <2>2. sessions'[s] = sessions[s] /\ Active(s)
    BY <1>3, <1>7, <2>1
  <2>3. sessions[s] \in SessionRow
    BY <2>2 DEF Active, TypeOK
  <2>4. /\ sessions[s].user \in Users /\ sessions[s].at \in Int /\ x \in Int
    BY <2>3, PasswordsAreCounted DEF SessionRow, Passwords
  <2>5. CASE Updated(sessions[s].user, x, "password_reset") \in announced
    BY <2>2, <2>5 DEF ResetEndsStoredSessions
  <2>6. CASE events # {} /\ sessions[s].user = u /\ x = w
    <3>1. ~(sessions[s].at < w)
      BY <2>1, <2>2, <2>6
    <3>2. QED
      BY <2>2, <2>4, <2>6, <3>1
  <2>7. QED
    BY <1>13, <2>2, <2>4, <2>5, <2>6
<1>16. StoreIsSound'
  BY <1>4, <1>5, <1>12, <1>14, <1>15 DEF StoreIsSound
<1>17. QED
  BY <1>8, <1>16

-----------------------------------------------------------------------------
(* The memory of a request after its step.                                 *)

LEMMA Remembers ==
  ASSUME Safe, NEW q \in Requests, NEW w, Proceed(q, w)
  PROVE  work'[q] = w /\ work[q] \in Work /\ Fits(q)
BY DEF Safe, TypeOK, Proceed

\* The memory after a step that goes on to another place.
LEMMA Goes ==
  ASSUME Safe, NEW q \in Requests, NEW step \in Steps, Go(q, step)
  PROVE  /\ Proceed(q, [work[q] EXCEPT !.step = step])
         /\ [work[q] EXCEPT !.step = step] \in Work
         /\ work[q] \in Work /\ Fits(q)
         /\ work'[q].step = step
         /\ work'[q].user = work[q].user
         /\ work'[q].session = work[q].session
         /\ work'[q].password = work[q].password
         /\ work'[q].ends = work[q].ends
<1>1. Proceed(q, [work[q] EXCEPT !.step = step])
  BY DEF Go
<1>2. /\ work'[q] = [work[q] EXCEPT !.step = step]
      /\ work[q] \in Work /\ Fits(q)
  BY <1>1, Remembers
<1>3. QED
  BY <1>1, <1>2 DEF Work

\* A request that is over relies on nothing.
LEMMA FreeFits ==
  ASSUME Safe, NEW q \in Requests, Proceed(q, Free)
  PROVE  Free \in Work /\ Fits(q)'
<1>1. Free \in Work
  BY PasswordsAreCounted DEF Free, Work, Steps, Passwords
<1>2. work'[q].step = "idle"
  BY Remembers DEF Free
<1>3. Fits(q)'
  BY <1>2 DEF Fits, Binds, ActsForActive, HasReplaced, Lists, SessionSteps
<1>4. QED
  BY <1>1, <1>3

\* At these places a request relies on no more than its user being one.
LEMMA UserFits ==
  ASSUME NEW q, work'[q].user \in Users,
         work'[q].step \in {"joining", "verifying", "verified", "signIn",
                            "signedIn", "asking", "asked"}
  PROVE  Fits(q)'
BY DEF Fits, Binds, ActsForActive, HasReplaced, Lists, SessionSteps

\* And at these on the session it has found, too.
LEMMA SessionFits ==
  ASSUME NEW q, work'[q].user \in Users,
         work'[q].step \in {"session", "bound", "leaving", "changing"},
         Binds(q)', ActsForActive(q)'
  PROVE  Fits(q)'
BY DEF Fits, HasReplaced, Lists

LEMMA PasswordsStay ==
  ASSUME Safe, password' = password
  PROVE  PasswordsMove
<1>1. \A u \in Users : password[u] \in Int
  BY PasswordsAreCounted DEF Safe, TypeOK, Passwords
<1>2. QED
  BY <1>1 DEF PasswordsMove, Safe, TypeOK

LEMMA PasswordIsReplaced ==
  ASSUME Safe, NEW u \in Users, ReplacePassword(u)
  PROVE  PasswordsMove /\ password'[u] \in Passwords
<1>1. /\ password' = [password EXCEPT ![u] = password[u] + 1]
      /\ password[u] < MaxPassword
  BY DEF ReplacePassword
<1>2. \A v \in Users : password[v] \in Int /\ password[v] >= 0
  BY PasswordsAreCounted DEF Safe, TypeOK, Passwords
<1>3. password[u] + 1 \in Passwords
  BY <1>1, <1>2, PasswordsAreCounted DEF Passwords
<1>4. password' \in [Users -> Passwords]
  BY <1>1, <1>3 DEF Safe, TypeOK
<1>5. \A v \in Users : password'[v] >= password[v]
  BY <1>1, <1>2 DEF Safe, TypeOK
<1>6. QED
  BY <1>4, <1>5 DEF PasswordsMove

LEMMA UsersStay ==
  ASSUME Safe, users' = users
  PROVE  UsersMove
BY DEF UsersMove, Safe, TypeOK

LEMMA StoreIsLeft ==
  ASSUME Safe, sessions' = sessions, announced' = announced, PasswordsMove
  PROVE  SessionsMove /\ StoreIsSound'
<1>1. announced' \subseteq Events
  BY DEF Safe, TypeOK
<1>2. QED
  BY <1>1, StoreStays

\* A step that only reads.
LEMMA QuietStep ==
  ASSUME Safe, UNCHANGED <<provider, rows, lapsed>>,
         NEW q \in Requests, NEW w \in Work, Proceed(q, w), Fits(q)'
  PROVE  Safe'
<1>1. /\ password' = password /\ confirmed' = confirmed /\ tokens' = tokens
      /\ users' = users /\ credentials' = credentials
      /\ sessions' = sessions /\ announced' = announced /\ lapsed' = lapsed
  BY DEF provider, rows
<1>2. PasswordsMove /\ UsersMove
  BY <1>1, PasswordsStay, UsersStay
<1>3. SessionsMove /\ StoreIsSound'
  BY <1>1, <1>2, StoreIsLeft
<1>4. /\ confirmed' \subseteq Users /\ tokens' \subseteq Users
      /\ credentials' \in [Users -> Passwords \union {None}]
      /\ lapsed' \subseteq SessionIds
  BY <1>1 DEF Safe, TypeOK
<1>5. QED
  BY <1>2, <1>3, <1>4, SoundStep

-----------------------------------------------------------------------------
(* Sign-up and verification. *)

LEMMA SignUpStep ==
  ASSUME Safe, NEW q \in Requests, NEW u \in Users, SignUpProvider(q, u)
  PROVE  Safe'
<1> DEFINE w == [Free EXCEPT !.step = "joining", !.user = u,
                   !.password = password'[u], !.found = users[u] # None]
<1>1. /\ SignUpOrSignIn(u) /\ Proceed(q, w)
      /\ UNCHANGED <<confirmed, tokens, users, credentials, sessions, lapsed,
                     announced>>
  BY DEF SignUpProvider
<1>2. PasswordsMove
  <2>1. CASE password' = password
    BY <2>1, PasswordsStay
  <2>2. CASE password[u] = 0 /\ password' = [password EXCEPT ![u] = 1]
    <3>1. /\ \A v \in Users : password[v] \in Int
          /\ 1 \in Passwords
      BY PasswordsAreCounted DEF Safe, TypeOK, Passwords
    <3>2. QED
      BY <2>2, <3>1 DEF PasswordsMove, Safe, TypeOK
  <2>3. QED
    BY <1>1, <2>1, <2>2 DEF SignUpOrSignIn
<1>3. password'[u] \in Passwords
  BY <1>2 DEF PasswordsMove
<1>4. w \in Work /\ w.step = "joining" /\ w.user = u
  BY <1>3 DEF Free, Work, Steps
<1>5. Fits(q)'
  BY <1>1, <1>4, Remembers, UserFits
<1>6. SessionsMove /\ StoreIsSound' /\ UsersMove
  BY <1>1, <1>2, StoreIsLeft, UsersStay
<1>7. /\ confirmed' \subseteq Users /\ tokens' \subseteq Users
      /\ credentials' \in [Users -> Passwords \union {None}]
      /\ lapsed' \subseteq SessionIds
  BY <1>1 DEF Safe, TypeOK
<1>8. QED
  BY <1>1, <1>2, <1>4, <1>5, <1>6, <1>7, SoundStep

\* The three commits that store a session.
LEMMA InsertStep ==
  ASSUME Safe, NEW q \in Requests, NEW s \in SessionIds,
         \/ CreateNewIdentity(q, s) \/ CreateExistingIdentitySession(q, s)
         \/ SignInCommit(q, s)
  PROVE  Safe'
<1>1. /\ work[q].step # "idle"
      /\ InsertSession(s, work[q].user, work[q].password)
      /\ Proceed(q, Free)
      /\ password' = password /\ confirmed' = confirmed /\ tokens' = tokens
      /\ lapsed' = lapsed
  BY DEF CreateNewIdentity, CreateExistingIdentitySession, SignInCommit, Busy,
         provider
<1>2. work[q].user \in Users /\ work[q].password \in Passwords
  BY <1>1, Remembers DEF Fits, Work
<1>3. SessionsMove /\ StoreIsSound'
  BY <1>1, <1>2, SessionIsInserted
<1>4. PasswordsMove
  BY <1>1, PasswordsStay
<1>5. UsersMove
  <2>1. CASE users' = users
    BY <2>1, UsersStay
  <2>2. CASE CreateNewIdentity(q, s)
    <3>1. /\ users[work[q].user] = None
          /\ users' = [users EXCEPT ![work[q].user] = "pending"]
      BY <2>2 DEF CreateNewIdentity
    <3>2. QED
      BY <1>2, <3>1, NoneIsNoRow DEF UsersMove, Safe, TypeOK
  <2>3. QED
    BY <2>1, <2>2 DEF CreateExistingIdentitySession, SignInCommit
<1>6. credentials' \in [Users -> Passwords \union {None}]
  <2>1. 1 \in Passwords
    BY PasswordsAreCounted DEF Passwords
  <2>2. QED
    BY <1>2, <2>1 DEF CreateNewIdentity, CreateExistingIdentitySession,
       SignInCommit, StampCredential, Safe, TypeOK
<1>7. /\ confirmed' \subseteq Users /\ tokens' \subseteq Users
      /\ lapsed' \subseteq SessionIds
  BY <1>1 DEF Safe, TypeOK
<1>8. QED
  BY <1>1, <1>3, <1>4, <1>5, <1>6, <1>7, FreeFits, SoundStep

\* The reads that start a request for a user, and the answer of the provider
\* to a sign-in.
LEMMA BeginStep ==
  ASSUME Safe, NEW q \in Requests, NEW u \in Users,
         \/ VerifyEmailRead(q, u) \/ SignInProvider(q, u)
         \/ RequestResetRead(q, u)
  PROVE  Safe'
<1>1. 0 \in Passwords /\ password[u] \in Passwords
  BY PasswordsAreCounted DEF Safe, TypeOK, Passwords
<1>2. PICK w \in Work :
        /\ Proceed(q, w) /\ w.user = u
        /\ w.step \in {"verifying", "signIn", "asking"}
        /\ UNCHANGED <<provider, rows, lapsed>>
  <2>1. CASE VerifyEmailRead(q, u)
    <3> DEFINE w == [Free EXCEPT !.step = "verifying", !.user = u]
    <3>1. w \in Work /\ w.user = u /\ w.step = "verifying"
      BY <1>1 DEF Free, Work, Steps
    <3>2. QED
      BY <2>1, <3>1 DEF VerifyEmailRead
  <2>2. CASE SignInProvider(q, u)
    <3> DEFINE w == [Free EXCEPT !.step = "signIn", !.user = u,
                       !.password = password[u]]
    <3>1. w \in Work /\ w.user = u /\ w.step = "signIn"
      BY <1>1 DEF Free, Work, Steps
    <3>2. QED
      BY <2>2, <3>1 DEF SignInProvider
  <2>3. CASE RequestResetRead(q, u)
    <3> DEFINE w == [Free EXCEPT !.step = "asking", !.user = u]
    <3>1. w \in Work /\ w.user = u /\ w.step = "asking"
      BY <1>1 DEF Free, Work, Steps
    <3>2. QED
      BY <2>3, <3>1 DEF RequestResetRead
  <2>4. QED
    BY <2>1, <2>2, <2>3
<1>3. Fits(q)'
  BY <1>2, Remembers, UserFits
<1>4. QED
  BY <1>2, <1>3, QuietStep

LEMMA SignInFindUserStep ==
  ASSUME Safe, NEW q \in Requests, SignInFindUser(q)
  PROVE  Safe'
<1>1. /\ work[q].step = "signIn" /\ Go(q, "signedIn")
      /\ UNCHANGED <<provider, rows, lapsed>>
  BY DEF SignInFindUser, Busy
<1>2. "signedIn" \in Steps
  BY DEF Steps
<1>3. Fits(q)'
  BY <1>1, <1>2, Goes, UserFits DEF Fits
<1>4. QED
  BY <1>1, <1>2, <1>3, Goes, QuietStep

\* The provider verifies an account or hands out a token.
LEMMA ProviderStep ==
  ASSUME Safe, NEW q \in Requests, NEW account \in Users,
         VerifyEmailProvider(q, account) \/ RequestResetProvider(q)
  PROVE  Safe'
<1>1. PICK step \in {"verified", "asked"} :
        /\ work[q].step # "idle" /\ Go(q, step)
        /\ password' = password
        /\ UNCHANGED <<rows, lapsed>>
  BY DEF VerifyEmailProvider, RequestResetProvider, Busy
<1>2. step \in Steps
  BY DEF Steps
<1>3. work[q].user \in Users
  BY <1>1, <1>2, Goes DEF Fits
<1>4. Fits(q)'
  BY <1>1, <1>2, <1>3, Goes, UserFits
<1>5. /\ users' = users /\ credentials' = credentials
      /\ sessions' = sessions /\ announced' = announced /\ lapsed' = lapsed
  BY <1>1 DEF rows
<1>6. PasswordsMove /\ UsersMove
  BY <1>1, <1>5, PasswordsStay, UsersStay
<1>7. SessionsMove /\ StoreIsSound'
  BY <1>5, <1>6, StoreIsLeft
<1>8. /\ confirmed' \subseteq Users /\ tokens' \subseteq Users
      /\ credentials' \in [Users -> Passwords \union {None}]
      /\ lapsed' \subseteq SessionIds
  BY <1>3, <1>5 DEF Safe, TypeOK, VerifyEmailProvider, RequestResetProvider,
     IssueResetToken
<1>9. QED
  BY <1>1, <1>2, <1>4, <1>6, <1>7, <1>8, Goes, SoundStep

LEMMA VerifyCommitStep ==
  ASSUME Safe, NEW q \in Requests, VerifyEmailCommit(q)
  PROVE  Safe'
<1>1. /\ work[q].step = "verified" /\ Proceed(q, Free)
      /\ users' = [users EXCEPT ![work[q].user] = "active"]
      /\ password' = password /\ confirmed' = confirmed /\ tokens' = tokens
      /\ UNCHANGED <<credentials, sessions, lapsed, announced>>
  BY DEF VerifyEmailCommit, Busy, provider
<1>2. UsersMove
  BY <1>1 DEF UsersMove, Safe, TypeOK
<1>3. PasswordsMove
  BY <1>1, PasswordsStay
<1>4. SessionsMove /\ StoreIsSound'
  BY <1>1, <1>3, StoreIsLeft
<1>5. /\ confirmed' \subseteq Users /\ tokens' \subseteq Users
      /\ credentials' \in [Users -> Passwords \union {None}]
      /\ lapsed' \subseteq SessionIds
  BY <1>1 DEF Safe, TypeOK
<1>6. QED
  BY <1>1, <1>2, <1>3, <1>4, <1>5, FreeFits, SoundStep

-----------------------------------------------------------------------------
(* Sessions. *)

LEMMA CurrentSessionStep ==
  ASSUME Safe, NEW q \in Requests, NEW s \in SessionIds, CurrentSession(q, s)
  PROVE  Safe'
<1>1. PICK w :
        /\ w = [Free EXCEPT !.step = "session", !.session = s,
                            !.user = sessions[s].user]
        /\ sessions[s] # None /\ Proceed(q, w)
        /\ UNCHANGED <<provider, rows, lapsed>>
  BY DEF CurrentSession, CurrentSessionEligible
<1>2. sessions[s].user \in Users /\ sessions' = sessions
  BY <1>1 DEF Safe, TypeOK, SessionRow, rows
<1>3. PICK u \in Users : u = sessions[s].user
  BY <1>2
<1>4. w = [Free EXCEPT !.step = "session", !.session = s, !.user = u]
  BY <1>1, <1>3
<1>5. w \in Work /\ w.step = "session" /\ w.session = s /\ w.user = u
  <2>1. 0 \in Passwords /\ "session" \in Steps
    BY PasswordsAreCounted DEF Passwords, Steps
  <2>2. Free \in Work
    BY <2>1 DEF Free, Work, Steps
  <2>3. QED
    BY <1>4, <2>1, <2>2 DEF Work
<1>6. work'[q] = w
  BY <1>1, Remembers
<1>7. Binds(q)' /\ ActsForActive(q)'
  BY <1>1, <1>2, <1>3, <1>5, <1>6 DEF Binds, ActsForActive
<1>8. Fits(q)'
  BY <1>5, <1>6, <1>7, SessionFits
<1>9. QED
  BY <1>1, <1>5, <1>8, QuietStep

\* From the current session to a context bound to it, and on.
LEMMA BoundStep ==
  ASSUME Safe, NEW q \in Requests,
         \/ ResolveCurrentUser(q) \/ SignOutRead(q) \/ ChangePasswordRead(q)
  PROVE  Safe'
<1>1. PICK step \in {"bound", "leaving", "changing"} :
        /\ Go(q, step) /\ UNCHANGED <<provider, rows, lapsed>>
        /\ work[q].step \in {"session", "bound"}
        /\ work[q].step = "session" => users[work[q].user] = "active"
  BY DEF ResolveCurrentUser, SignOutRead, ChangePasswordRead, Bound, Busy,
         CurrentSessionIdentityEligible
<1>2. step \in Steps
  BY DEF Steps
<1>3. sessions' = sessions /\ users' = users
  BY <1>1 DEF rows
<1>4. /\ work[q].user \in Users /\ users[work[q].user] = "active"
      /\ work[q].session \in SessionIds
      /\ sessions[work[q].session] # None
      /\ sessions[work[q].session].user = work[q].user
  BY <1>1, <1>2, Goes DEF Fits, Binds, ActsForActive, SessionSteps
<1>5. Binds(q)' /\ ActsForActive(q)'
  BY <1>1, <1>2, <1>3, <1>4, Goes DEF Binds, ActsForActive
<1>6. Fits(q)'
  BY <1>1, <1>2, <1>4, <1>5, Goes, SessionFits
<1>7. QED
  BY <1>1, <1>2, <1>6, Goes, QuietStep

LEMMA EndStep ==
  ASSUME Safe, NEW q \in Requests, Answer(q) \/ Abandon(q)
  PROVE  Safe'
<1>1. Proceed(q, Free) /\ UNCHANGED <<provider, rows, lapsed>>
  BY DEF Answer, Abandon
<1>2. QED
  BY <1>1, FreeFits, QuietStep

LEMMA SignOutStep ==
  ASSUME Safe, NEW q \in Requests, SignOutCommit(q)
  PROVE  Safe'
<1>1. /\ work[q].step = "leaving" /\ Proceed(q, Free)
      /\ EndSessions({work[q].session}, "signed_out", {})
      /\ password' = password /\ confirmed' = confirmed /\ tokens' = tokens
      /\ UNCHANGED <<users, credentials, lapsed>>
  BY DEF SignOutCommit, Busy, provider
<1>2. /\ work[q].user \in Users /\ work[q].password \in Passwords
      /\ work[q].session \in SessionIds /\ sessions[work[q].session] # None
  BY <1>1, Remembers DEF Fits, Binds, SessionSteps, Work
<1>3. "signed_out" \in EndReasons
  BY DEF EndReasons
<1>4. SessionsMove /\ StoreIsSound'
  BY <1>1, <1>2, <1>3, SessionsAreEnded
<1>5. PasswordsMove /\ UsersMove
  BY <1>1, PasswordsStay, UsersStay
<1>6. /\ confirmed' \subseteq Users /\ tokens' \subseteq Users
      /\ credentials' \in [Users -> Passwords \union {None}]
      /\ lapsed' \subseteq SessionIds
  BY <1>1 DEF Safe, TypeOK
<1>7. QED
  BY <1>1, <1>4, <1>5, <1>6, FreeFits, SoundStep

LEMMA LapseStep ==
  ASSUME Safe, NEW s \in SessionIds, Lapse(s)
  PROVE  Safe'
<1>1. /\ password' = password /\ confirmed' = confirmed /\ tokens' = tokens
      /\ users' = users /\ credentials' = credentials
      /\ sessions' = sessions /\ announced' = announced /\ work' = work
      /\ lapsed' = lapsed \union {s}
  BY DEF Lapse, provider, rows
<1>2. TypeOK'
  BY <1>1 DEF Safe, TypeOK
<1>3. \A q \in Requests : Fits(q)'
  BY <1>1 DEF Safe, Fits, Binds, ActsForActive, HasReplaced, Lists, Active
<1>4. ResetsAreDone' /\ ResetEndsStoredSessions' /\ SessionsAreAnnounced'
  BY <1>1 DEF Safe, ResetsAreDone, ResetEndsStoredSessions,
     SessionsAreAnnounced, Active
<1>5. QED
  BY <1>2, <1>3, <1>4 DEF Safe

-----------------------------------------------------------------------------
(* Passwords. *)

LEMMA ChangeProviderStep ==
  ASSUME Safe, NEW q \in Requests, ChangePasswordProvider(q)
  PROVE  Safe'
<1> DEFINE u == work[q].user
           w == [work[q] EXCEPT !.step = "changed", !.password = password'[u]]
<1>1. /\ work[q].step = "changing" /\ ReplacePassword(u) /\ Proceed(q, w)
      /\ confirmed' = confirmed /\ tokens' = tokens /\ lapsed' = lapsed
      /\ users' = users /\ credentials' = credentials
      /\ sessions' = sessions /\ announced' = announced
  BY DEF ChangePasswordProvider, Busy, rows
<1>2. work'[q] = w /\ work[q] \in Work /\ Fits(q)
  BY <1>1, Remembers
<1>3. /\ u \in Users /\ users[u] = "active"
      /\ work[q].session \in SessionIds
      /\ sessions[work[q].session] # None
      /\ sessions[work[q].session].user = u
  BY <1>1, <1>2 DEF Fits, Binds, ActsForActive, SessionSteps
<1>4. PasswordsMove /\ password'[u] \in Passwords
  BY <1>1, <1>3, PasswordIsReplaced
<1>5. /\ w \in Work /\ w.step = "changed" /\ w.user = u
      /\ w.session = work[q].session /\ w.password = password'[u]
  BY <1>2, <1>4 DEF Work, Steps
<1> HIDE DEF w
<1>6. Binds(q)' /\ ActsForActive(q)' /\ Lists(q)'
  BY <1>1, <1>2, <1>3, <1>5 DEF Binds, ActsForActive, Lists
<1>7. HasReplaced(q)'
  <2>1. password'[u] <= password'[u]
    BY <1>4, PasswordsAreCounted DEF Passwords
  <2>2. QED
    BY <1>2, <1>5, <2>1 DEF HasReplaced
<1>8. Fits(q)'
  BY <1>2, <1>3, <1>5, <1>6, <1>7 DEF Fits
<1>9. SessionsMove /\ StoreIsSound' /\ UsersMove
  BY <1>1, <1>4, StoreIsLeft, UsersStay
<1>10. /\ confirmed' \subseteq Users /\ tokens' \subseteq Users
       /\ credentials' \in [Users -> Passwords \union {None}]
       /\ lapsed' \subseteq SessionIds
  BY <1>1 DEF Safe, TypeOK
<1>11. QED
  BY <1>1, <1>4, <1>5, <1>8, <1>9, <1>10, SoundStep

\* The commits that announce, and end no session.
LEMMA AnnounceStep ==
  ASSUME Safe, NEW q \in Requests,
         ChangePasswordCommit(q) \/ RequestResetCommit(q)
  PROVE  Safe'
<1>1. /\ work[q].step # "idle" /\ Proceed(q, Free)
      /\ password' = password /\ confirmed' = confirmed /\ tokens' = tokens
      /\ UNCHANGED <<users, sessions, lapsed>>
  BY DEF ChangePasswordCommit, RequestResetCommit, Busy, provider
<1>2. work[q].user \in Users /\ work[q].password \in Passwords
  BY <1>1, Remembers DEF Fits, Work
<1>3. PasswordsMove /\ UsersMove
  BY <1>1, PasswordsStay, UsersStay
<1>4. credentials' \in [Users -> Passwords \union {None}]
  BY <1>2 DEF ChangePasswordCommit, RequestResetCommit, StampCredential, Safe,
     TypeOK
<1>5. SessionsMove /\ StoreIsSound'
  <2>1. CASE ChangePasswordCommit(q)
    <3> DEFINE e == Updated(work[q].user, work[q].password, "password_change")
    <3>1. announced' = announced \union {e}
      BY <2>1 DEF ChangePasswordCommit
    <3>2. e \in Events
      BY <1>2 DEF Events, UpdateReasons
    <3> HIDE DEF e
    <3>3. /\ announced \subseteq announced' /\ announced' \subseteq Events
          /\ \A x \in announced' \ announced : x = e
      BY <3>1, <3>2 DEF Safe, TypeOK
    <3> USE DEF e
    <3>4. QED
      BY <1>1, <1>2, <1>3, <3>3, StoreStays
  <2>2. CASE RequestResetCommit(q)
    <3> DEFINE e == Asked(work[q].user)
    <3>1. announced' = announced \union {e}
      BY <2>2 DEF RequestResetCommit
    <3>2. e \in Events
      BY <1>2 DEF Events
    <3> HIDE DEF e
    <3>3. /\ announced \subseteq announced' /\ announced' \subseteq Events
          /\ \A x \in announced' \ announced : x = e
      BY <3>1, <3>2 DEF Safe, TypeOK
    <3> USE DEF e
    <3>4. QED
      BY <1>1, <1>2, <1>3, <3>3, StoreStays
  <2>3. QED
    BY <2>1, <2>2
<1>6. /\ confirmed' \subseteq Users /\ tokens' \subseteq Users
      /\ lapsed' \subseteq SessionIds
  BY <1>1 DEF Safe, TypeOK
<1>7. QED
  BY <1>1, <1>3, <1>4, <1>5, <1>6, FreeFits, SoundStep

LEMMA ResetProviderStep ==
  ASSUME Safe, NEW q \in Requests, NEW u \in Users, ResetPasswordProvider(q, u)
  PROVE  Safe'
<1> DEFINE w == [Free EXCEPT !.step = "resetting", !.user = u,
                   !.password = password'[u]]
<1>1. /\ ReplacePassword(u) /\ Proceed(q, w) /\ tokens' = tokens \ {u}
      /\ confirmed' = confirmed /\ lapsed' = lapsed
      /\ users' = users /\ credentials' = credentials
      /\ sessions' = sessions /\ announced' = announced
  BY DEF ResetPasswordProvider, ConsumeResetToken, rows
<1>2. PasswordsMove /\ password'[u] \in Passwords
  BY <1>1, PasswordIsReplaced
<1>3. w \in Work /\ w.step = "resetting" /\ w.user = u /\ w.password = password'[u]
  BY <1>2 DEF Free, Work, Steps
<1>4. work'[q] = w
  BY <1>1, Remembers
<1> HIDE DEF w
<1>5. HasReplaced(q)'
  <2>1. password'[u] <= password'[u]
    BY <1>2, PasswordsAreCounted DEF Passwords
  <2>2. QED
    BY <1>3, <1>4, <2>1 DEF HasReplaced
<1>6. Fits(q)'
  BY <1>3, <1>4, <1>5 DEF Fits, Binds, ActsForActive, Lists, SessionSteps
<1>7. SessionsMove /\ StoreIsSound' /\ UsersMove
  BY <1>1, <1>2, StoreIsLeft, UsersStay
<1>8. /\ confirmed' \subseteq Users /\ tokens' \subseteq Users
      /\ credentials' \in [Users -> Passwords \union {None}]
      /\ lapsed' \subseteq SessionIds
  BY <1>1 DEF Safe, TypeOK
<1>9. QED
  BY <1>1, <1>2, <1>3, <1>6, <1>7, <1>8, SoundStep

LEMMA ResetReadStep ==
  ASSUME Safe, NEW q \in Requests, ResetPasswordRead(q)
  PROVE  Safe'
<1> DEFINE u == work[q].user
           w == [work[q] EXCEPT !.step = "listed", !.ends = ActiveSessionsOf(u)]
<1>1. /\ work[q].step = "resetting" /\ Proceed(q, w)
      /\ UNCHANGED <<provider, rows, lapsed>>
  BY DEF ResetPasswordRead, Busy
<1>2. work'[q] = w /\ work[q] \in Work /\ Fits(q)
  BY <1>1, Remembers
<1>3. u \in Users /\ work[q].password <= password[u]
  BY <1>1, <1>2 DEF Fits, HasReplaced
<1>4. ActiveSessionsOf(u) \in SUBSET SessionIds
  BY DEF ActiveSessionsOf
<1>5. /\ w \in Work /\ w.step = "listed" /\ w.user = u
      /\ w.password = work[q].password /\ w.ends = ActiveSessionsOf(u)
  BY <1>2, <1>4 DEF Work, Steps
<1>6. sessions' = sessions /\ password' = password
  BY <1>1 DEF provider, rows
<1> HIDE DEF w
<1>7. HasReplaced(q)'
  BY <1>2, <1>3, <1>5, <1>6 DEF HasReplaced
<1>8. Lists(q)'
  <2>1. /\ \A s \in ActiveSessionsOf(u) : sessions[s] # None
        /\ \A s \in SessionIds :
             Active(s) /\ sessions[s].user = u => s \in ActiveSessionsOf(u)
    BY DEF ActiveSessionsOf, Active
  <2>2. QED
    BY <1>2, <1>5, <1>6, <2>1 DEF Lists, Active
<1>9. Fits(q)'
  BY <1>2, <1>3, <1>5, <1>7, <1>8 DEF Fits, Binds, ActsForActive, SessionSteps
<1>10. QED
  BY <1>1, <1>5, <1>9, QuietStep

LEMMA ResetCommitStep ==
  ASSUME Safe, NEW q \in Requests, ResetPasswordCommit(q)
  PROVE  Safe'
<1> DEFINE u == work[q].user
           w == work[q].password
<1>1. /\ work[q].step = "listed" /\ Proceed(q, Free) /\ StampCredential(u, w)
      /\ EndSessions(work[q].ends, "password_reset",
                     {Updated(u, w, "password_reset")})
      /\ password' = password /\ confirmed' = confirmed /\ tokens' = tokens
      /\ UNCHANGED <<users, lapsed>>
  BY DEF ResetPasswordCommit, Busy, provider
<1>2. /\ u \in Users /\ w \in Passwords
      /\ work[q].ends \in SUBSET SessionIds
      /\ w <= password[u]
      /\ \A s \in work[q].ends : sessions[s] # None
      /\ \A s \in SessionIds :
           Active(s) /\ sessions[s].user = u /\ sessions[s].at < w =>
             s \in work[q].ends
  BY <1>1, Remembers DEF Fits, HasReplaced, Lists, Work
<1>3. "password_reset" \in EndReasons
  BY DEF EndReasons
<1>4. SessionsMove /\ StoreIsSound'
  BY <1>1, <1>2, <1>3, SessionsAreEnded
<1>5. PasswordsMove /\ UsersMove
  BY <1>1, PasswordsStay, UsersStay
<1>6. credentials' \in [Users -> Passwords \union {None}]
  BY <1>1, <1>2 DEF StampCredential, Safe, TypeOK
<1>7. /\ confirmed' \subseteq Users /\ tokens' \subseteq Users
      /\ lapsed' \subseteq SessionIds
  BY <1>1 DEF Safe, TypeOK
<1>8. QED
  BY <1>1, <1>4, <1>5, <1>6, <1>7, FreeFits, SoundStep

-----------------------------------------------------------------------------
(* The theorems. *)

LEMMA SafeInit == Init => Safe
<1> SUFFICES ASSUME Init
             PROVE  Safe
  OBVIOUS
<1>1. 0 \in Passwords
  BY PasswordsAreCounted DEF Passwords
<1>2. Free \in Work /\ Free.step = "idle"
  BY <1>1 DEF Free, Work, Steps
<1>3. TypeOK
  BY <1>1, <1>2 DEF Init, TypeOK
<1>4. \A q \in Requests : Fits(q)
  BY <1>2 DEF Init, Fits, Binds, ActsForActive, HasReplaced, Lists, SessionSteps
<1>5. ResetsAreDone /\ ResetEndsStoredSessions /\ SessionsAreAnnounced
  BY DEF Init, ResetsAreDone, ResetEndsStoredSessions, SessionsAreAnnounced,
     Active
<1>6. QED
  BY <1>3, <1>4, <1>5 DEF Safe

LEMMA SafeNext == Safe /\ [Next]_vars => Safe'
<1> SUFFICES ASSUME Safe, [Next]_vars
             PROVE  Safe'
  OBVIOUS
<1>1. CASE UNCHANGED vars
  <2>1. /\ password' = password /\ confirmed' = confirmed /\ tokens' = tokens
        /\ users' = users /\ credentials' = credentials
        /\ sessions' = sessions /\ announced' = announced /\ work' = work
        /\ lapsed' = lapsed
    BY <1>1 DEF vars
  <2>2. TypeOK'
    BY <2>1 DEF Safe, TypeOK
  <2>3. \A q \in Requests : Fits(q)'
    BY <2>1 DEF Safe, Fits, Binds, ActsForActive, HasReplaced, Lists, Active
  <2>4. ResetsAreDone' /\ ResetEndsStoredSessions' /\ SessionsAreAnnounced'
    BY <2>1 DEF Safe, ResetsAreDone, ResetEndsStoredSessions,
       SessionsAreAnnounced, Active
  <2>5. QED
    BY <2>2, <2>3, <2>4 DEF Safe
<1>2. ASSUME NEW s \in SessionIds, Lapse(s)
      PROVE  Safe'
  BY <1>2, LapseStep
<1>3. ASSUME NEW q \in Requests, NEW u \in Users,
             \/ SignUpProvider(q, u) \/ VerifyEmailRead(q, u)
             \/ SignInProvider(q, u) \/ RequestResetRead(q, u)
             \/ ResetPasswordProvider(q, u) \/ VerifyEmailProvider(q, u)
      PROVE  Safe'
  BY <1>3, SignUpStep, BeginStep, ResetProviderStep, ProviderStep
<1>4. ASSUME NEW q \in Requests, NEW s \in SessionIds,
             \/ CreateNewIdentity(q, s) \/ CreateExistingIdentitySession(q, s)
             \/ SignInCommit(q, s) \/ CurrentSession(q, s)
      PROVE  Safe'
  BY <1>4, InsertStep, CurrentSessionStep
<1>5. ASSUME NEW q \in Requests, RequestResetProvider(q)
      PROVE  Safe'
  <2>1. work[q].user \in Users
    BY <1>5 DEF RequestResetProvider, Busy, Safe, Fits
  <2>2. QED
    BY <1>5, <2>1, ProviderStep
<1>6. ASSUME NEW q \in Requests,
             \/ VerifyEmailCommit(q)
             \/ SignInFindUser(q) \/ ResolveCurrentUser(q) \/ Answer(q)
             \/ SignOutRead(q) \/ SignOutCommit(q)
             \/ ChangePasswordRead(q) \/ ChangePasswordProvider(q)
             \/ ChangePasswordCommit(q) \/ RequestResetCommit(q)
             \/ ResetPasswordRead(q) \/ ResetPasswordCommit(q)
             \/ Abandon(q)
      PROVE  Safe'
  BY <1>6, VerifyCommitStep, SignInFindUserStep, BoundStep, EndStep,
     SignOutStep, ChangeProviderStep, AnnounceStep, ResetReadStep,
     ResetCommitStep
<1>7. QED
  BY <1>1, <1>2, <1>3, <1>4, <1>5, <1>6 DEF Next

\* What requests remember still fits when they use it, whatever the others
\* have done; and every safety property of the sessions holds.
THEOREM SessionsAreSafe == Spec => []Safe
<1>1. QED
  BY SafeInit, SafeNext, PTL DEF Spec

\* Every variable has its type.
THEOREM SessionsTypeCorrect == Spec => []TypeOK
<1>1. Safe => TypeOK
  BY DEF Safe
<1>2. QED
  BY <1>1, SessionsAreSafe, PTL

\* No session that was stored before a completed reset replaced the password
\* is active, however many sign-ins, changes and resets run at once.
THEOREM ResetsEndSessions == Spec => []ResetEndsStoredSessions
<1>1. Safe => ResetEndsStoredSessions
  BY DEF Safe
<1>2. QED
  BY <1>1, SessionsAreSafe, PTL

\* Replaying the events of a session yields its row.
THEOREM SessionEventsAreFaithful == Spec => []SessionsAreAnnounced
<1>1. Safe => SessionsAreAnnounced
  BY DEF Safe
<1>2. QED
  BY <1>1, SessionsAreSafe, PTL

\* A request bound to a session acts for an active identity that owns it.
THEOREM ActorsAreActiveOwners == Spec => []ActorsAreActive
<1>1. Safe => ActorsAreActive
  BY DEF Safe, Fits, Binds, ActsForActive, SessionSteps, ActorsAreActive
<1>2. QED
  BY <1>1, SessionsAreSafe, PTL
=============================================================================
