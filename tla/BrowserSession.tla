--------------------------- MODULE BrowserSession ---------------------------
(***************************************************************************)
(* How somebody stays signed in: the refresh tokens of the server          *)
(* (internal/auth, internal/httpapi) and the pages of one browser          *)
(* (web/src/lib/api.ts, useAuth.tsx, Login.tsx), for one account.          *)
(*                                                                         *)
(* The access token lives minutes and is in localStorage, which the pages  *)
(* share; the refresh token is in a cookie, which they share as well.  A   *)
(* request that is answered 401 refreshes and is sent once more.  Every    *)
(* refresh rotates the cookie: its token is looked up on the read pool,    *)
(* and retired in the transaction that writes the next one.                *)
(*                                                                         *)
(* Time is a choice: a token is found past it, or not, when it is looked   *)
(* at, and so is an access token that a reset has outdated.  Of requests   *)
(* only those are seen that the middleware refuses, and one that is sent   *)
(* again is answered on the spot.  A refresh may be lost on the way there  *)
(* or back; the server gives up with its caller.  A token that was revoked *)
(* without being replaced is refused as one that never was, and so the     *)
(* model forgets it; one that was replaced it forgets when nobody holds it *)
(* any more.                                                               *)
(***************************************************************************)
EXTENDS Naturals, FiniteSets

CONSTANTS
    Tab,            \* the pages of the browser
    Request,        \* requests that may be under way at a time
    TabOf,          \* the page of each request
    Token,          \* refresh tokens
    MaxSignIns,     \* bound: sign-ins, each of which starts a family
    None,           \* nothing: no token, no flight, no request
    Asked,          \* a request that was answered 401
    Absent          \* no row

(* A row of sessions that is not revoked, or only by its replacement.      *)
Row == [ family : 1..MaxSignIns, replaced : BOOLEAN ]

(* A refresh under way: the token it left with, what the server has read   *)
(* of it, and the one that is to come back.                                *)
Flight == [ phase : {"sent", "read", "ok", "no"}, token : Token \cup {None},
            family : (1..MaxSignIns) \cup {None}, next : Token \cup {None} ]

ASSUME SessionAssumption ==
    /\ TabOf \in [Request -> Tab]
    /\ Tab \cap Request = {}
    /\ MaxSignIns \in Nat
    /\ None \notin Token \cup Tab \cup Request \cup Flight
    /\ Asked \notin {None} \cup Tab \cup Request
    /\ Absent \notin Row

VARIABLES
    active,         \* the account is enabled
    sessions,       \* the sessions table
    signIns,        \* the families there have been
    cookie,         \* nexus_refresh
    stored,         \* there is a nexus.token
    pages,          \* what each page shows, and what it has under way
    requests,       \* the refused requests, and the flights they wait for
    flights,        \* POST /auth/refresh, by what started it
    ended,          \* history: the families that were revoked on purpose
    forked,         \* history: those with a rotation of a token already retired
    unheard         \* history: a rotation of this cookie got no answer

server == <<active, sessions, signIns, ended, forked>>
browser == <<cookie, stored, pages, unheard>>
vars == <<server, browser, requests, flights>>

Starter == Request \cup Tab         \* a page starts one when it opens

PageOf(s) == IF s \in Tab THEN s ELSE TabOf[s]

Live(k) == sessions[k] # Absent /\ ~ sessions[k].replaced

Replay(k) == sessions[k] # Absent /\ sessions[k].replaced

Held(k) ==
    \/ k = cookie
    \/ \E s \in Starter : flights[s] # None /\ k \in {flights[s].token, flights[s].next}

Forget == sessions' = [ k \in Token |-> IF Replay(k) /\ ~ Held(k)' THEN Absent ELSE sessions[k] ]

Unused == { k \in Token : ~ Live(k) /\ ~ Held(k) }

NewRow(family) == [ family |-> family, replaced |-> FALSE ]

Families == 1..signIns

(* RevokeFamily, and RevokeUser, which revokes every family.               *)
Without(rows, families) ==
    [ k \in Token |->
        IF rows[k] # Absent /\ ~ rows[k].replaced /\ rows[k].family \in families THEN Absent ELSE rows[k] ]

Revoke(families) == Without(sessions, families)

Init ==
    /\ active = TRUE
    /\ sessions = [k \in Token |-> Absent]
    /\ signIns = 0
    /\ cookie = None /\ stored = FALSE /\ unheard = FALSE
    /\ pages = [t \in Tab |-> [shown |-> FALSE, refreshing |-> None]]
    /\ requests = [q \in Request |-> None]
    /\ flights = [s \in Starter |-> None]
    /\ ended = {} /\ forked = {}

-----------------------------------------------------------------------------
(* Requests: web/src/lib/api.ts                                            *)

Departure == [ phase |-> "sent", token |-> cookie, family |-> None, next |-> None ]

(* refreshSession: the flight a page that needs one joins.  The variant    *)
(* gives each request its own.                                             *)
OwnFlight(t) == None
CurrentFlight(t) == pages[t].refreshing

(* A page asks, and the middleware refuses: there is no access token, it   *)
(* is past its time or outdated, or the account is disabled.               *)
Ask(q) ==
    /\ requests[q] = None
    /\ pages[TabOf[q]].shown
    /\ requests' = [requests EXCEPT ![q] = Asked]
    /\ UNCHANGED <<server, browser, flights>>

Refresh(q) ==
    LET t == TabOf[q]
        joined == CurrentFlight(t)
        on == IF joined = None THEN q ELSE joined
    IN  /\ requests[q] = Asked
        /\ requests' = [requests EXCEPT ![q] = on]
        /\ flights' = IF joined = None THEN [flights EXCEPT ![q] = Departure] ELSE flights
        /\ pages' = [pages EXCEPT ![t].refreshing = on]
        /\ UNCHANGED <<server, cookie, stored, unheard>>

Waiting(s) == { q \in Request : requests[q] = s }

(* When a flight is over everybody waiting goes on: is sent once more, or  *)
(* is given up, and then the page shows the door.  The variant forgets     *)
(* those that only joined.                                                 *)
ResumedFirst(s) == [ q \in Request |-> IF q = s THEN None ELSE requests[q] ]
Resumed(s) == [ q \in Request |-> IF q \in Waiting(s) THEN None ELSE requests[q] ]

Landed(s, good) ==
    [pages EXCEPT ![PageOf(s)].refreshing = None,
                  ![PageOf(s)].shown = IF good THEN @ \/ s \in Tab ELSE @ /\ Waiting(s) = {}]

Refreshed(s) ==
    LET f == flights[s]
    IN  /\ f # None /\ f.phase = "ok"
        /\ cookie' = f.next /\ unheard' = FALSE
        /\ stored' = TRUE
        /\ requests' = Resumed(s)
        /\ pages' = Landed(s, TRUE)
        /\ flights' = [flights EXCEPT ![s] = None]
        /\ Forget
        /\ UNCHANGED <<active, signIns, ended, forked>>

NotRefreshed(s) ==
    /\ stored' = (stored /\ Waiting(s) = {})
    /\ requests' = Resumed(s)
    /\ pages' = Landed(s, FALSE)
    /\ flights' = [flights EXCEPT ![s] = None]
    /\ UNCHANGED <<active, signIns, ended, forked>>

(* A refusal clears the cookie there is by then, unless there was none.    *)
Refused(s) ==
    LET f == flights[s]
    IN  /\ f # None /\ f.phase = "no"
        /\ cookie' = IF f.token = None THEN cookie ELSE None
        /\ unheard' = (unheard /\ f.token = None)
        /\ NotRefreshed(s)
        /\ Forget

Unheard(s) == flights[s] # None /\ flights[s].next # None /\ flights[s].token = cookie

Lose(s) ==
    /\ flights[s] # None
    /\ unheard' = (unheard \/ Unheard(s))
    /\ NotRefreshed(s)
    /\ UNCHANGED cookie
    /\ Forget

-----------------------------------------------------------------------------
(* Refreshing on the server: handlers_session.go, session.go               *)

At(s, phase) == flights[s] # None /\ flights[s].phase = phase

Moved(s, phase) == flights' = [flights EXCEPT ![s].phase = phase]

(* Rotate looks the token up: one that was rotated away takes its family   *)
(* with it, if the store does not fail, which is answered like a refusal.  *)
RotateRead(s) ==
    LET k == flights[s].token
    IN  /\ At(s, "sent")
        /\ \/ Moved(s, "no") /\ UNCHANGED <<sessions, ended>>
           \/ /\ k # None /\ Replay(k)
              /\ sessions' = Revoke({sessions[k].family})
              /\ ended' = ended \cup {sessions[k].family}
              /\ Moved(s, "no")
           \/ /\ k # None /\ Live(k)
              /\ flights' = [flights EXCEPT ![s].phase = "read", ![s].family = sessions[k].family]
              /\ UNCHANGED <<sessions, ended>>
        /\ UNCHANGED <<active, signIns, forked, browser, requests>>

(* insert: the next token, and the end of the one before.  The variant     *)
(* leaves that one alone.                                                  *)
RetireNot(k, family, next) ==
    [sessions EXCEPT ![next] = NewRow(family)]
Retire(k, family, next) ==
    [sessions EXCEPT ![next] = NewRow(family), ![k] = [family |-> family, replaced |-> TRUE]]

(* refresh looks at the account after its token has been rotated, and ends *)
(* every session of one that is disabled.  The variant does not look.      *)
LetIn == TRUE
Admitted == active

RotateWrite(s) ==
    LET f == flights[s]
        next == CHOOSE n \in Unused : TRUE
        rows == Retire(f.token, f.family, next)
    IN  /\ At(s, "read")
        /\ Unused # {}
        /\ forked' = IF Live(f.token) THEN forked ELSE forked \cup {f.family}
        /\ flights' = [flights EXCEPT ![s].phase = IF Admitted THEN "ok" ELSE "no", ![s].next = next]
        /\ \/ /\ Admitted
              /\ sessions' = rows
              /\ UNCHANGED ended
           \/ /\ ~ Admitted
              /\ sessions' = Without(rows, Families)
              /\ ended' = ended \cup Families
        /\ UNCHANGED <<active, signIns, browser, requests>>

RotateFails(s) ==
    /\ At(s, "read")
    /\ Moved(s, "no")
    /\ UNCHANGED <<server, browser, requests>>

-----------------------------------------------------------------------------
(* Signing in and out, and opening a page                                  *)

(* login starts a family.                                                  *)
SignIn(t) ==
    LET next == CHOOSE n \in Unused : TRUE
    IN  /\ ~ pages[t].shown
        /\ active
        /\ signIns < MaxSignIns /\ Unused # {}
        /\ signIns' = signIns + 1
        /\ sessions' = [sessions EXCEPT ![next] = NewRow(signIns + 1)]
        /\ cookie' = next /\ unheard' = FALSE
        /\ stored' = TRUE
        /\ pages' = [pages EXCEPT ![t].shown = TRUE]
        /\ UNCHANGED <<active, ended, forked, requests, flights>>

(* signOut: the page leaves, logout revokes the token it is given if that  *)
(* is not revoked yet, and its answer clears the cookie and the access     *)
(* token.                                                                  *)
SignOut(t) ==
    /\ pages[t].shown
    /\ pages' = [pages EXCEPT ![t].shown = FALSE]
    /\ cookie' = None /\ unheard' = FALSE
    /\ stored' = FALSE
    /\ UNCHANGED <<active, signIns, forked, requests, flights>>
    /\ IF cookie # None /\ Live(cookie)
       THEN /\ sessions' = [sessions EXCEPT ![cookie] = Absent]
            /\ ended' = ended \cup {sessions[cookie].family}
       ELSE Forget /\ UNCHANGED ended

(* A reload drops what the page had under way.  Without an access token it *)
(* tries the cookie.                                                       *)
Reload(t) ==
    LET mine == { s \in Starter : PageOf(s) = t }
        restore == ~ stored
    IN  /\ flights' = [ s \in Starter |->
              IF s \notin mine THEN flights[s] ELSE IF s = t /\ restore THEN Departure ELSE None ]
        /\ unheard' = (unheard \/ \E s \in mine : Unheard(s))
        /\ requests' = [ q \in Request |-> IF TabOf[q] = t THEN None ELSE requests[q] ]
        /\ pages' = [pages EXCEPT ![t] =
              [shown |-> ~ restore, refreshing |-> IF restore THEN t ELSE None]]
        /\ UNCHANGED <<active, signIns, ended, forked, cookie, stored>>
        /\ Forget

-----------------------------------------------------------------------------
(* The account meanwhile                                                   *)

Disable ==
    /\ active
    /\ active' = FALSE
    /\ UNCHANGED <<sessions, signIns, ended, forked, browser, requests, flights>>

Enable ==
    /\ ~ active
    /\ active' = TRUE
    /\ UNCHANGED <<sessions, signIns, ended, forked, browser, requests, flights>>

(* resetPassword ends every session.                                       *)
ResetPassword ==
    /\ \E k \in Token : Live(k)
    /\ sessions' = Revoke(Families)
    /\ ended' = ended \cup Families
    /\ UNCHANGED <<active, signIns, forked, browser, requests, flights>>

-----------------------------------------------------------------------------
(* A handler of the server, and what a page does with an answer.           *)
Handler(s) ==
    RotateRead(s) \/ RotateWrite(s) \/ RotateFails(s)

Answer(s) == Refreshed(s) \/ Refused(s)

Next ==
    \/ \E q \in Request : Ask(q) \/ Refresh(q)
    \/ \E s \in Starter : Handler(s) \/ Answer(s) \/ Lose(s)
    \/ \E t \in Tab : SignIn(t) \/ SignOut(t) \/ Reload(t)
    \/ Disable \/ Enable \/ ResetPassword

(* What was begun goes on: the server answers, the browser delivers the    *)
(* answer or gives up, and the page that awaits it runs.  Nobody has to    *)
(* click.  A page has one flight at a time.                                *)
Goes(t) == \E s \in Starter : PageOf(s) = t /\ (Lose(s) \/ Answer(s) \/ Handler(s))

Fairness ==
    /\ \A q \in Request : WF_vars(Refresh(q))
    /\ \A t \in Tab : WF_vars(Goes(t))

Spec == Init /\ [][Next]_vars /\ Fairness

-----------------------------------------------------------------------------
(* Properties                                                              *)

(* Every variable has its type; a page has one flight at a time, and who   *)
(* waits does so for one that is under way.                                *)
TypeOK ==
    /\ active \in BOOLEAN /\ stored \in BOOLEAN /\ unheard \in BOOLEAN
    /\ sessions \in [Token -> Row \cup {Absent}]
    /\ signIns \in 0..MaxSignIns
    /\ cookie \in Token \cup {None}
    /\ pages \in [Tab -> [shown : BOOLEAN, refreshing : Starter \cup {None}]]
    /\ requests \in [Request -> Starter \cup {None, Asked}]
    /\ flights \in [Starter -> Flight \cup {None}]
    /\ ended \cup forked \subseteq 1..MaxSignIns
    /\ \A s \in Starter : flights[s] # None => pages[PageOf(s)].refreshing = s
    /\ \A q \in Request : requests[q] \in Starter => flights[requests[q]] # None

(* api.ts, docs/rules/auth.md: the requests of one page do not use up its  *)
(* own session.  It takes another page, an answer that was lost, or a      *)
(* cookie that has changed meanwhile, for a rotated token to come again.   *)
ReplaysAreExplained ==
    [][\A s \in Starter : At(s, "sent") /\ At(s, "no")' =>
          LET k == flights[s].token
          IN  \/ k = None \/ unheard \/ cookie # k
              \/ ~ Replay(k)
              \/ \E u \in Starter : PageOf(u) # PageOf(s) /\ flights[u] # None /\ flights[u].token = k]_vars

(* session.go, handlers_users.go: a sign-in that was ended by signing out, *)
(* by a reset, by closing the account or by a replay has no token left     *)
(* that works.  Only a rotation that had read its token before, and wrote  *)
(* after, leaves one.                                                      *)
EndedStayEnded ==
    \A k \in Token : Live(k) /\ sessions[k].family \in ended => sessions[k].family \in forked

(* Every request is answered, whatever refreshes it has to wait for.       *)
RequestsSettle == \A q \in Request : requests[q] # None ~> requests[q] = None

(* middleware.go, useAuth.tsx: on a page that keeps asking, and is not     *)
(* reloaded in the middle of it, somebody whose account stays disabled     *)
(* gets to see the door.                                                   *)
Asking(t) == \E q \in Request : TabOf[q] = t /\ requests[q] # None

DoorIsShown ==
    \A t \in Tab :
        <>[](~ active) /\ <>[][~ Reload(t)]_vars =>
            ([]<>Asking(t) => []<>(~ pages[t].shown))
=============================================================================
