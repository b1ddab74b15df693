----------------------- MODULE BrowserSession_proofs -----------------------
(***************************************************************************)
(* Theorems about the sessions of a browser, for any number of pages,      *)
(* requests, tokens and sign-ins.                                          *)
(***************************************************************************)
EXTENDS BrowserSession, TLAPS

-----------------------------------------------------------------------------
(* What the steps do to the sessions table                                 *)

(* Rows only go.                                                           *)
Drops ==
    /\ sessions' \in [Token -> Row \cup {Absent}]
    /\ \A k \in Token : sessions'[k] \in {sessions[k], Absent}

LEMMA ForgetDrops ==
    ASSUME TypeOK, Forget
    PROVE  Drops
BY DEF TypeOK, Forget, Drops

LEMMA WithoutDrops ==
    ASSUME NEW rows \in [Token -> Row \cup {Absent}], NEW families
    PROVE  /\ Without(rows, families) \in [Token -> Row \cup {Absent}]
           /\ \A k \in Token :
                 /\ Without(rows, families)[k] \in {rows[k], Absent}
                 /\ Without(rows, families)[k] # Absent /\ ~ rows[k].replaced
                       => rows[k].family \notin families
BY DEF Without

(* A token that is given out is one that nobody holds.                     *)
LEMMA UnusedChosen ==
    ASSUME Unused # {}
    PROVE  LET next == CHOOSE n \in Unused : TRUE
           IN  next \in Token /\ ~ Live(next) /\ ~ Held(next)
BY DEF Unused

LEMMA RetireTyped ==
    ASSUME TypeOK, NEW k \in Token, NEW family \in 1..MaxSignIns, NEW next \in Token
    PROVE  /\ Retire(k, family, next) \in [Token -> Row \cup {Absent}]
           /\ \A l \in Token \ {k, next} : Retire(k, family, next)[l] = sessions[l]
           /\ Retire(k, family, next)[k] = [family |-> family, replaced |-> TRUE]
           /\ k # next => Retire(k, family, next)[next] = [family |-> family, replaced |-> FALSE]
BY DEF TypeOK, Retire, NewRow, Row

-----------------------------------------------------------------------------
(* Type correctness                                                        *)

(* A page refreshes for itself, and its requests wait for its own flight.  *)
OnePageEach ==
    /\ \A t \in Tab : pages[t].refreshing # None =>
          flights[pages[t].refreshing] # None /\ PageOf(pages[t].refreshing) = t
    /\ \A q \in Request : requests[q] \in Starter => PageOf(requests[q]) = TabOf[q]

(* A rotation that is under way knows what it rotates.                     *)
InPhase ==
    \A s \in Starter : flights[s] # None =>
        /\ flights[s].next # None => flights[s].phase \in {"ok", "no"}
        /\ flights[s].phase = "read" => flights[s].token \in Token /\ flights[s].family \in 1..signIns

FamiliesBegun ==
    /\ \A k \in Token : sessions[k] # Absent => sessions[k].family \in 1..signIns
    /\ ended \subseteq 1..signIns

Shape == TypeOK /\ OnePageEach /\ InPhase /\ FamiliesBegun

LEMMA PageTyped ==
    ASSUME NEW s \in Starter
    PROVE  PageOf(s) \in Tab
BY SessionAssumption DEF Starter, PageOf

LEMMA DepartureTyped ==
    ASSUME TypeOK
    PROVE  /\ Departure \in Flight /\ Departure # None
           /\ Departure.phase = "sent" /\ Departure.next = None /\ Departure.token = cookie
BY SessionAssumption DEF TypeOK, Departure, Flight

LEMMA ShapeInit == Init => Shape
<1> SUFFICES ASSUME Init
             PROVE  Shape
  OBVIOUS
<1>1. None \notin Starter /\ Asked \notin Starter /\ 0 \in 0..MaxSignIns
  BY SessionAssumption DEF Starter
<1>2. TypeOK
  BY <1>1, SessionAssumption DEF Init, TypeOK
<1>3. OnePageEach /\ InPhase /\ FamiliesBegun
  BY <1>1 DEF Init, OnePageEach, InPhase, FamiliesBegun
<1> QED
  BY <1>2, <1>3 DEF Shape

(* The browser's half: a step changes who refreshes what.                  *)
LEMMA AskShape ==
    ASSUME Shape, NEW q \in Request, Ask(q)
    PROVE  Shape'
<1>1. /\ requests' = [requests EXCEPT ![q] = Asked]
      /\ UNCHANGED <<active, sessions, signIns, ended, forked, cookie, stored, pages, unheard, flights>>
  BY DEF Ask, server, browser
<1>2. TypeOK'
  BY <1>1, SessionAssumption DEF Shape, TypeOK, Starter
<1> QED
  BY <1>1, <1>2, SessionAssumption
  DEF Shape, TypeOK, OnePageEach, InPhase, FamiliesBegun, Starter, PageOf

LEMMA RefreshShape ==
    ASSUME Shape, NEW q \in Request, Refresh(q)
    PROVE  Shape'
<1> DEFINE t == TabOf[q]
           joined == pages[t].refreshing
           on == IF joined = None THEN q ELSE joined
<1>0. /\ requests[q] = Asked
      /\ requests' = [requests EXCEPT ![q] = on]
      /\ flights' = IF joined = None THEN [flights EXCEPT ![q] = Departure] ELSE flights
      /\ pages' = [pages EXCEPT ![t].refreshing = on]
      /\ UNCHANGED <<active, sessions, signIns, ended, forked, cookie, stored, unheard>>
  BY DEF Refresh, CurrentFlight, server
<1>1. t \in Tab /\ q \in Starter /\ PageOf(q) = t /\ None \notin Starter /\ Asked \notin Starter
  BY SessionAssumption DEF Starter, PageOf
<1>2. joined \in Starter \cup {None} /\ on \in Starter /\ PageOf(on) = t
  BY <1>1 DEF Shape, TypeOK, OnePageEach
<1>3. flights'[on] # None /\ \A s \in Starter : flights[s] # None => flights'[s] # None
  BY <1>0, <1>1, <1>2, DepartureTyped DEF Shape, TypeOK, OnePageEach
<1>4. flights' \in [Starter -> Flight \cup {None}]
  BY <1>0, <1>1, DepartureTyped DEF Shape, TypeOK
<1>5. /\ pages'[t].refreshing = on
      /\ \A u \in Tab \ {t} : pages'[u] = pages[u]
      /\ pages' \in [Tab -> [shown : BOOLEAN, refreshing : Starter \cup {None}]]
  BY <1>0, <1>1, <1>2 DEF Shape, TypeOK
<1>6. \A s \in Starter : flights'[s] # None => pages'[PageOf(s)].refreshing = s
  <2> TAKE s \in Starter
  <2>1. CASE PageOf(s) = t
    BY <1>0, <1>1, <1>2, <1>5, <2>1 DEF Shape, TypeOK
  <2>2. CASE PageOf(s) # t
    BY <1>0, <1>1, <1>5, <2>2, PageTyped DEF Shape, TypeOK
  <2> QED
    BY <2>1, <2>2
<1>7. requests'[q] = on /\ \A r \in Request \ {q} : requests'[r] = requests[r]
  BY <1>0 DEF Shape, TypeOK
<1>8. requests' \in [Request -> Starter \cup {None, Asked}]
  BY <1>0, <1>2 DEF Shape, TypeOK
<1> HIDE DEF on, joined
<1>9. \A r \in Request : requests'[r] \in Starter =>
          flights'[requests'[r]] # None /\ PageOf(requests'[r]) = TabOf[r]
  BY <1>2, <1>3, <1>7 DEF Shape, TypeOK, OnePageEach
<1>10. TypeOK'
  BY <1>0, <1>4, <1>5, <1>6, <1>8, <1>9 DEF Shape, TypeOK
<1>11. OnePageEach'
  <2>1. \A u \in Tab : pages'[u].refreshing # None =>
          flights'[pages'[u].refreshing] # None /\ PageOf(pages'[u].refreshing) = u
    BY <1>1, <1>2, <1>3, <1>5 DEF Shape, TypeOK, OnePageEach
  <2> QED
    BY <1>9, <2>1 DEF OnePageEach
<1>12. InPhase'
  BY <1>0, <1>1, DepartureTyped DEF Shape, TypeOK, InPhase, joined
<1> QED
  BY <1>0, <1>10, <1>11, <1>12 DEF Shape, FamiliesBegun

(* A flight is over, however it ended.                                     *)
Lands(s, shown) ==
    /\ flights[s] # None
    /\ requests' = Resumed(s)
    /\ pages' = [pages EXCEPT ![PageOf(s)].refreshing = None, ![PageOf(s)].shown = shown]
    /\ flights' = [flights EXCEPT ![s] = None]
    /\ cookie' \in Token \cup {None} /\ stored' \in BOOLEAN /\ unheard' \in BOOLEAN
    /\ Drops
    /\ UNCHANGED <<active, signIns, ended, forked>>

LEMMA AnswersLand ==
    ASSUME TypeOK, NEW s \in Starter, Refreshed(s) \/ Refused(s) \/ Lose(s)
    PROVE  \E shown \in BOOLEAN : Lands(s, shown)
<1>1. PageOf(s) \in Tab
  BY PageTyped
<1>2. Drops
  BY ForgetDrops DEF Refreshed, Refused, Lose
<1>3. CASE Refreshed(s)
  <2> DEFINE shown == pages[PageOf(s)].shown \/ s \in Tab
  <2>1. pages' = [pages EXCEPT ![PageOf(s)].refreshing = None, ![PageOf(s)].shown = shown]
    BY <1>1, <1>3 DEF Refreshed, Landed, TypeOK
  <2>2. flights[s] \in Flight
    BY <1>3 DEF Refreshed, TypeOK
  <2>3. cookie' \in Token \cup {None} /\ stored' \in BOOLEAN /\ unheard' \in BOOLEAN
    BY <1>3, <2>2 DEF Refreshed, Flight
  <2>4. /\ flights[s] # None /\ requests' = Resumed(s)
        /\ flights' = [flights EXCEPT ![s] = None]
        /\ UNCHANGED <<active, signIns, ended, forked>>
    BY <1>3 DEF Refreshed
  <2>5. shown \in BOOLEAN
    BY <1>1 DEF TypeOK
  <2> HIDE DEF shown
  <2>6. Lands(s, shown)
    BY <1>2, <2>1, <2>3, <2>4 DEF Lands
  <2> QED
    BY <2>5, <2>6
<1>4. CASE Refused(s) \/ Lose(s)
  <2> DEFINE shown == pages[PageOf(s)].shown /\ Waiting(s) = {}
  <2>0. NotRefreshed(s) /\ flights[s] # None
    BY <1>4 DEF Refused, Lose
  <2>1. pages' = [pages EXCEPT ![PageOf(s)].refreshing = None, ![PageOf(s)].shown = shown]
    BY <1>1, <2>0 DEF NotRefreshed, Landed, TypeOK
  <2>2. stored' \in BOOLEAN
    BY <2>0 DEF NotRefreshed, TypeOK
  <2>3. cookie' \in Token \cup {None} /\ unheard' \in BOOLEAN
    BY <1>4 DEF Refused, Lose, TypeOK
  <2>4. /\ requests' = Resumed(s)
        /\ flights' = [flights EXCEPT ![s] = None]
        /\ UNCHANGED <<active, signIns, ended, forked>>
    BY <2>0 DEF NotRefreshed
  <2>5. shown \in BOOLEAN
    BY <1>1 DEF TypeOK
  <2> HIDE DEF shown
  <2>6. Lands(s, shown)
    BY <1>2, <2>0, <2>1, <2>2, <2>3, <2>4 DEF Lands
  <2> QED
    BY <2>5, <2>6
<1> QED
  BY <1>3, <1>4

LEMMA LandShape ==
    ASSUME Shape, NEW s \in Starter, NEW shown \in BOOLEAN, Lands(s, shown)
    PROVE  Shape'
<1>1. PageOf(s) \in Tab /\ None \notin Starter
  BY PageTyped, SessionAssumption DEF Starter
<1>2. /\ pages'[PageOf(s)].refreshing = None
      /\ \A t \in Tab \ {PageOf(s)} : pages'[t] = pages[t]
      /\ pages' \in [Tab -> [shown : BOOLEAN, refreshing : Starter \cup {None}]]
  BY <1>1 DEF Lands, Shape, TypeOK
<1>3. /\ flights'[s] = None /\ \A u \in Starter \ {s} : flights'[u] = flights[u]
      /\ flights' \in [Starter -> Flight \cup {None}]
  BY DEF Lands, Shape, TypeOK
<1>4. /\ requests' \in [Request -> Starter \cup {None, Asked}]
      /\ \A q \in Request : /\ requests[q] = s => requests'[q] = None
                            /\ requests[q] # s => requests'[q] = requests[q]
  BY DEF Lands, Resumed, Waiting, Shape, TypeOK
<1>5. pages[PageOf(s)].refreshing = s
  BY DEF Lands, Shape, TypeOK
<1>6. \A u \in Starter : flights'[u] # None => pages'[PageOf(u)].refreshing = u
  <2> TAKE u \in Starter
  <2>1. flights'[u] # None => u # s /\ flights[u] # None /\ pages[PageOf(u)].refreshing = u
    BY <1>3 DEF Shape, TypeOK
  <2>2. flights'[u] # None => PageOf(u) # PageOf(s)
    BY <1>5, <2>1
  <2> QED
    BY <1>2, <2>1, <2>2, PageTyped
<1>7. \A q \in Request : requests'[q] \in Starter =>
          flights'[requests'[q]] # None /\ PageOf(requests'[q]) = TabOf[q]
  BY <1>1, <1>3, <1>4 DEF Shape, TypeOK, OnePageEach
<1>8. TypeOK'
  BY <1>2, <1>3, <1>4, <1>6, <1>7 DEF Lands, Drops, Shape, TypeOK
<1>9. OnePageEach'
  <2>1. ASSUME NEW t \in Tab, pages'[t].refreshing # None
        PROVE  flights'[pages'[t].refreshing] # None /\ PageOf(pages'[t].refreshing) = t
    <3>1. t # PageOf(s) /\ pages'[t] = pages[t]
      BY <1>2, <2>1
    <3>2. /\ flights[pages[t].refreshing] # None /\ PageOf(pages[t].refreshing) = t
          /\ pages[t].refreshing \in Starter
      BY <2>1, <3>1 DEF Shape, TypeOK, OnePageEach
    <3> QED
      BY <1>3, <3>1, <3>2
  <2> QED
    BY <1>7, <2>1 DEF OnePageEach
<1>10. InPhase' /\ FamiliesBegun'
  BY <1>3 DEF Lands, Drops, Shape, InPhase, FamiliesBegun
<1> QED
  BY <1>8, <1>9, <1>10 DEF Shape

(* The server's half: it works on the flights there are.                   *)
LEMMA PagesStay ==
    ASSUME Shape, UNCHANGED <<pages, requests>>,
           \A s \in Starter : flights'[s] # None <=> flights[s] # None
    PROVE  /\ OnePageEach'
           /\ pages' \in [Tab -> [shown : BOOLEAN, refreshing : Starter \cup {None}]]
           /\ requests' \in [Request -> Starter \cup {None, Asked}]
           /\ \A s \in Starter : flights'[s] # None => pages'[PageOf(s)].refreshing = s
           /\ \A q \in Request : requests'[q] \in Starter => flights'[requests'[q]] # None
BY DEF Shape, TypeOK, OnePageEach

(* What becomes of one flight at the server.                               *)
LEMMA FlightStays ==
    ASSUME TypeOK, NEW s \in Starter, flights[s] # None, NEW f \in Flight,
           flights' = [flights EXCEPT ![s] = f]
    PROVE  /\ flights' \in [Starter -> Flight \cup {None}]
           /\ \A u \in Starter : flights'[u] # None <=> flights[u] # None
           /\ flights'[s] = f /\ \A u \in Starter \ {s} : flights'[u] = flights[u]
BY SessionAssumption DEF TypeOK

LEMMA RotateReadShape ==
    ASSUME Shape, NEW s \in Starter, RotateRead(s)
    PROVE  Shape'
<1> DEFINE old == flights[s]
           f == flights'[s]
           k == old.token
<1>1. old # None /\ old \in Flight /\ old.phase = "sent"
  BY DEF RotateRead, At, Shape, TypeOK
<1>2. k # None => k \in Token
  BY <1>1 DEF Flight
<1>3. /\ UNCHANGED <<active, signIns, forked, cookie, stored, pages, unheard, requests>>
      /\ \/ flights' = [flights EXCEPT ![s].phase = "no"] /\ UNCHANGED <<sessions, ended>>
         \/ /\ k \in Token /\ Replay(k)
            /\ sessions' = Revoke({sessions[k].family})
            /\ ended' = ended \cup {sessions[k].family}
            /\ flights' = [flights EXCEPT ![s].phase = "no"]
         \/ /\ k \in Token /\ Live(k)
            /\ flights' = [flights EXCEPT ![s].phase = "read", ![s].family = sessions[k].family]
            /\ UNCHANGED <<sessions, ended>>
  BY <1>2 DEF RotateRead, Moved, browser
<1>4. \A l \in Token : sessions[l] # Absent => sessions[l] \in Row /\ sessions[l].family \in 1..signIns
  BY DEF Shape, TypeOK, FamiliesBegun
<1>5. signIns \in 0..MaxSignIns /\ 1..signIns \subseteq 1..MaxSignIns
  BY SessionAssumption DEF Shape, TypeOK
<1>6. Drops
  BY <1>3, WithoutDrops DEF Shape, TypeOK, Drops, Revoke
<1>7. ended' \subseteq 1..signIns
  BY <1>3, <1>4 DEF Shape, FamiliesBegun, Replay
<1>8. /\ flights' \in [Starter -> Flight \cup {None}]
      /\ \A u \in Starter : flights'[u] # None <=> flights[u] # None
      /\ \A u \in Starter \ {s} : flights'[u] = flights[u]
      /\ f.next = old.next /\ f.token = old.token /\ f.phase \in {"no", "read"}
      /\ f.phase = "read" => f.token \in Token /\ f.family \in 1..signIns
  <2>1. CASE flights' = [flights EXCEPT ![s].phase = "no"]
    <3>1. [old EXCEPT !.phase = "no"] \in Flight
      BY <1>1 DEF Flight
    <3>2. flights' = [flights EXCEPT ![s] = [old EXCEPT !.phase = "no"]]
      BY <2>1
    <3>3. f = [old EXCEPT !.phase = "no"]
      BY <1>1, <3>1, <3>2, FlightStays DEF Shape
    <3>4. f.next = old.next /\ f.token = old.token /\ f.phase = "no"
      BY <1>1, <3>3 DEF Flight
    <3> HIDE DEF f, old
    <3> QED
      BY <1>1, <3>1, <3>2, <3>4, FlightStays DEF Shape, old
  <2>2. CASE /\ k \in Token /\ Live(k)
             /\ flights' = [flights EXCEPT ![s].phase = "read", ![s].family = sessions[k].family]
    <3> DEFINE new == [old EXCEPT !.phase = "read", !.family = sessions[k].family]
    <3>0. sessions[k].family \in 1..signIns /\ sessions[k].family \in 1..MaxSignIns
      BY <1>4, <1>5, <2>2 DEF Live
    <3>1. new \in Flight /\ new.next = old.next /\ new.token = old.token /\ new.phase = "read"
          /\ new.family = sessions[k].family
      BY <1>1, <3>0 DEF Flight
    <3>2. flights' = [flights EXCEPT ![s] = new]
      BY <2>2
    <3> HIDE DEF new
    <3>3. f = new
      BY <1>1, <3>1, <3>2, FlightStays DEF Shape
    <3> HIDE DEF f
    <3> QED
      BY <1>1, <2>2, <3>0, <3>1, <3>2, <3>3, FlightStays DEF Shape
  <2> QED
    BY <1>3, <2>1, <2>2
<1>9. OnePageEach' /\ TypeOK'
  <2>1. ended' \cup forked' \subseteq 1..MaxSignIns
    BY <1>3, <1>5, <1>7 DEF Shape, TypeOK
  <2> HIDE DEF f, old, k
  <2> QED
    BY <1>3, <1>6, <1>8, <2>1, PagesStay DEF Shape, TypeOK, Drops
<1>10. InPhase'
  <2>1. old.next = None
    BY <1>1 DEF Shape, InPhase
  <2> HIDE DEF old, k
  <2> QED
    BY <1>3, <1>8, <2>1 DEF Shape, InPhase
<1>11. FamiliesBegun'
  BY <1>3, <1>4, <1>6, <1>7 DEF FamiliesBegun, Drops
<1> QED
  BY <1>9, <1>10, <1>11 DEF Shape

(* What a rotation writes: the next token, and with a disabled account the *)
(* end of everything.                                                      *)
Writes(s, next) ==
    LET f == flights[s]
        rows == Retire(f.token, f.family, next)
    IN  /\ f # None /\ f.phase = "read"
        /\ next \in Token /\ ~ Live(next) /\ ~ Held(next)
        /\ forked' = IF Live(f.token) THEN forked ELSE forked \cup {f.family}
        /\ \/ /\ sessions' = rows
              /\ flights' = [flights EXCEPT ![s].phase = "ok", ![s].next = next]
              /\ UNCHANGED ended
           \/ /\ sessions' = Without(rows, Families)
              /\ flights' = [flights EXCEPT ![s].phase = "no", ![s].next = next]
              /\ ended' = ended \cup Families
        /\ UNCHANGED <<active, signIns, browser, requests>>

LEMMA RotateWriteWrites ==
    ASSUME NEW s \in Starter, RotateWrite(s)
    PROVE  \E next : Writes(s, next)
<1> DEFINE next == CHOOSE n \in Unused : TRUE
<1>1. next \in Token /\ ~ Live(next) /\ ~ Held(next)
  BY UnusedChosen DEF RotateWrite
<1>2. Writes(s, next)
  <2> HIDE DEF next
  <2> QED
    BY <1>1 DEF RotateWrite, Writes, At, next
<1> QED
  BY <1>2

(* The flight whose rotation is written comes to know the next token.      *)
LEMMA WritesFlights ==
    ASSUME Shape, NEW s \in Starter, NEW next, Writes(s, next)
    PROVE  /\ flights' \in [Starter -> Flight \cup {None}]
           /\ \A u \in Starter : flights'[u] # None <=> flights[u] # None
           /\ \A u \in Starter \ {s} : flights'[u] = flights[u]
           /\ flights'[s].token = flights[s].token /\ flights'[s].family = flights[s].family
           /\ flights'[s].next = next /\ flights'[s].phase \in {"ok", "no"}
<1> DEFINE old == flights[s]
<1>1. old # None /\ old \in Flight /\ next \in Token
  BY DEF Writes, Shape, TypeOK
<1>2. ASSUME NEW phase \in {"ok", "no"},
             flights' = [flights EXCEPT ![s].phase = phase, ![s].next = next]
      PROVE  /\ flights' \in [Starter -> Flight \cup {None}]
             /\ \A u \in Starter : flights'[u] # None <=> flights[u] # None
             /\ \A u \in Starter \ {s} : flights'[u] = flights[u]
             /\ flights'[s].token = flights[s].token /\ flights'[s].family = flights[s].family
             /\ flights'[s].next = next /\ flights'[s].phase \in {"ok", "no"}
  <2> DEFINE new == [old EXCEPT !.phase = phase, !.next = next]
  <2>1. /\ new \in Flight /\ new.token = old.token /\ new.family = old.family
        /\ new.next = next /\ new.phase = phase
    BY <1>1 DEF Flight
  <2>2. flights' = [flights EXCEPT ![s] = new]
    BY <1>2
  <2> HIDE DEF new
  <2> QED
    BY <1>1, <2>1, <2>2, FlightStays DEF Shape
<1> QED
  BY <1>2 DEF Writes

(* The rows a rotation leaves: the one it retires, the one it adds, unless *)
(* everything ends, and others that were there.                            *)
LEMMA WritesRows ==
    ASSUME Shape, NEW s \in Starter, NEW next, Writes(s, next)
    PROVE  /\ sessions' \in [Token -> Row \cup {Absent}]
           /\ flights[s].token \in Token /\ flights[s].family \in 1..signIns
           /\ flights[s].family \in 1..MaxSignIns
           /\ next \in Token /\ next # flights[s].token
           /\ \A l \in Token \ {flights[s].token, next} : sessions'[l] \in {sessions[l], Absent}
           /\ sessions'[flights[s].token] \in
                 {[family |-> flights[s].family, replaced |-> TRUE], Absent}
           /\ sessions'[next] \in {[family |-> flights[s].family, replaced |-> FALSE], Absent}
<1> DEFINE k == flights[s].token
           family == flights[s].family
           rows == Retire(k, family, next)
<1>1. /\ k \in Token /\ family \in 1..signIns /\ next \in Token /\ next # k
  BY DEF Writes, Held, Shape, InPhase
<1>2. family \in 1..MaxSignIns
  BY <1>1, SessionAssumption DEF Shape, TypeOK
<1>3. sessions' = rows \/ sessions' = Without(rows, Families)
  BY DEF Writes
<1> HIDE DEF k, family
<1>4. /\ rows \in [Token -> Row \cup {Absent}]
      /\ \A l \in Token \ {k, next} : rows[l] = sessions[l]
      /\ rows[k] = [family |-> family, replaced |-> TRUE]
      /\ rows[next] = [family |-> family, replaced |-> FALSE]
  BY <1>1, <1>2, RetireTyped DEF Shape
<1> HIDE DEF rows
<1>5. /\ sessions' \in [Token -> Row \cup {Absent}]
      /\ \A l \in Token : sessions'[l] \in {rows[l], Absent}
  BY <1>3, <1>4, WithoutDrops
<1> QED
  BY <1>1, <1>2, <1>4, <1>5 DEF k, family

LEMMA RotateWriteShape ==
    ASSUME Shape, NEW s \in Starter, RotateWrite(s)
    PROVE  Shape'
<1>1. PICK next : Writes(s, next)
  BY RotateWriteWrites
<1> DEFINE k == flights[s].token
           family == flights[s].family
<1>2. /\ UNCHANGED <<active, signIns, cookie, stored, pages, unheard, requests>>
      /\ forked' \subseteq forked \cup {family}
      /\ ended' \subseteq ended \cup Families
  BY <1>1 DEF Writes, browser
<1>3. signIns \in 0..MaxSignIns /\ 1..signIns \subseteq 1..MaxSignIns
  BY SessionAssumption DEF Shape, TypeOK
<1>4. /\ sessions' \in [Token -> Row \cup {Absent}]
      /\ family \in 1..signIns /\ family \in 1..MaxSignIns
      /\ \A l \in Token \ {k, next} : sessions'[l] \in {sessions[l], Absent}
      /\ sessions'[k] \in {[family |-> family, replaced |-> TRUE], Absent}
      /\ sessions'[next] \in {[family |-> family, replaced |-> FALSE], Absent}
  BY <1>1, WritesRows
<1>5. /\ flights' \in [Starter -> Flight \cup {None}]
      /\ \A u \in Starter : flights'[u] # None <=> flights[u] # None
      /\ \A u \in Starter \ {s} : flights'[u] = flights[u]
      /\ flights'[s].phase \in {"ok", "no"}
  BY <1>1, WritesFlights
<1> HIDE DEF k, family
<1>6. ended' \subseteq 1..signIns
  BY <1>2 DEF Shape, FamiliesBegun, Families
<1>7. TypeOK' /\ OnePageEach'
  <2>1. ended' \cup forked' \subseteq 1..MaxSignIns
    BY <1>2, <1>3, <1>4, <1>6 DEF Shape, TypeOK
  <2> QED
    BY <1>2, <1>3, <1>4, <1>5, <2>1, PagesStay DEF Shape, TypeOK
<1>8. InPhase'
  BY <1>2, <1>5 DEF Shape, InPhase
<1>9. FamiliesBegun'
  BY <1>2, <1>4, <1>6 DEF Shape, FamiliesBegun
<1> QED
  BY <1>7, <1>8, <1>9 DEF Shape

LEMMA RotateFailsShape ==
    ASSUME Shape, NEW s \in Starter, RotateFails(s)
    PROVE  Shape'
<1> DEFINE old == flights[s]
           new == [old EXCEPT !.phase = "no"]
<1>1. old # None /\ old \in Flight /\ old.phase = "read"
  BY DEF RotateFails, At, Shape, TypeOK
<1>2. new \in Flight /\ new.phase = "no" /\ new.next = old.next
  BY <1>1 DEF Flight
<1>3. flights' = [flights EXCEPT ![s] = new] /\ UNCHANGED <<server, browser, requests>>
  BY DEF RotateFails, Moved
<1> HIDE DEF new
<1>4. /\ flights' \in [Starter -> Flight \cup {None}]
      /\ \A u \in Starter : flights'[u] # None <=> flights[u] # None
      /\ flights'[s] = new /\ \A u \in Starter \ {s} : flights'[u] = flights[u]
  BY <1>1, <1>2, <1>3, FlightStays DEF Shape
<1>5. OnePageEach' /\ TypeOK'
  BY <1>3, <1>4, PagesStay DEF Shape, TypeOK, server, browser
<1>6. InPhase'
  BY <1>1, <1>2, <1>3, <1>4 DEF Shape, InPhase, server
<1> QED
  BY <1>3, <1>5, <1>6 DEF Shape, FamiliesBegun, server

LEMMA SignInShape ==
    ASSUME Shape, NEW t \in Tab, SignIn(t)
    PROVE  Shape'
<1> DEFINE next == CHOOSE n \in Unused : TRUE
<1>1. next \in Token
  BY UnusedChosen DEF SignIn
<1>2. /\ signIns' = signIns + 1 /\ signIns' \in 1..MaxSignIns /\ signIns \in 0..MaxSignIns
      /\ 1..signIns \subseteq 1..signIns'
  BY SessionAssumption DEF SignIn, Shape, TypeOK
<1> HIDE DEF next
<1>3. /\ sessions' = [sessions EXCEPT ![next] = [family |-> signIns', replaced |-> FALSE]]
      /\ cookie' = next /\ unheard' = FALSE /\ stored' = TRUE
      /\ pages' = [pages EXCEPT ![t].shown = TRUE]
      /\ UNCHANGED <<active, ended, forked, requests, flights>>
  BY <1>2 DEF SignIn, NewRow, next
<1>4. sessions' \in [Token -> Row \cup {Absent}]
  BY <1>1, <1>2, <1>3 DEF Shape, TypeOK, Row
<1>5. /\ pages' \in [Tab -> [shown : BOOLEAN, refreshing : Starter \cup {None}]]
      /\ \A u \in Tab : pages'[u].refreshing = pages[u].refreshing
  BY <1>3 DEF Shape, TypeOK
<1>6. TypeOK'
  <2>1. /\ cookie' \in Token \cup {None} /\ signIns' \in 0..MaxSignIns
        /\ unheard' \in BOOLEAN /\ stored' \in BOOLEAN
    <3>1. signIns' \in 0..MaxSignIns
      BY <1>2, SessionAssumption
    <3> QED
      BY <1>1, <1>3, <3>1
  <2>2. \A s \in Starter : flights'[s] # None => pages'[PageOf(s)].refreshing = s
    BY <1>3, <1>5, PageTyped DEF Shape, TypeOK
  <2> QED
    BY <1>3, <1>4, <1>5, <2>1, <2>2 DEF Shape, TypeOK
<1>7. OnePageEach' /\ InPhase'
  BY <1>2, <1>3, <1>5 DEF Shape, OnePageEach, InPhase
<1>8. FamiliesBegun'
  <2>1. \A k \in Token : sessions'[k] # Absent => sessions'[k].family \in 1..signIns'
    BY <1>1, <1>2, <1>3 DEF Shape, TypeOK, FamiliesBegun
  <2> QED
    BY <1>2, <1>3, <2>1 DEF Shape, FamiliesBegun
<1> QED
  BY <1>6, <1>7, <1>8 DEF Shape

LEMMA SignOutShape ==
    ASSUME Shape, NEW t \in Tab, SignOut(t)
    PROVE  Shape'
<1>1. /\ pages' = [pages EXCEPT ![t].shown = FALSE]
      /\ cookie' = None /\ unheard' = FALSE /\ stored' = FALSE
      /\ UNCHANGED <<active, signIns, forked, requests, flights>>
  BY DEF SignOut
<1>2. Drops /\ ended' \subseteq 1..signIns
  <2>1. CASE cookie # None /\ Live(cookie)
    <3>1. /\ cookie \in Token
          /\ sessions' = [sessions EXCEPT ![cookie] = Absent]
          /\ ended' = ended \cup {sessions[cookie].family}
      BY <2>1 DEF SignOut, Shape, TypeOK
    <3> QED
      BY <2>1, <3>1 DEF Shape, TypeOK, FamiliesBegun, Drops, Live
  <2>2. CASE ~ (cookie # None /\ Live(cookie))
    BY <2>2, ForgetDrops DEF SignOut, Shape, FamiliesBegun
  <2> QED
    BY <2>1, <2>2
<1>3. /\ pages' \in [Tab -> [shown : BOOLEAN, refreshing : Starter \cup {None}]]
      /\ \A u \in Tab : pages'[u].refreshing = pages[u].refreshing
  BY <1>1 DEF Shape, TypeOK
<1>4. ended' \cup forked' \subseteq 1..MaxSignIns
  BY <1>1, <1>2, SessionAssumption DEF Shape, TypeOK
<1>5. TypeOK'
  BY <1>1, <1>2, <1>3, <1>4, PageTyped DEF Shape, TypeOK, Drops
<1>6. OnePageEach' /\ InPhase' /\ FamiliesBegun'
  BY <1>1, <1>2, <1>3 DEF Shape, OnePageEach, InPhase, FamiliesBegun, Drops
<1> QED
  BY <1>5, <1>6 DEF Shape

LEMMA ReloadShape ==
    ASSUME Shape, NEW t \in Tab, Reload(t)
    PROVE  Shape'
<1> DEFINE restore == ~ stored
<1>1. /\ flights' = [ s \in Starter |-> IF PageOf(s) # t THEN flights[s]
                                        ELSE IF s = t /\ restore THEN Departure ELSE None ]
      /\ requests' = [ q \in Request |-> IF TabOf[q] = t THEN None ELSE requests[q] ]
      /\ pages' = [pages EXCEPT ![t] =
            [shown |-> ~ restore, refreshing |-> IF restore THEN t ELSE None]]
      /\ unheard' \in BOOLEAN
      /\ Drops
      /\ UNCHANGED <<active, signIns, ended, forked, cookie, stored>>
  <2>1. unheard' \in BOOLEAN
    BY DEF Reload, Shape, TypeOK
  <2>2. flights' = [ s \in Starter |-> IF PageOf(s) # t THEN flights[s]
                                       ELSE IF s = t /\ restore THEN Departure ELSE None ]
    BY DEF Reload
  <2> QED
    BY <2>1, <2>2, ForgetDrops DEF Reload, Shape
<1>2. t \in Starter /\ PageOf(t) = t /\ None \notin Starter /\ Asked \notin Starter
  BY SessionAssumption DEF Starter, PageOf
<1>3. /\ Departure \in Flight /\ Departure # None
      /\ Departure.phase = "sent" /\ Departure.next = None
  BY DepartureTyped DEF Shape
<1>4. /\ flights' \in [Starter -> Flight \cup {None}]
      /\ \A s \in Starter : PageOf(s) # t => flights'[s] = flights[s]
      /\ \A s \in Starter : PageOf(s) = t /\ flights'[s] # None =>
            s = t /\ restore /\ flights'[s] = Departure
      /\ restore => flights'[t] = Departure
  BY <1>1, <1>2, <1>3 DEF Shape, TypeOK
<1>5. /\ pages' \in [Tab -> [shown : BOOLEAN, refreshing : Starter \cup {None}]]
      /\ pages'[t].refreshing = IF restore THEN t ELSE None
      /\ \A u \in Tab \ {t} : pages'[u] = pages[u]
  BY <1>1, <1>2 DEF Shape, TypeOK
<1>6. \A s \in Starter : flights'[s] # None => pages'[PageOf(s)].refreshing = s
  BY <1>4, <1>5, PageTyped DEF Shape, TypeOK
<1>7. /\ requests' \in [Request -> Starter \cup {None, Asked}]
      /\ \A q \in Request : requests'[q] \in Starter => TabOf[q] # t /\ requests'[q] = requests[q]
  BY <1>1, <1>2 DEF Shape, TypeOK
<1>8. \A q \in Request : requests'[q] \in Starter =>
          flights'[requests'[q]] # None /\ PageOf(requests'[q]) = TabOf[q]
  BY <1>4, <1>7 DEF Shape, TypeOK, OnePageEach
<1>9. TypeOK'
  BY <1>1, <1>4, <1>5, <1>6, <1>7, <1>8 DEF Shape, TypeOK, Drops
<1>10. OnePageEach'
  <2>1. ASSUME NEW u \in Tab, pages'[u].refreshing # None
        PROVE  flights'[pages'[u].refreshing] # None /\ PageOf(pages'[u].refreshing) = u
    <3>1. CASE u = t
      BY <1>2, <1>3, <1>4, <1>5, <2>1, <3>1
    <3>2. CASE u # t
      BY <1>4, <1>5, <2>1, <3>2 DEF Shape, TypeOK, OnePageEach
    <3> QED
      BY <3>1, <3>2
  <2> QED
    BY <1>8, <2>1 DEF OnePageEach
<1>11. InPhase'
  BY <1>1, <1>3, <1>4 DEF Shape, InPhase
<1>12. FamiliesBegun'
  BY <1>1 DEF Shape, FamiliesBegun, Drops
<1> QED
  BY <1>9, <1>10, <1>11, <1>12 DEF Shape

LEMMA ResetShape ==
    ASSUME Shape, ResetPassword
    PROVE  Shape'
<1>1. /\ sessions' = Without(sessions, Families)
      /\ ended' = ended \cup Families
      /\ UNCHANGED <<active, signIns, forked, cookie, stored, pages, unheard, requests, flights>>
  BY DEF ResetPassword, Revoke, browser
<1>2. Drops
  BY <1>1, WithoutDrops DEF Shape, TypeOK, Drops
<1>3. ended' \subseteq 1..signIns /\ 1..signIns \subseteq 1..MaxSignIns
  BY <1>1, SessionAssumption DEF Shape, TypeOK, FamiliesBegun, Families
<1>4. TypeOK'
  BY <1>1, <1>2, <1>3 DEF Shape, TypeOK, Drops
<1> QED
  BY <1>1, <1>2, <1>3, <1>4 DEF Shape, OnePageEach, InPhase, FamiliesBegun, Drops

LEMMA ShapeStep == Shape /\ [Next]_vars => Shape'
<1> SUFFICES ASSUME Shape, [Next]_vars
             PROVE  Shape'
  OBVIOUS
<1>1. ASSUME NEW s \in Starter, Refreshed(s) \/ Refused(s) \/ Lose(s)
      PROVE  Shape'
  BY <1>1, AnswersLand, LandShape DEF Shape
<1>2. CASE Disable \/ Enable
  BY <1>2 DEF Disable, Enable, browser, Shape, TypeOK, OnePageEach, InPhase, FamiliesBegun
<1>3. CASE UNCHANGED vars
  BY <1>3 DEF vars, server, browser, Shape, TypeOK, OnePageEach, InPhase, FamiliesBegun
<1> QED
  BY <1>1, <1>2, <1>3, AskShape, RefreshShape, RotateReadShape, RotateWriteShape,
     RotateFailsShape, SignInShape, SignOutShape, ReloadShape, ResetShape
  DEF Next, Handler, Answer

LEMMA ShapeAlways == Spec => []Shape
BY ShapeInit, ShapeStep, PTL DEF Spec

(* Every variable keeps its type, and a page never has two refreshes of    *)
(* its own under way, nor a request that waits for one that is over        *)
(* (web/src/lib/api.ts).                                                   *)
THEOREM SessionStaysTyped == Spec => []TypeOK
<1>1. Shape => TypeOK
  BY DEF Shape
<1> QED
  BY <1>1, ShapeAlways, PTL

-----------------------------------------------------------------------------
(* What was ended stays ended                                              *)

(* A rotation that is under way has its token's family right, as long as   *)
(* the token has a row.                                                    *)
Recalled ==
    \A s \in Starter : At(s, "read") =>
        /\ sessions[flights[s].token] # Absent =>
              sessions[flights[s].token].family = flights[s].family
        /\ \A u \in Starter : At(u, "read") /\ flights[u].token = flights[s].token
              => flights[u].family = flights[s].family

(* A family has one token that works, until a rotation forks it.           *)
OneLive ==
    \A k, l \in Token :
        Live(k) /\ Live(l) /\ k # l /\ sessions[k].family = sessions[l].family
            => sessions[k].family \in forked

FamilyInv == Recalled /\ OneLive /\ EndedStayEnded

(* Steps that only drop rows, and that end nothing that stays live.        *)
LEMMA DropsKeepFamilies ==
    ASSUME Shape, FamilyInv, Drops, forked' = forked,
           \A s \in Starter : At(s, "read")' =>
               /\ At(s, "read")
               /\ flights'[s].token = flights[s].token /\ flights'[s].family = flights[s].family,
           \A k \in Token : Live(k)' /\ sessions'[k].family \in ended' =>
               sessions'[k].family \in ended \cup forked
    PROVE  FamilyInv'
<1>1. \A k \in Token : Live(k)' => Live(k) /\ sessions'[k] = sessions[k]
  BY DEF Drops, Live
<1>2. \A s \in Starter : At(s, "read") => flights[s].token \in Token
  BY DEF Shape, InPhase, At
<1>3. Recalled'
  <2> SUFFICES ASSUME NEW s \in Starter, At(s, "read")'
               PROVE  /\ sessions'[flights'[s].token] # Absent =>
                            sessions'[flights'[s].token].family = flights'[s].family
                      /\ \A u \in Starter : At(u, "read")' /\ flights'[u].token = flights'[s].token
                            => flights'[u].family = flights'[s].family
    BY DEF Recalled
  <2>1. /\ At(s, "read") /\ flights[s].token \in Token
        /\ flights'[s].token = flights[s].token /\ flights'[s].family = flights[s].family
    BY <1>2
  <2>2. sessions'[flights[s].token] \in {sessions[flights[s].token], Absent}
    BY <2>1 DEF Drops
  <2> QED
    BY <2>1, <2>2 DEF FamilyInv, Recalled
<1>4. OneLive'
  BY <1>1 DEF FamilyInv, OneLive
<1>5. EndedStayEnded'
  BY <1>1 DEF FamilyInv, EndedStayEnded
<1> QED
  BY <1>3, <1>4, <1>5 DEF FamilyInv

(* ... in particular those that leave the server alone.                    *)
LEMMA QuietKeepsFamilies ==
    ASSUME Shape, FamilyInv, Drops, UNCHANGED <<ended, forked>>,
           \A s \in Starter : At(s, "read")' => flights'[s] = flights[s]
    PROVE  FamilyInv'
<1>1. \A s \in Starter : At(s, "read")' =>
          /\ At(s, "read")
          /\ flights'[s].token = flights[s].token /\ flights'[s].family = flights[s].family
  BY DEF At
<1>2. \A k \in Token : Live(k)' /\ sessions'[k].family \in ended' =>
          sessions'[k].family \in ended \cup forked
  OBVIOUS
<1> QED
  BY <1>1, <1>2, DropsKeepFamilies

LEMMA ReadKeepsFamilies ==
    ASSUME Shape, FamilyInv, NEW s \in Starter, RotateRead(s)
    PROVE  FamilyInv'
<1> DEFINE k == flights[s].token
<1>1. flights[s] # None /\ flights[s] \in Flight /\ flights[s].phase = "sent"
  BY DEF RotateRead, At, Shape, TypeOK
<1>2. \A l \in Token : sessions[l] # Absent => sessions[l] \in Row
  BY DEF Shape, TypeOK
<1>3. CASE flights' = [flights EXCEPT ![s].phase = "no"] /\ UNCHANGED <<sessions, ended>>
  <2>1. \A u \in Starter : At(u, "read")' => flights'[u] = flights[u]
    BY <1>1, <1>3 DEF At, Shape, TypeOK, Flight
  <2>2. Drops
    BY <1>3 DEF Drops, Shape, TypeOK
  <2>3. UNCHANGED <<ended, forked>>
    BY <1>3 DEF RotateRead
  <2> QED
    BY <2>1, <2>2, <2>3, QuietKeepsFamilies
<1>4. CASE /\ k # None /\ Replay(k)
           /\ sessions' = Revoke({sessions[k].family})
           /\ ended' = ended \cup {sessions[k].family}
           /\ flights' = [flights EXCEPT ![s].phase = "no"]
  <2>1. \A u \in Starter : At(u, "read")' => flights'[u] = flights[u]
    BY <1>1, <1>4 DEF At, Shape, TypeOK, Flight
  <2>2. \A u \in Starter : At(u, "read")' =>
            /\ At(u, "read")
            /\ flights'[u].token = flights[u].token /\ flights'[u].family = flights[u].family
    BY <2>1 DEF At
  <2>3. /\ Drops
        /\ \A l \in Token : sessions'[l] # Absent /\ ~ sessions[l].replaced
              => sessions[l].family # sessions[k].family
    BY <1>4, WithoutDrops DEF Drops, Revoke, Shape, TypeOK
  <2>4. \A l \in Token : Live(l)' /\ sessions'[l].family \in ended' =>
            sessions'[l].family \in ended \cup forked
    BY <1>4, <2>3 DEF Drops, Live
  <2>5. forked' = forked
    BY DEF RotateRead
  <2> QED
    BY <2>2, <2>3, <2>4, <2>5, DropsKeepFamilies
<1>5. CASE /\ k # None /\ Live(k)
           /\ flights' = [flights EXCEPT ![s].phase = "read", ![s].family = sessions[k].family]
           /\ UNCHANGED <<sessions, ended>>
  <2>1. k \in Token /\ sessions[k] # Absent
    BY <1>1, <1>5 DEF Flight, Live
  <2>2. /\ flights'[s].token = k /\ flights'[s].family = sessions[k].family
        /\ flights'[s] # None
        /\ \A u \in Starter \ {s} : flights'[u] = flights[u]
    <3> DEFINE new == [flights[s] EXCEPT !.phase = "read", !.family = sessions[k].family]
    <3>1. sessions[k].family \in 1..MaxSignIns
      BY <1>2, <2>1 DEF Row
    <3>2. new \in Flight /\ new.token = k /\ new.family = sessions[k].family
      BY <1>1, <3>1 DEF Flight
    <3>3. flights' = [flights EXCEPT ![s] = new]
      BY <1>5
    <3> HIDE DEF new
    <3> QED
      BY <1>1, <3>2, <3>3, FlightStays DEF Shape
  <2>3. UNCHANGED <<sessions, ended, forked>>
    BY <1>5 DEF RotateRead
  <2>4. Recalled'
    <3> HIDE DEF k
    <3>1. \A u \in Starter \ {s} : At(u, "read")' => At(u, "read")
      BY <2>2 DEF At
    <3>2. ASSUME NEW u \in Starter \ {s}, At(u, "read"), flights[u].token = k
          PROVE  flights[u].family = sessions[k].family
      BY <2>1, <3>2 DEF FamilyInv, Recalled
    <3> QED
      BY <2>1, <2>2, <2>3, <3>1, <3>2 DEF FamilyInv, Recalled
  <2>5. OneLive' /\ EndedStayEnded'
    BY <2>3 DEF FamilyInv, OneLive, EndedStayEnded, Live
  <2> QED
    BY <2>4, <2>5 DEF FamilyInv
<1> QED
  BY <1>3, <1>4, <1>5 DEF RotateRead, Moved

LEMMA WriteKeepsFamilies ==
    ASSUME Shape, FamilyInv, NEW s \in Starter, RotateWrite(s)
    PROVE  FamilyInv'
<1>1. PICK next : Writes(s, next)
  BY RotateWriteWrites
<1> DEFINE k == flights[s].token
           family == flights[s].family
<1>2. /\ k \in Token /\ family \in 1..signIns
      /\ next \in Token /\ next # k
      /\ \A l \in Token \ {k, next} : sessions'[l] \in {sessions[l], Absent}
      /\ sessions'[k] \in {[family |-> family, replaced |-> TRUE], Absent}
      /\ sessions'[next] \in {[family |-> family, replaced |-> FALSE], Absent}
  BY <1>1, WritesRows
<1>3. /\ At(s, "read") /\ ~ Live(next) /\ ~ Held(next)
      /\ forked' = IF Live(k) THEN forked ELSE forked \cup {family}
  BY <1>1 DEF Writes, At
<1>4. /\ \A u \in Starter \ {s} : flights'[u] = flights[u]
      /\ ~ At(s, "read")'
  BY <1>1, WritesFlights DEF At
<1>5. /\ \A l \in Token : Live(l)' => l # k
      /\ Live(next)' => sessions'[next].family = family
      /\ \A l \in Token \ {k, next} : Live(l)' => Live(l) /\ sessions'[l] = sessions[l]
  <2> HIDE DEF k, family
  <2>1. ~ (sessions'[k] # Absent /\ ~ sessions'[k].replaced)
    <3>1. sessions'[k] = [family |-> family, replaced |-> TRUE] \/ sessions'[k] = Absent
      BY <1>2
    <3>2. CASE sessions'[k] = [family |-> family, replaced |-> TRUE]
      <4>1. sessions'[k].replaced = TRUE
        BY <3>2
      <4> QED
        BY <4>1
    <3> QED
      BY <3>1, <3>2
  <2>2. \A l \in Token : Live(l)' => l # k
    BY <2>1 DEF Live
  <2>3. Live(next)' => sessions'[next].family = family
    <3>1. sessions'[next] = [family |-> family, replaced |-> FALSE] \/ sessions'[next] = Absent
      BY <1>2
    <3>2. CASE sessions'[next] = [family |-> family, replaced |-> FALSE]
      BY <3>2
    <3> QED
      BY <3>1, <3>2 DEF Live
  <2>4. \A l \in Token \ {k, next} : Live(l)' => Live(l) /\ sessions'[l] = sessions[l]
    BY <1>2 DEF Live
  <2> QED
    BY <2>2, <2>3, <2>4
<1>6. Live(k) => sessions[k].family = family
  BY <1>3 DEF FamilyInv, Recalled, Live
<1>7. \A l \in Token \ {k, next} : Live(l) /\ sessions[l].family = family => family \in forked'
  BY <1>2, <1>3, <1>6 DEF FamilyInv, OneLive
<1>8. Recalled'
  <2> SUFFICES ASSUME NEW u \in Starter, At(u, "read")'
               PROVE  /\ sessions'[flights'[u].token] # Absent =>
                            sessions'[flights'[u].token].family = flights'[u].family
                      /\ \A v \in Starter : At(v, "read")' /\ flights'[v].token = flights'[u].token
                            => flights'[v].family = flights'[u].family
    BY DEF Recalled
  <2>1. u # s /\ flights'[u] = flights[u] /\ At(u, "read") /\ flights[u].token \in Token
    BY <1>4 DEF At, Shape, InPhase
  <2>2. flights[u].token # next
    BY <1>3, <2>1 DEF Held, At
  <2>3. flights[u].token = k => flights[u].family = family
    BY <1>3, <2>1 DEF FamilyInv, Recalled
  <2>4. sessions'[flights[u].token] # Absent => sessions'[flights[u].token].family = flights[u].family
    <3>1. CASE flights[u].token = k
      BY <1>2, <2>3, <3>1
    <3>2. CASE flights[u].token # k
      <4>1. sessions'[flights[u].token] \in {sessions[flights[u].token], Absent}
        BY <1>2, <2>1, <2>2, <3>2
      <4> QED
        BY <2>1, <4>1 DEF FamilyInv, Recalled
    <3> QED
      BY <3>1, <3>2
  <2>5. ASSUME NEW v \in Starter, At(v, "read")', flights'[v].token = flights'[u].token
        PROVE  flights'[v].family = flights'[u].family
    <3>1. flights'[v] = flights[v] /\ At(v, "read")
      BY <1>4, <2>5 DEF At
    <3> QED
      BY <2>1, <2>5, <3>1 DEF FamilyInv, Recalled
  <2> QED
    BY <2>1, <2>4, <2>5
<1>9. OneLive'
  <2> SUFFICES ASSUME NEW l \in Token, NEW m \in Token, Live(l)', Live(m)', l # m,
                      sessions'[l].family = sessions'[m].family
               PROVE  sessions'[l].family \in forked'
    BY DEF OneLive
  <2>1. forked \subseteq forked'
    BY <1>3
  <2>2. l # k /\ m # k
    BY <1>5
  <2> HIDE DEF k, family
  <2>3. CASE l # next /\ m # next
    BY <1>5, <2>1, <2>2, <2>3 DEF FamilyInv, OneLive
  <2>4. CASE l = next
    BY <1>5, <1>7, <2>2, <2>4
  <2>5. CASE m = next
    BY <1>5, <1>7, <2>2, <2>5
  <2> QED
    BY <2>3, <2>4, <2>5
<1>10. EndedStayEnded'
  <2> SUFFICES ASSUME NEW l \in Token, Live(l)', sessions'[l].family \in ended'
               PROVE  sessions'[l].family \in forked'
    BY DEF EndedStayEnded
  <2>1. l # k /\ forked \subseteq forked'
    <3>1. l # k
      BY <1>5
    <3>2. forked \subseteq forked'
      BY <1>3
    <3> QED
      BY <3>1, <3>2
  <2>2. CASE ended' = ended
    <3>1. CASE l = next
      <4>1. Live(k) => family \in forked
        BY <1>2, <1>5, <1>6, <2>2, <3>1 DEF FamilyInv, EndedStayEnded
      <4> QED
        BY <1>3, <1>5, <3>1, <4>1
    <3>2. CASE l # next
      BY <1>5, <2>1, <2>2, <3>2 DEF FamilyInv, EndedStayEnded
    <3> QED
      BY <3>1, <3>2
  <2>3. CASE sessions' = Without(Retire(k, family, next), Families)
    <3> DEFINE rows == Retire(k, family, next)
    <3>1. rows \in [Token -> Row \cup {Absent}]
      BY <1>1, <1>2, WritesRows, RetireTyped DEF Shape
    <3>2. /\ sessions'[l] \in {rows[l], Absent}
          /\ sessions'[l] # Absent /\ ~ rows[l].replaced => rows[l].family \notin Families
      <4> HIDE DEF rows
      <4> QED
        BY <2>3, <3>1, WithoutDrops DEF rows
    <3>3. sessions'[l].family \notin Families
      BY <3>2 DEF Live
    <3>4. sessions'[l].family \in 1..signIns
      <4>1. Shape'
        BY RotateWriteShape
      <4>2. signIns' = signIns
        BY DEF RotateWrite
      <4> QED
        BY <4>1, <4>2 DEF Shape, FamiliesBegun, Live
    <3> QED
      BY <3>3, <3>4 DEF Families
  <2> QED
    BY <1>1, <2>2, <2>3 DEF Writes
<1> QED
  BY <1>8, <1>9, <1>10 DEF FamilyInv

LEMMA SignInKeepsFamilies ==
    ASSUME Shape, FamilyInv, NEW t \in Tab, SignIn(t)
    PROVE  FamilyInv'
<1> DEFINE next == CHOOSE n \in Unused : TRUE
<1>1. next \in Token /\ ~ Live(next) /\ ~ Held(next)
  BY UnusedChosen DEF SignIn
<1> HIDE DEF next
<1>2. /\ sessions' = [sessions EXCEPT ![next] = [family |-> signIns + 1, replaced |-> FALSE]]
      /\ UNCHANGED <<ended, forked, flights>>
  BY DEF SignIn, NewRow, next
<1>3. /\ sessions'[next] = [family |-> signIns + 1, replaced |-> FALSE]
      /\ \A l \in Token \ {next} : sessions'[l] = sessions[l]
  BY <1>1, <1>2 DEF Shape, TypeOK
<1>4. signIns \in Nat /\ signIns + 1 \notin 1..signIns
  BY SessionAssumption DEF Shape, TypeOK
<1>5. signIns + 1 \notin ended /\ \A l \in Token : Live(l) => sessions[l].family # signIns + 1
  BY <1>4 DEF Shape, FamiliesBegun, Live
<1>6. Recalled'
  <2>1. \A u \in Starter : At(u, "read") => flights[u].token \in Token \ {next}
    BY <1>1 DEF At, Held, Shape, InPhase
  <2> QED
    BY <1>2, <1>3, <2>1 DEF FamilyInv, Recalled, At
<1>7. \A l \in Token \ {next} : Live(l)' => Live(l) /\ sessions'[l] = sessions[l]
  BY <1>3 DEF Live
<1>8. OneLive'
  BY <1>2, <1>3, <1>5, <1>7 DEF FamilyInv, OneLive
<1>9. EndedStayEnded'
  BY <1>2, <1>3, <1>5, <1>7 DEF FamilyInv, EndedStayEnded
<1> QED
  BY <1>6, <1>8, <1>9 DEF FamilyInv

LEMMA SignOutKeepsFamilies ==
    ASSUME Shape, FamilyInv, NEW t \in Tab, SignOut(t)
    PROVE  FamilyInv'
<1>1. UNCHANGED <<forked, flights>>
  BY DEF SignOut
<1>2. \A s \in Starter : At(s, "read")' => flights'[s] = flights[s]
  BY <1>1
<1>3. CASE cookie # None /\ Live(cookie)
  <2>1. /\ cookie \in Token
        /\ sessions' = [sessions EXCEPT ![cookie] = Absent]
        /\ ended' = ended \cup {sessions[cookie].family}
    BY <1>3 DEF SignOut, Shape, TypeOK
  <2>2. Drops
    BY <2>1 DEF Drops, Shape, TypeOK
  <2>3. \A k \in Token : Live(k)' => k # cookie /\ Live(k) /\ sessions'[k] = sessions[k]
    BY <2>1 DEF Live, Shape, TypeOK
  <2>4. \A k \in Token : Live(k)' /\ sessions'[k].family \in ended' =>
            sessions'[k].family \in ended \cup forked
    BY <1>3, <2>1, <2>3 DEF FamilyInv, OneLive
  <2>5. \A s \in Starter : At(s, "read")' =>
            /\ At(s, "read")
            /\ flights'[s].token = flights[s].token /\ flights'[s].family = flights[s].family
    BY <1>1 DEF At
  <2> QED
    BY <1>1, <2>2, <2>4, <2>5, DropsKeepFamilies
<1>4. CASE ~ (cookie # None /\ Live(cookie))
  BY <1>1, <1>2, <1>4, ForgetDrops, QuietKeepsFamilies DEF SignOut, Shape
<1> QED
  BY <1>3, <1>4

LEMMA ResetKeepsFamilies ==
    ASSUME Shape, FamilyInv, ResetPassword
    PROVE  FamilyInv'
<1>1. sessions' = Without(sessions, Families) /\ ended' = ended \cup Families
      /\ UNCHANGED <<forked, flights>>
  BY DEF ResetPassword, Revoke
<1>2. /\ Drops
      /\ \A k \in Token : sessions'[k] # Absent /\ ~ sessions[k].replaced
            => sessions[k].family \notin Families
  BY <1>1, WithoutDrops DEF Drops, Shape, TypeOK
<1>3. \A k \in Token : Live(k)' /\ sessions'[k].family \in ended' =>
          sessions'[k].family \in ended \cup forked
  BY <1>1, <1>2 DEF Drops, Live
<1>4. \A s \in Starter : At(s, "read")' =>
          /\ At(s, "read")
          /\ flights'[s].token = flights[s].token /\ flights'[s].family = flights[s].family
  BY <1>1 DEF At
<1> QED
  BY <1>1, <1>2, <1>3, <1>4, DropsKeepFamilies

(* The browser's steps start flights and end them.                         *)
LEMMA BrowserKeepsFamilies ==
    ASSUME Shape, FamilyInv,
           \/ \E q \in Request : Ask(q) \/ Refresh(q)
           \/ \E s \in Starter : Refreshed(s) \/ Refused(s) \/ Lose(s) \/ RotateFails(s)
           \/ \E t \in Tab : Reload(t)
           \/ Disable \/ Enable \/ UNCHANGED vars
    PROVE  FamilyInv'
<1>0. UNCHANGED sessions => Drops
  BY DEF Drops, Shape, TypeOK
<1>1. CASE \/ \E q \in Request : Ask(q)
           \/ Disable \/ Enable \/ UNCHANGED vars
  <2>1. UNCHANGED <<sessions, ended, forked, flights>>
    BY <1>1 DEF Ask, Disable, Enable, server, vars
  <2> QED
    BY <1>0, <2>1, QuietKeepsFamilies
<1>2. ASSUME NEW q \in Request, Refresh(q)
      PROVE  FamilyInv'
  <2>1. UNCHANGED <<sessions, ended, forked>>
    BY <1>2 DEF Refresh, server
  <2>2. flights' = flights \/ flights' = [flights EXCEPT ![q] = Departure]
    BY <1>2 DEF Refresh
  <2>3. \A s \in Starter : At(s, "read")' => flights'[s] = flights[s]
    BY <2>2, DepartureTyped DEF At, Shape, TypeOK, Starter
  <2> QED
    BY <1>0, <2>1, <2>3, QuietKeepsFamilies
<1>3. ASSUME NEW s \in Starter, Refreshed(s) \/ Refused(s) \/ Lose(s)
      PROVE  FamilyInv'
  <2>1. PICK shown \in BOOLEAN : Lands(s, shown)
    BY <1>3, AnswersLand DEF Shape
  <2>2. \A u \in Starter : At(u, "read")' => flights'[u] = flights[u]
    BY <2>1 DEF Lands, At, Shape, TypeOK
  <2> QED
    BY <2>1, <2>2, QuietKeepsFamilies DEF Lands
<1>4. ASSUME NEW s \in Starter, RotateFails(s)
      PROVE  FamilyInv'
  <2>1. UNCHANGED <<sessions, ended, forked>>
    BY <1>4 DEF RotateFails, server
  <2>2. \A u \in Starter : At(u, "read")' => flights'[u] = flights[u]
    <3>1. flights[s] \in Flight
      BY <1>4 DEF RotateFails, At, Shape, TypeOK
    <3> QED
      BY <1>4, <3>1 DEF RotateFails, Moved, At, Shape, TypeOK, Flight
  <2> QED
    BY <1>0, <2>1, <2>2, QuietKeepsFamilies
<1>5. ASSUME NEW t \in Tab, Reload(t)
      PROVE  FamilyInv'
  <2>1. Drops /\ UNCHANGED <<ended, forked>>
    BY <1>5, ForgetDrops DEF Reload, Shape
  <2>2. \A s \in Starter : flights'[s] \in {flights[s], Departure, None}
    BY <1>5 DEF Reload
  <2>3. \A s \in Starter : At(s, "read")' => flights'[s] = flights[s]
    BY <2>2, DepartureTyped DEF At, Shape
  <2> QED
    BY <2>1, <2>3, QuietKeepsFamilies
<1> QED
  BY <1>1, <1>2, <1>3, <1>4, <1>5

LEMMA FamilyStep == Shape /\ FamilyInv /\ [Next]_vars => FamilyInv'
BY BrowserKeepsFamilies, ReadKeepsFamilies, WriteKeepsFamilies, SignInKeepsFamilies,
   SignOutKeepsFamilies, ResetKeepsFamilies
DEF Next, Handler, Answer

LEMMA FamilyInit == Init => FamilyInv
BY DEF Init, FamilyInv, Recalled, OneLive, EndedStayEnded, At, Live

(* A sign-in that was ended has no token left that works - whether it was  *)
(* signed out, reset, closed with its account or caught in a replay        *)
(* (session.go, handlers_users.go) - unless a rotation under way at the    *)
(* time forked it.                                                         *)
THEOREM EndedAlwaysStayEnded == Spec => []EndedStayEnded
<1>1. FamilyInv => EndedStayEnded
  BY DEF FamilyInv
<1> QED
  BY <1>1, FamilyInit, FamilyStep, ShapeAlways, PTL DEF Spec
-----------------------------------------------------------------------------
(* Replays are explained                                                   *)

(* A token that is on its way back is known to the server and to nobody    *)
(* else: it is not the cookie, no refresh left with it, and it has not     *)
(* been rotated.                                                           *)
NextIsSecret ==
    \A s \in Starter : flights[s] # None /\ flights[s].next # None =>
        /\ ~ Replay(flights[s].next)
        /\ cookie # flights[s].next
        /\ \A u \in Starter : flights[u] # None =>
              /\ flights[u].token # flights[s].next
              /\ u # s => flights[u].next # flights[s].next

(* A cookie that was rotated, where no answer went missing, is one whose   *)
(* answer is still to come.                                                *)
Witness(u) == flights[u] # None /\ flights[u].token = cookie /\ flights[u].next # None

CookieWitness ==
    cookie # None /\ Replay(cookie) /\ ~ unheard => \E u \in Starter : Witness(u)

ReplayInv == NextIsSecret /\ CookieWitness

Rotated(rows, k) == rows[k] # Absent /\ rows[k].replaced

LEMMA NextTyped ==
    ASSUME TypeOK, NEW s \in Starter, flights[s] # None
    PROVE  flights[s] \in Flight /\ flights[s].next \in Token \cup {None}
                                 /\ flights[s].token \in Token \cup {None}
BY DEF TypeOK, Flight

(* Tokens that are on their way back stay secret while flights only end,   *)
(* or start with the cookie there is, and no row comes to be rotated.      *)
LEMMA SecretStays ==
    ASSUME TypeOK, NextIsSecret,
           \A k \in Token : Replay(k)' => Replay(k),
           \A s \in Starter : flights'[s] # None =>
               \/ /\ flights[s] # None
                  /\ flights'[s].token = flights[s].token /\ flights'[s].next = flights[s].next
               \/ flights'[s].token = cookie /\ flights'[s].next = None,
           \A s \in Starter : flights'[s] # None /\ flights'[s].next # None => cookie' # flights'[s].next
    PROVE  NextIsSecret'
<1> SUFFICES ASSUME NEW s \in Starter, flights'[s] # None, flights'[s].next # None
             PROVE  /\ ~ Rotated(sessions', flights'[s].next)
                    /\ cookie' # flights'[s].next
                    /\ \A u \in Starter : flights'[u] # None =>
                          /\ flights'[u].token # flights'[s].next
                          /\ u # s => flights'[u].next # flights'[s].next
  BY DEF NextIsSecret, Replay, Rotated
<1>1. flights[s] # None /\ flights[s].next # None /\ flights'[s].next = flights[s].next
  OBVIOUS
<1>2. flights[s].next \in Token /\ ~ Replay(flights[s].next)
  BY <1>1, NextTyped DEF NextIsSecret
<1>3. ~ Rotated(sessions', flights'[s].next)
  BY <1>1, <1>2 DEF Replay, Rotated
<1>4. ASSUME NEW u \in Starter, flights'[u] # None
      PROVE  /\ flights'[u].token # flights'[s].next
             /\ u # s => flights'[u].next # flights'[s].next
  <2>1. CASE /\ flights[u] # None
             /\ flights'[u].token = flights[u].token /\ flights'[u].next = flights[u].next
    BY <1>1, <2>1 DEF NextIsSecret
  <2>2. CASE flights'[u].token = cookie /\ flights'[u].next = None
    BY <1>1, <2>2 DEF NextIsSecret
  <2> QED
    BY <1>4, <2>1, <2>2
<1> QED
  BY <1>3, <1>4

LEMMA DropsReplays ==
    ASSUME Drops
    PROVE  \A k \in Token : Replay(k)' => Replay(k)
BY DEF Drops, Replay

(* Steps that leave the cookie and the flights be, as far as their tokens  *)
(* go.                                                                     *)
LEMMA QuietKeepsReplays ==
    ASSUME Shape, ReplayInv, Drops, UNCHANGED <<cookie, unheard>>,
           \A s \in Starter : flights'[s] # None <=> flights[s] # None,
           \A s \in Starter : flights[s] # None =>
               flights'[s].token = flights[s].token /\ flights'[s].next = flights[s].next
    PROVE  ReplayInv'
<1>1. \A s \in Starter : flights'[s] # None /\ flights'[s].next # None => cookie' # flights'[s].next
  BY DEF ReplayInv, NextIsSecret
<1>2. NextIsSecret'
  BY <1>1, SecretStays, DropsReplays DEF Shape, ReplayInv
<1>3. ASSUME cookie' # None, Replay(cookie)', ~ unheard'
      PROVE  \E u \in Starter : Witness(u)'
  <2>1. cookie \in Token /\ Replay(cookie)
    BY <1>3, DropsReplays DEF Shape, TypeOK, Replay
  <2>2. PICK u \in Starter : Witness(u)
    BY <1>3, <2>1 DEF ReplayInv, CookieWitness
  <2>3. Witness(u)'
    BY <2>2 DEF Witness
  <2> QED
    BY <2>3
<1> QED
  BY <1>2, <1>3 DEF ReplayInv, CookieWitness

LEMMA ServerKeepsReplays ==
    ASSUME Shape, ReplayInv,
           \/ \E q \in Request : Ask(q)
           \/ \E s \in Starter : RotateRead(s) \/ RotateFails(s)
           \/ Disable \/ Enable \/ ResetPassword \/ UNCHANGED vars
    PROVE  ReplayInv'
<1>1. CASE \/ \E q \in Request : Ask(q)
           \/ Disable \/ Enable \/ UNCHANGED vars
  <2>1. UNCHANGED <<sessions, cookie, unheard, flights>>
    BY <1>1 DEF Ask, Disable, Enable, server, browser, vars
  <2>2. Drops
    BY <2>1 DEF Drops, Shape, TypeOK
  <2> QED
    BY <2>1, <2>2, QuietKeepsReplays
<1>2. CASE ResetPassword
  <2>1. UNCHANGED <<cookie, unheard, flights>> /\ sessions' = Without(sessions, Families)
    BY <1>2 DEF ResetPassword, Revoke, browser
  <2>2. Drops
    BY <2>1, WithoutDrops DEF Shape, TypeOK, Drops
  <2> QED
    BY <2>1, <2>2, QuietKeepsReplays
<1>3. ASSUME NEW s \in Starter, RotateRead(s) \/ RotateFails(s)
      PROVE  ReplayInv'
  <2>1. flights[s] # None /\ flights[s] \in Flight /\ UNCHANGED <<cookie, unheard>>
    BY <1>3 DEF RotateRead, RotateFails, At, Shape, TypeOK, server, browser
  <2>2. Drops
    <3>1. \/ UNCHANGED sessions
          \/ sessions' = Without(sessions, {sessions[flights[s].token].family})
      BY <1>3 DEF RotateRead, RotateFails, Revoke, server
    <3>2. CASE UNCHANGED sessions
      BY <3>2 DEF Drops, Shape, TypeOK
    <3>3. CASE sessions' = Without(sessions, {sessions[flights[s].token].family})
      BY <3>3, WithoutDrops DEF Drops, Shape, TypeOK
    <3> QED
      BY <3>1, <3>2, <3>3
  <2>3. PICK f \in Flight : /\ flights' = [flights EXCEPT ![s] = f]
                            /\ f.token = flights[s].token /\ f.next = flights[s].next
    <3> DEFINE old == flights[s]
    <3>1. CASE flights' = [flights EXCEPT ![s].phase = "no"]
      <4> DEFINE new == [old EXCEPT !.phase = "no"]
      <4>1. new \in Flight /\ new.token = old.token /\ new.next = old.next
        BY <2>1 DEF Flight
      <4>2. flights' = [flights EXCEPT ![s] = new]
        BY <3>1
      <4> QED
        BY <4>1, <4>2
    <3>2. CASE /\ flights' = [flights EXCEPT ![s].phase = "read",
                                             ![s].family = sessions[flights[s].token].family]
               /\ flights[s].token # None /\ Live(flights[s].token)
      <4> DEFINE family == sessions[old.token].family
                 new == [old EXCEPT !.phase = "read", !.family = family]
      <4>1. family \in 1..MaxSignIns
        <5>1. old.token \in Token
          BY <2>1, <3>2 DEF Flight
        <5> QED
          BY <3>2, <5>1 DEF Live, Shape, TypeOK, Row
      <4> HIDE DEF family
      <4>2. new \in Flight /\ new.token = old.token /\ new.next = old.next
        BY <2>1, <4>1 DEF Flight
      <4>3. flights' = [flights EXCEPT ![s] = new]
        BY <3>2 DEF family
      <4> QED
        BY <4>2, <4>3
    <3> QED
      BY <1>3, <3>1, <3>2 DEF RotateRead, RotateFails, Moved
  <2>4. /\ \A u \in Starter : flights'[u] # None <=> flights[u] # None
        /\ flights'[s] = f /\ \A u \in Starter \ {s} : flights'[u] = flights[u]
    BY <2>1, <2>3, FlightStays DEF Shape
  <2>5. \A u \in Starter : flights[u] # None =>
            flights'[u].token = flights[u].token /\ flights'[u].next = flights[u].next
    BY <2>3, <2>4
  <2> QED
    BY <2>1, <2>2, <2>4, <2>5, QuietKeepsReplays
<1> QED
  BY <1>1, <1>2, <1>3

LEMMA RefreshKeepsReplays ==
    ASSUME Shape, ReplayInv, NEW q \in Request, Refresh(q)
    PROVE  ReplayInv'
<1>1. /\ UNCHANGED <<sessions, cookie, unheard>>
      /\ \/ flights' = flights
         \/ flights' = [flights EXCEPT ![q] = Departure] /\ pages[TabOf[q]].refreshing = None
  BY DEF Refresh, CurrentFlight, server
<1>2. CASE flights' = flights
  <2>1. Drops
    BY <1>1 DEF Drops, Shape, TypeOK
  <2> QED
    BY <1>1, <1>2, <2>1, QuietKeepsReplays
<1>3. CASE flights' = [flights EXCEPT ![q] = Departure] /\ pages[TabOf[q]].refreshing = None
  <2>1. q \in Starter /\ PageOf(q) = TabOf[q] /\ q # None
    BY SessionAssumption DEF Starter, PageOf
  <2>2. flights[q] = None
    BY <1>3, <2>1 DEF Shape, TypeOK
  <2>3. /\ flights'[q] = Departure /\ flights'[q].token = cookie /\ flights'[q].next = None
        /\ \A u \in Starter \ {q} : flights'[u] = flights[u]
    BY <1>3, <2>1, DepartureTyped DEF Shape, TypeOK
  <2>4. NextIsSecret'
    <3>1. \A s \in Starter : flights'[s] # None /\ flights'[s].next # None =>
              cookie' # flights'[s].next
      BY <1>1, <2>3 DEF ReplayInv, NextIsSecret
    <3>2. \A k \in Token : Replay(k)' => Replay(k)
      BY <1>1 DEF Replay
    <3> QED
      BY <2>3, <3>1, <3>2, SecretStays DEF Shape, ReplayInv
  <2>5. \A u \in Starter : Witness(u) => Witness(u)'
    BY <1>1, <2>2, <2>3 DEF Witness
  <2>6. CookieWitness'
    BY <1>1, <2>5 DEF ReplayInv, CookieWitness, Replay
  <2> QED
    BY <2>4, <2>6 DEF ReplayInv
<1> QED
  BY <1>1, <1>2, <1>3

(* An answer that arrives is the new cookie, and nothing has rotated it.   *)
LEMMA AnswersKeepReplays ==
    ASSUME Shape, ReplayInv, NEW s \in Starter, Refreshed(s) \/ Refused(s) \/ Lose(s)
    PROVE  ReplayInv'
<1>1. /\ flights[s] # None /\ flights'[s] = None
      /\ \A u \in Starter \ {s} : flights'[u] = flights[u]
      /\ Drops
  <2>1. PICK shown \in BOOLEAN : Lands(s, shown)
    BY AnswersLand DEF Shape
  <2> QED
    BY <2>1 DEF Lands, Shape, TypeOK
<1>2. \A k \in Token : Replay(k)' => Replay(k)
  BY <1>1, DropsReplays
<1>3. \A u \in Starter : flights'[u] # None => u # s /\ flights[u] # None /\ flights'[u] = flights[u]
  BY <1>1
<1>4. cookie' \in {cookie, None, flights[s].next}
  BY DEF Refreshed, Refused, Lose
<1>5. \A u \in Starter : flights'[u] # None /\ flights'[u].next # None => cookie' # flights'[u].next
  BY <1>1, <1>3, <1>4 DEF ReplayInv, NextIsSecret
<1>6. NextIsSecret'
  BY <1>2, <1>3, <1>5, SecretStays DEF Shape, ReplayInv
<1>7. CASE Refreshed(s)
  <2>1. cookie' = flights[s].next
    BY <1>7 DEF Refreshed
  <2>2. cookie' # None => cookie' \in Token /\ ~ Replay(flights[s].next)
    BY <1>1, <2>1, NextTyped DEF Shape, ReplayInv, NextIsSecret
  <2>3. cookie' # None => ~ Replay(cookie)'
    BY <1>2, <2>1, <2>2 DEF Replay
  <2> QED
    BY <1>6, <2>3 DEF ReplayInv, CookieWitness
<1>8. CASE Refused(s) /\ flights[s].token # None
  <2>1. cookie' = None
    BY <1>8 DEF Refused
  <2> QED
    BY <1>6, <2>1 DEF ReplayInv, CookieWitness
<1>9. CASE Lose(s) \/ (Refused(s) /\ flights[s].token = None)
  <2>1. cookie' = cookie /\ (~ unheard' => ~ unheard)
    BY <1>9 DEF Lose, Refused
  <2>2. ~ unheard' /\ cookie # None => ~ Witness(s)
    BY <1>9 DEF Lose, Refused, Witness, Unheard
  <2>3. ASSUME cookie' # None, Replay(cookie)', ~ unheard'
        PROVE  \E u \in Starter : Witness(u)'
    <3>1. cookie \in Token /\ Replay(cookie)
      BY <1>2, <2>1, <2>3 DEF Shape, TypeOK, Replay
    <3>2. PICK u \in Starter : Witness(u)
      BY <2>1, <2>3, <3>1 DEF ReplayInv, CookieWitness
    <3>3. u # s
      BY <2>1, <2>2, <2>3, <3>2
    <3>4. Witness(u)'
      BY <1>1, <2>1, <3>2, <3>3 DEF Witness
    <3> QED
      BY <3>4
  <2> QED
    BY <1>6, <2>3 DEF ReplayInv, CookieWitness
<1> QED
  BY <1>7, <1>8, <1>9

(* A rotation retires a cookie whose answer is now to come.                *)
LEMMA WriteKeepsReplays ==
    ASSUME Shape, ReplayInv, NEW s \in Starter, RotateWrite(s)
    PROVE  ReplayInv'
<1>1. PICK next : Writes(s, next)
  BY RotateWriteWrites
<1> DEFINE k == flights[s].token
<1>2. /\ k \in Token /\ next \in Token /\ next # k /\ next # None
      /\ \A l \in Token \ {k, next} : sessions'[l] \in {sessions[l], Absent}
      /\ ~ Rotated(sessions', next)
  <2>1. /\ k \in Token /\ next \in Token /\ next # k
        /\ \A l \in Token \ {k, next} : sessions'[l] \in {sessions[l], Absent}
        /\ sessions'[next] \in {[family |-> flights[s].family, replaced |-> FALSE], Absent}
    BY <1>1, WritesRows
  <2>2. ~ (sessions'[next] # Absent /\ sessions'[next].replaced)
    <3>1. CASE sessions'[next] = [family |-> flights[s].family, replaced |-> FALSE]
      <4>1. sessions'[next].replaced = FALSE
        BY <3>1
      <4> QED
        BY <4>1
    <3> QED
      BY <2>1, <3>1
  <2> QED
    BY <2>1, <2>2, SessionAssumption DEF Rotated
<1>3. /\ At(s, "read") /\ ~ Held(next) /\ UNCHANGED <<cookie, unheard>>
  BY <1>1 DEF Writes, At, browser
<1>4. /\ \A u \in Starter : flights'[u] # None <=> flights[u] # None
      /\ \A u \in Starter \ {s} : flights'[u] = flights[u]
      /\ flights'[s].token = k /\ flights'[s].next = next /\ flights'[s] # None
  BY <1>1, <1>3, WritesFlights DEF At
<1>5. \A l \in Token \ {k, next} : Replay(l)' => Replay(l)
  BY <1>2 DEF Replay
<1>6. /\ cookie # next
      /\ \A u \in Starter : flights[u] # None => flights[u].token # next /\ flights[u].next # next
  BY <1>3 DEF Held
<1> HIDE DEF k
<1>7. NextIsSecret'
  <2> SUFFICES ASSUME NEW v \in Starter, flights'[v] # None, flights'[v].next # None
               PROVE  /\ ~ Rotated(sessions', flights'[v].next)
                      /\ cookie' # flights'[v].next
                      /\ \A u \in Starter : flights'[u] # None =>
                            /\ flights'[u].token # flights'[v].next
                            /\ u # v => flights'[u].next # flights'[v].next
    BY DEF NextIsSecret, Replay, Rotated
  <2>1. CASE v = s
    <3>1. flights'[v].next = next
      BY <1>4, <2>1
    <3>2. ~ Rotated(sessions', flights'[v].next)
      BY <1>2, <3>1
    <3>3. \A u \in Starter : flights'[u] # None =>
              flights'[u].token # next /\ (u # v => flights'[u].next # next)
      BY <1>2, <1>4, <1>6, <2>1
    <3> QED
      BY <1>3, <1>6, <3>1, <3>2, <3>3
  <2>2. CASE v # s
    <3> DEFINE n == flights[v].next
    <3>1. flights'[v] = flights[v] /\ flights[v] # None /\ n # None /\ n \in Token /\ n # next
      BY <1>4, <1>6, <2>2, NextTyped DEF Shape
    <3>2. n # k /\ ~ Replay(n) /\ cookie # n
      BY <1>3, <3>1 DEF ReplayInv, NextIsSecret, At, k
    <3> HIDE DEF n
    <3>3. ~ Rotated(sessions', n)
      BY <1>2, <3>1, <3>2 DEF Replay, Rotated
    <3>4. \A u \in Starter : flights[u] # None => flights[u].token # n /\ (u # v => flights[u].next # n)
      BY <3>1 DEF ReplayInv, NextIsSecret, n
    <3>5. \A u \in Starter : flights'[u] # None =>
              flights'[u].token # n /\ (u # v => flights'[u].next # n)
      BY <1>4, <3>1, <3>2, <3>4
    <3>6. flights'[v].next = n
      BY <3>1 DEF n
    <3>7. ~ Rotated(sessions', flights'[v].next)
      BY <3>3, <3>6
    <3> QED
      BY <1>3, <3>2, <3>5, <3>6, <3>7
  <2> QED
    BY <2>1, <2>2
<1>8. ASSUME cookie' # None, Replay(cookie)', ~ unheard'
      PROVE  \E u \in Starter : Witness(u)'
  <2>1. CASE cookie = k
    <3>1. Witness(s)'
      BY <1>2, <1>3, <1>4, <2>1 DEF Witness
    <3> QED
      BY <3>1
  <2>2. CASE cookie # k
    <3>1. cookie \in Token /\ Replay(cookie)
      BY <1>3, <1>5, <1>6, <1>8, <2>2 DEF Shape, TypeOK, Replay
    <3>2. PICK u \in Starter : Witness(u)
      BY <1>3, <1>8, <3>1 DEF ReplayInv, CookieWitness
    <3>3. Witness(u)'
      BY <1>2, <1>3, <1>4, <3>2 DEF Witness, k
    <3> QED
      BY <3>3
  <2> QED
    BY <2>1, <2>2
<1> QED
  BY <1>7, <1>8 DEF ReplayInv, CookieWitness

LEMMA DoorKeepsReplays ==
    ASSUME Shape, ReplayInv, NEW t \in Tab, SignIn(t) \/ SignOut(t)
    PROVE  ReplayInv'
<1>1. CASE SignIn(t)
  <2> DEFINE next == CHOOSE n \in Unused : TRUE
  <2>1. next \in Token /\ ~ Live(next) /\ ~ Held(next)
    BY <1>1, UnusedChosen DEF SignIn
  <2> HIDE DEF next
  <2>2. /\ sessions' = [sessions EXCEPT ![next] = [family |-> signIns + 1, replaced |-> FALSE]]
        /\ cookie' = next /\ UNCHANGED flights
    BY <1>1 DEF SignIn, NewRow, next
  <2>3. /\ \A l \in Token \ {next} : sessions'[l] = sessions[l]
        /\ ~ Rotated(sessions', next)
    BY <2>1, <2>2 DEF Shape, TypeOK, Rotated
  <2>4. \A k \in Token : Replay(k)' => Replay(k)
    BY <2>3 DEF Replay, Rotated
  <2>5. \A u \in Starter : flights'[u] # None /\ flights'[u].next # None => cookie' # flights'[u].next
    BY <2>1, <2>2 DEF Held
  <2>6. NextIsSecret'
    BY <2>2, <2>4, <2>5, SecretStays DEF Shape, ReplayInv
  <2>7. ~ Replay(cookie)'
    BY <2>2, <2>3 DEF Replay, Rotated
  <2> QED
    BY <2>6, <2>7 DEF ReplayInv, CookieWitness
<1>2. CASE SignOut(t)
  <2>1. cookie' = None /\ UNCHANGED flights
    BY <1>2 DEF SignOut
  <2>2. Drops
    <3>1. CASE cookie # None /\ Live(cookie)
      <4>1. cookie \in Token /\ sessions' = [sessions EXCEPT ![cookie] = Absent]
        BY <1>2, <3>1 DEF SignOut, Shape, TypeOK
      <4> QED
        BY <4>1 DEF Drops, Shape, TypeOK
    <3>2. CASE ~ (cookie # None /\ Live(cookie))
      BY <1>2, <3>2, ForgetDrops DEF SignOut, Shape
    <3> QED
      BY <3>1, <3>2
  <2>3. NextIsSecret'
    BY <2>1, <2>2, DropsReplays, SecretStays DEF Shape, ReplayInv
  <2> QED
    BY <2>1, <2>3 DEF ReplayInv, CookieWitness
<1> QED
  BY <1>1, <1>2

LEMMA ReloadKeepsReplays ==
    ASSUME Shape, ReplayInv, NEW t \in Tab, Reload(t)
    PROVE  ReplayInv'
<1>1. /\ cookie' = cookie /\ Drops
      /\ \A s \in Starter : PageOf(s) # t => flights'[s] = flights[s]
      /\ \A s \in Starter : PageOf(s) = t => flights'[s] \in {Departure, None}
      /\ unheard' = (unheard \/ \E s \in { u \in Starter : PageOf(u) = t } : Unheard(s))
  BY ForgetDrops DEF Reload, Shape
<1>2. \A s \in Starter : flights'[s] # None =>
          \/ flights'[s] = flights[s] /\ flights[s] # None
          \/ flights'[s].token = cookie /\ flights'[s].next = None
  BY <1>1, DepartureTyped DEF Shape
<1>3. \A s \in Starter : flights'[s] # None /\ flights'[s].next # None => cookie' # flights'[s].next
  BY <1>1, <1>2 DEF ReplayInv, NextIsSecret
<1>4. NextIsSecret'
  BY <1>1, <1>2, <1>3, DropsReplays, SecretStays DEF Shape, ReplayInv
<1>5. ASSUME cookie' # None, Replay(cookie)', ~ unheard'
      PROVE  \E u \in Starter : Witness(u)'
  <2>1. cookie \in Token /\ Replay(cookie) /\ ~ unheard
    BY <1>1, <1>5, DropsReplays DEF Shape, TypeOK, Replay
  <2>2. PICK u \in Starter : Witness(u)
    BY <1>1, <1>5, <2>1 DEF ReplayInv, CookieWitness
  <2>3. PageOf(u) # t
    BY <1>1, <1>5, <2>2 DEF Witness, Unheard
  <2>4. Witness(u)'
    BY <1>1, <2>2, <2>3 DEF Witness
  <2> QED
    BY <2>4
<1> QED
  BY <1>4, <1>5 DEF ReplayInv, CookieWitness

LEMMA ReplayStep == Shape /\ ReplayInv /\ [Next]_vars => ReplayInv'
BY ServerKeepsReplays, RefreshKeepsReplays, AnswersKeepReplays, WriteKeepsReplays,
   DoorKeepsReplays, ReloadKeepsReplays
DEF Next, Handler, Answer

LEMMA ReplayInit == Init => ReplayInv
BY DEF Init, ReplayInv, NextIsSecret, CookieWitness

(* A refresh that is refused because its token had been rotated already    *)
(* was not sent by the page itself after a rotation it had heard of: the   *)
(* answer went missing, the cookie has changed, or another page's refresh  *)
(* was under way (web/src/lib/api.ts, docs/rules/auth.md).                 *)
THEOREM ReplaysHaveReasons == Spec => ReplaysAreExplained
<1>1. ASSUME Shape, ReplayInv, NEW s \in Starter, At(s, "sent")
      PROVE  LET k == flights[s].token
             IN  \/ k = None \/ unheard \/ cookie # k
                 \/ ~ Replay(k)
                 \/ \E u \in Starter : /\ PageOf(u) # PageOf(s) /\ flights[u] # None
                                       /\ flights[u].token = k
  <2> DEFINE k == flights[s].token
  <2> SUFFICES ASSUME k # None, ~ unheard, cookie = k, Replay(k)
               PROVE  \E u \in Starter : /\ PageOf(u) # PageOf(s) /\ flights[u] # None
                                         /\ flights[u].token = k
    OBVIOUS
  <2>1. PICK u \in Starter : Witness(u)
    BY <1>1 DEF ReplayInv, CookieWitness
  <2>2. flights[s] # None /\ flights[s].next = None
    BY <1>1 DEF At, Shape, InPhase
  <2>3. u # s /\ flights[u] # None /\ flights[u].token = k
    BY <2>1, <2>2 DEF Witness
  <2>4. PageOf(u) # PageOf(s)
    BY <1>1, <2>2, <2>3 DEF Shape, TypeOK
  <2> QED
    BY <2>3, <2>4
<1>2. ASSUME Shape, ReplayInv
      PROVE  [\A s \in Starter : At(s, "sent") /\ At(s, "no")' =>
                LET k == flights[s].token
                IN  \/ k = None \/ unheard \/ cookie # k
                    \/ ~ Replay(k)
                    \/ \E u \in Starter : PageOf(u) # PageOf(s) /\ flights[u] # None /\ flights[u].token = k]_vars
  BY <1>1, <1>2
<1> QED
  BY <1>2, ReplayInit, ReplayStep, ShapeAlways, PTL DEF Spec, ReplaysAreExplained
=============================================================================
