---------------------------- MODULE LiveDataProofs ----------------------------
(***************************************************************************)
(* Proofs about LiveData for any servers, requests, polling intervals,     *)
(* versions, refreshes in flight and moves: demo data stays demo data, the *)
(* spinners mean work, and the data shown never goes back.                 *)
(***************************************************************************)
EXTENDS LiveData, TLAPS

Row == [url : Servers \cup {NoUrl}, v : Nat]
Calls == {0} \cup Gens
Request == [state : {"none", "sent", "aborted"}, by : Nat, row : Row]
Refresh == [active : BOOLEAN, aborted : BOOLEAN, quiet : BOOLEAN,
            wait : [Keys -> Calls], got : [Keys -> Row]]

\* The refresh r of f is under way and nobody has aborted it.
Open(f, r) == f.refresh[r].active /\ ~f.refresh[r].aborted

FetchTyped(f) ==
  /\ DOMAIN f = {"refresh", "req", "map", "promise", "controller", "loading", "refreshing",
                 "error", "failures", "succeeded"}
  /\ f.refresh \in [Slots -> Refresh] /\ f.req \in [Keys \X Gens -> Request]
  /\ f.map \in [Keys -> Calls]
  /\ f.promise \in Slots \cup {0} /\ f.controller \in Slots \cup {0}
  /\ f.loading \in BOOLEAN /\ f.refreshing \in BOOLEAN /\ f.succeeded \in BOOLEAN

\* The refs are true: the promise is one of a refresh under way, and only the
\* controller's refresh is not aborted.
RefsAreTrue(f) ==
  /\ f.promise # 0 => f.refresh[f.promise].active
  /\ \A r \in Slots : Open(f, r) => f.controller = r

\* "Refreshing" is said only with a refresh under way that is not quiet.
RefreshingIsTrue(f) ==
  f.refreshing => \E r \in Slots : f.refresh[r].active /\ ~f.refresh[r].quiet

\* The map holds the calls in flight, at most one per key, and the refresh that
\* is not aborted waits for exactly these.
MapIsCalls(f) ==
  /\ \A k \in Keys : \A g \in Gens : f.req[<<k, g>>].state # "none" <=> f.map[k] = g
  /\ \A r \in Slots : Open(f, r) => f.refresh[r].wait = f.map

\* Calls go to servers, and so do the rows they brought come from there.
RowsOfServers(f) ==
  /\ \A q \in Keys \X Gens : f.req[q].state # "none" => f.req[q].row.url # NoUrl
  /\ \A r \in Slots : \A k \in Keys : Open(f, r) /\ f.refresh[r].wait[k] = 0 => f.refresh[r].got[k].url # NoUrl

FetchOK(f) == FetchTyped(f) /\ RefsAreTrue(f) /\ RefreshingIsTrue(f) /\ MapIsCalls(f) /\ RowsOfServers(f)

\* The row new may replace the row old.
NoOlder(old, new) == new.url = old.url => old.v <= new.v

\* Neither a call in flight nor the rows that wait for the rest of a refresh
\* are older than the rows shown, and nothing is newer than the servers.
RowsAreOlder(f, rows, v) ==
  /\ rows \in [Keys -> Row]
  /\ \A k \in Keys : rows[k].v <= v /\ (rows[k].url = NoUrl => rows[k].v = 0)
  /\ \A k \in Keys : \A g \in Gens :
       f.req[<<k, g>>].state # "none" => f.req[<<k, g>>].row.v <= v /\ NoOlder(rows[k], f.req[<<k, g>>].row)
  /\ \A r \in Slots : \A k \in Keys :
       Open(f, r) /\ f.refresh[r].wait[k] = 0 =>
         f.refresh[r].got[k].v <= v /\ NoOlder(rows[k], f.refresh[r].got[k])

\* A page that loads has a refresh under way, once it is visible.
LoadingIsTrue(f, p) == p = "visible" /\ f.loading => \E r \in Slots : f.refresh[r].active

\* The demo: nothing of the live mode is left that could act on it.
DemoIsQuiet(f) ==
  /\ ~f.loading /\ ~f.refreshing
  /\ \A r \in Slots : ~Open(f, r)

LiveDataInv ==
  /\ settings \in Settings /\ version \in Nat /\ DOMAIN data = {"source", "rows", "events"}
  /\ FetchOK(fetch) /\ RowsAreOlder(fetch, data.rows, version) /\ LoadingIsTrue(fetch, page)
  /\ ~settings.liveMode =>
       /\ DemoIsQuiet(fetch) /\ data = DemoData /\ events = NoEvents /\ loop = NoLoop
       /\ rung = "off" /\ live = FALSE

-----------------------------------------------------------------------------
(* The refresh.                                                            *)

\* g has the refreshes and calls of f, some of them aborted.
Weaker(f, g) ==
  /\ \A r \in Slots :
       /\ g.refresh[r].active = f.refresh[r].active /\ g.refresh[r].quiet = f.refresh[r].quiet
       /\ g.refresh[r].wait = f.refresh[r].wait /\ g.refresh[r].got = f.refresh[r].got
       /\ f.refresh[r].aborted => g.refresh[r].aborted
  /\ \A q \in Keys \X Gens :
       g.req[q].row = f.req[q].row /\ (g.req[q].state = "none" <=> f.req[q].state = "none")
  /\ g.map = f.map /\ g.promise = f.promise /\ g.controller = f.controller

LEMMA WeakerKeeps ==
  ASSUME NEW f, NEW g, FetchOK(f), FetchTyped(g), Weaker(f, g),
         (g.refreshing => f.refreshing) \/ RefreshingIsTrue(g)
  PROVE  /\ FetchOK(g)
         /\ \A rows, v : RowsAreOlder(f, rows, v) => RowsAreOlder(g, rows, v)
<1>1. \A r \in Slots : Open(g, r) => Open(f, r)
  BY DEF Weaker, Open
<1>2. RefsAreTrue(g)
  <2>1. ASSUME g.promise # 0 PROVE g.refresh[g.promise].active
    <3>1. g.promise \in Slots /\ f.refresh[g.promise].active
      BY <2>1 DEF Weaker, FetchOK, RefsAreTrue, FetchTyped
    <3> QED BY <3>1 DEF Weaker
  <2>2. \A r \in Slots : Open(g, r) => g.controller = r
    BY <1>1 DEF Weaker, FetchOK, RefsAreTrue
  <2> QED BY <2>1, <2>2 DEF RefsAreTrue
<1>3. RefreshingIsTrue(g)
  BY DEF Weaker, FetchOK, RefreshingIsTrue
<1>4. MapIsCalls(g)
  <2>1. ASSUME NEW k \in Keys, NEW n \in Gens PROVE g.req[<<k, n>>].state # "none" <=> g.map[k] = n
    <3>1. <<k, n>> \in Keys \X Gens
      OBVIOUS
    <3> QED BY <3>1 DEF Weaker, FetchOK, MapIsCalls
  <2>2. \A r \in Slots : Open(g, r) => g.refresh[r].wait = g.map
    BY <1>1 DEF Weaker, FetchOK, MapIsCalls
  <2> QED BY <2>1, <2>2 DEF MapIsCalls
<1>5. RowsOfServers(g)
  BY <1>1 DEF Weaker, FetchOK, RowsOfServers
<1>6. ASSUME NEW rows, NEW v, RowsAreOlder(f, rows, v) PROVE RowsAreOlder(g, rows, v)
  <2>1. ASSUME NEW k \in Keys, NEW n \in Gens, g.req[<<k, n>>].state # "none"
        PROVE  g.req[<<k, n>>].row.v <= v /\ NoOlder(rows[k], g.req[<<k, n>>].row)
    <3>1. <<k, n>> \in Keys \X Gens
      OBVIOUS
    <3> QED BY <1>6, <2>1, <3>1 DEF Weaker, RowsAreOlder
  <2>2. ASSUME NEW r \in Slots, NEW k \in Keys, Open(g, r), g.refresh[r].wait[k] = 0
        PROVE  g.refresh[r].got[k].v <= v /\ NoOlder(rows[k], g.refresh[r].got[k])
    BY <1>1, <1>6, <2>2 DEF Weaker, RowsAreOlder
  <2> QED BY <1>6, <2>1, <2>2 DEF RowsAreOlder
<1> QED BY <1>2, <1>3, <1>4, <1>5, <1>6 DEF FetchOK

\* abort() of a controller
LEMMA AbortFields ==
  ASSUME NEW f, FetchTyped(f), NEW c \in Slots \cup {0}
  PROVE  LET g == Abort(f, c)
         IN  /\ FetchTyped(g) /\ Weaker(f, g)
             /\ c # 0 => g.refresh[c].aborted
             /\ g.loading = f.loading /\ g.refreshing = f.refreshing /\ g.succeeded = f.succeeded
<1> DEFINE g == Abort(f, c)
<1>1. CASE c = 0
  <2>1. g = f
    BY <1>1 DEF Abort
  <2> HIDE DEF g
  <2>2. FetchTyped(g) /\ Weaker(f, g) /\ g.loading = f.loading /\ g.refreshing = f.refreshing
        /\ g.succeeded = f.succeeded
    BY <2>1 DEF Weaker
  <2> QED BY <1>1, <2>2 DEF g
<1>2. CASE c # 0
  <2> DEFINE R == [f.refresh EXCEPT ![c].aborted = TRUE]
             Q == [q \in Keys \X Gens |-> IF f.req[q].by = c /\ f.req[q].state # "none"
                                          THEN [f.req[q] EXCEPT !.state = "aborted"] ELSE f.req[q]]
             h == [f EXCEPT !.refresh = R, !.req = Q]
  <2>0. c \in Slots
    BY <1>2
  <2>1. g = h
    <3>1. [f EXCEPT !.refresh[c].aborted = TRUE, !.req = Q] = h
      OBVIOUS
    <3> QED BY <3>1, <1>2 DEF Abort
  <2>2. DOMAIN f = {"refresh", "req", "map", "promise", "controller", "loading", "refreshing",
                    "error", "failures", "succeeded"}
    BY DEF FetchTyped
  <2>3. R \in [Slots -> Refresh] /\ \A r \in Slots :
          /\ R[r].active = f.refresh[r].active /\ R[r].quiet = f.refresh[r].quiet
          /\ R[r].wait = f.refresh[r].wait /\ R[r].got = f.refresh[r].got
          /\ f.refresh[r].aborted => R[r].aborted
          /\ r = c => R[r].aborted
    <3>1. ASSUME NEW r \in Slots
          PROVE  LET x == f.refresh[r]
                     y == [x EXCEPT !.aborted = TRUE]
                 IN  /\ y \in Refresh /\ y.active = x.active /\ y.quiet = x.quiet /\ y.wait = x.wait
                     /\ y.got = x.got /\ y.aborted
      <4>1. f.refresh[r] \in Refresh
        BY DEF FetchTyped
      <4> QED BY <4>1 DEF Refresh
    <3>2. f.refresh \in [Slots -> Refresh]
      BY DEF FetchTyped
    <3>3. ASSUME NEW r \in Slots
          PROVE  R[r] = IF r = c THEN [f.refresh[r] EXCEPT !.aborted = TRUE] ELSE f.refresh[r]
      BY <3>2, <2>0
    <3>4. DOMAIN R = Slots /\ R = [r \in Slots |-> R[r]]
      BY <3>2
    <3> HIDE DEF R
    <3>5. ASSUME NEW r \in Slots PROVE R[r] \in Refresh
      BY <3>1, <3>2, <3>3
    <3>6. R \in [Slots -> Refresh]
      BY <3>4, <3>5
    <3>7. ASSUME NEW r \in Slots
          PROVE  /\ R[r].active = f.refresh[r].active /\ R[r].quiet = f.refresh[r].quiet
                 /\ R[r].wait = f.refresh[r].wait /\ R[r].got = f.refresh[r].got
                 /\ f.refresh[r].aborted => R[r].aborted
                 /\ r = c => R[r].aborted
      BY <3>1, <3>3, Zenon
    <3> QED BY <3>6, <3>7
  <2>4. Q \in [Keys \X Gens -> Request] /\ \A q \in Keys \X Gens :
          Q[q].row = f.req[q].row /\ (Q[q].state = "none" <=> f.req[q].state = "none")
    <3>1. \A q \in Keys \X Gens : f.req[q] \in Request
      BY DEF FetchTyped
    <3> QED BY <3>1 DEF Request
  <2> HIDE DEF R, Q
  <2>5. /\ DOMAIN h = DOMAIN f /\ h.refresh = R /\ h.req = Q /\ h.map = f.map /\ h.promise = f.promise
        /\ h.controller = f.controller /\ h.loading = f.loading /\ h.refreshing = f.refreshing
        /\ h.succeeded = f.succeeded
    BY <2>2
  <2> HIDE DEF g, h
  <2>6. FetchTyped(h)
    BY <2>3, <2>4, <2>5 DEF FetchTyped
  <2>7. Weaker(f, h)
    BY <2>3, <2>4, <2>5 DEF Weaker
  <2>8. h.refresh[c].aborted
    BY <2>0, <2>3, <2>5
  <2>9. /\ FetchTyped(g) /\ Weaker(f, g) /\ g.refresh[c].aborted
        /\ g.loading = f.loading /\ g.refreshing = f.refreshing /\ g.succeeded = f.succeeded
    BY <2>1, <2>5, <2>6, <2>7, <2>8
  <2> QED BY <2>9 DEF g
<1> QED BY <1>1, <1>2

LEMMA AbortKeeps ==
  ASSUME NEW f, FetchOK(f)
  PROVE  LET g == Abort(f, f.controller)
         IN  /\ FetchOK(g) /\ Weaker(f, g)
             /\ \A r \in Slots : ~Open(g, r)
             /\ g.loading = f.loading /\ g.refreshing = f.refreshing /\ g.succeeded = f.succeeded
<1> DEFINE c == f.controller
           g == Abort(f, c)
<1>1. FetchTyped(f) /\ c \in Slots \cup {0}
  BY DEF FetchOK, FetchTyped
<1>2. /\ FetchTyped(g) /\ Weaker(f, g)
      /\ c # 0 => g.refresh[c].aborted
      /\ g.loading = f.loading /\ g.refreshing = f.refreshing /\ g.succeeded = f.succeeded
  BY <1>1, AbortFields
<1> HIDE DEF g
<1>3. FetchOK(g)
  BY <1>2, WeakerKeeps
<1>4. ASSUME NEW r \in Slots, Open(g, r) PROVE FALSE
  <2>1. g.controller = r
    BY <1>3, <1>4 DEF FetchOK, RefsAreTrue
  <2>2. c = r /\ r # 0
    BY <1>2, <2>1 DEF Weaker, Slots
  <2> QED BY <1>2, <1>4, <2>2 DEF Open
<1>5. /\ FetchOK(g) /\ Weaker(f, g) /\ \A r \in Slots : ~Open(g, r)
      /\ g.loading = f.loading /\ g.refreshing = f.refreshing /\ g.succeeded = f.succeeded
  BY <1>2, <1>3, <1>4
<1> QED BY <1>5 DEF g

\* The calls of a refresh, made when no other refresh is open.
LEMMA MakeRequestsKeeps ==
  ASSUME NEW f, FetchOK(f), \A r \in Slots : ~Open(f, r), HasSlot(f),
         NEW s, s.url \in Servers, NEW quiet \in BOOLEAN, version \in Nat
  PROVE  LET g == MakeRequests(f, s, quiet)
         IN  /\ FetchOK(g)
             /\ \A rows : RowsAreOlder(f, rows, version) => RowsAreOlder(g, rows, version)
             /\ \E r \in Slots : g.refresh[r].active /\ g.refresh[r].quiet = quiet
             /\ g.loading = f.loading /\ g.refreshing = f.refreshing /\ g.succeeded = f.succeeded
<1> DEFINE r == FreeSlot(f)
           gen == [k \in Keys |-> IF f.map[k] # 0 THEN f.map[k] ELSE FreeGen(f, k)]
           new == [NoRefresh EXCEPT !.active = TRUE, !.quiet = quiet, !.wait = gen]
           row == [url |-> s.url, v |-> version]
           call == [state |-> "sent", by |-> r, row |-> row]
           R == [f.refresh EXCEPT ![r] = new]
           Q == [q \in Keys \X Gens |-> IF f.map[q[1]] = 0 /\ gen[q[1]] = q[2] THEN call ELSE f.req[q]]
           h == [f EXCEPT !.refresh = R, !.req = Q, !.map = gen, !.promise = r, !.controller = r]
           g == MakeRequests(f, s, quiet)
<1>1. g = h
  <2>1. [f EXCEPT !.refresh[r] = new, !.req = Q, !.map = gen, !.promise = r, !.controller = r] = h
    OBVIOUS
  <2> QED BY <2>1 DEF MakeRequests
<1>2. FetchTyped(f) /\ RefsAreTrue(f) /\ RefreshingIsTrue(f) /\ MapIsCalls(f) /\ RowsOfServers(f)
  BY DEF FetchOK
<1>3. r \in Slots /\ ~f.refresh[r].active /\ r # 0 /\ r \in Nat
  <2>1. r \in Slots /\ ~f.refresh[r].active
    BY DEF HasSlot, FreeSlot
  <2> QED BY <2>1, LiveDataAssumption DEF Slots
<1>4. gen \in [Keys -> Calls] /\ \A k \in Keys : gen[k] \in Gens /\ (f.map[k] # 0 => gen[k] = f.map[k])
  BY <1>2 DEF FetchTyped, Calls, FreeGen, Gens
<1>5. ASSUME NEW k \in Keys, f.map[k] = 0, NEW n \in Gens PROVE f.req[<<k, n>>].state = "none"
  <2>1. n # f.map[k]
    BY <1>5 DEF Gens
  <2> QED BY <1>2, <2>1 DEF MapIsCalls
<1>6. row \in Row /\ row.url = s.url /\ row.v = version /\ row.url # NoUrl
  BY LiveDataAssumption DEF Row
<1>7. call \in Request /\ call.state = "sent" /\ call.row = row
  BY <1>3, <1>6 DEF Request
<1>8. /\ new \in Refresh /\ new.active /\ ~new.aborted /\ new.quiet = quiet /\ new.wait = gen
  <2>1. NoRows \in [Keys -> Row]
    BY DEF NoRows, NoRow, Row
  <2> HIDE DEF gen
  <2> QED BY <2>1, <1>4 DEF NoRefresh, Refresh
<1>9. /\ R \in [Slots -> Refresh] /\ R[r] = new
      /\ \A x \in Slots : x # r => R[x] = f.refresh[x]
  <2> HIDE DEF new, r
  <2> QED BY <1>2, <1>3, <1>8 DEF FetchTyped
<1>10. ASSUME NEW k \in Keys, NEW n \in Gens
       PROVE  Q[<<k, n>>] = IF f.map[k] = 0 /\ gen[k] = n THEN call ELSE f.req[<<k, n>>]
  <2> HIDE DEF gen, call
  <2> QED OBVIOUS
<1>11. Q \in [Keys \X Gens -> Request]
  <2> HIDE DEF gen, call
  <2> QED BY <1>2, <1>7 DEF FetchTyped
<1> HIDE DEF gen, new, row, call, R, Q, r
<1>12. /\ DOMAIN h = DOMAIN f /\ h.refresh = R /\ h.req = Q /\ h.map = gen /\ h.promise = r
       /\ h.controller = r /\ h.loading = f.loading /\ h.refreshing = f.refreshing
       /\ h.succeeded = f.succeeded
  BY <1>2 DEF FetchTyped
<1> HIDE DEF h, g
<1>13. FetchTyped(h)
  BY <1>2, <1>3, <1>4, <1>9, <1>11, <1>12 DEF FetchTyped
<1>14. ASSUME NEW x \in Slots, Open(h, x) PROVE x = r /\ h.refresh[x].wait = gen
  <2>1. CASE x = r
    BY <2>1, <1>8, <1>9, <1>12
  <2>2. CASE x # r
    <3>1. h.refresh[x] = f.refresh[x]
      BY <2>2, <1>9, <1>12
    <3> QED BY <3>1, <1>14 DEF Open
  <2> QED BY <2>1, <2>2
<1>15. RefsAreTrue(h)
  BY <1>8, <1>9, <1>12, <1>14 DEF RefsAreTrue
<1>16. RefreshingIsTrue(h)
  <2>1. SUFFICES ASSUME h.refreshing
                 PROVE  \E x \in Slots : h.refresh[x].active /\ ~h.refresh[x].quiet
    BY DEF RefreshingIsTrue
  <2>2. PICK x \in Slots : f.refresh[x].active /\ ~f.refresh[x].quiet
    BY <1>2, <1>12, <2>1 DEF RefreshingIsTrue
  <2>3. h.refresh[x] = f.refresh[x]
    BY <1>3, <1>9, <1>12, <2>2
  <2> QED BY <2>2, <2>3
<1>17. MapIsCalls(h)
  <2>1. ASSUME NEW k \in Keys, NEW n \in Gens PROVE h.req[<<k, n>>].state # "none" <=> h.map[k] = n
    <3>1. CASE f.map[k] = 0
      BY <3>1, <1>5, <1>7, <1>10, <1>12
    <3>2. CASE f.map[k] # 0
      BY <3>2, <1>2, <1>4, <1>10, <1>12 DEF MapIsCalls
    <3> QED BY <3>1, <3>2
  <2> QED BY <2>1, <1>12, <1>14 DEF MapIsCalls
<1>18. ASSUME NEW k \in Keys, NEW n \in Gens, h.req[<<k, n>>].state # "none"
       PROVE  h.req[<<k, n>>].row = row \/ (/\ f.req[<<k, n>>].state # "none"
                                           /\ h.req[<<k, n>>] = f.req[<<k, n>>])
  BY <1>7, <1>10, <1>12, <1>18
<1>19. ASSUME NEW x \in Slots, NEW k \in Keys, Open(h, x), h.refresh[x].wait[k] = 0 PROVE FALSE
  <2>1. gen[k] = 0
    BY <1>14, <1>19
  <2> QED BY <2>1, <1>4 DEF Gens
<1>20. RowsOfServers(h)
  <2>1. ASSUME NEW q \in Keys \X Gens, h.req[q].state # "none" PROVE h.req[q].row.url # NoUrl
    <3>1. PICK k \in Keys, n \in Gens : q = <<k, n>>
      OBVIOUS
    <3>2. h.req[q].row = row \/ (f.req[q].state # "none" /\ h.req[q] = f.req[q])
      BY <1>18, <2>1, <3>1
    <3> QED BY <3>2, <1>2, <1>6 DEF RowsOfServers
  <2> QED BY <2>1, <1>19 DEF RowsOfServers
<1>21. ASSUME NEW rows, RowsAreOlder(f, rows, version) PROVE RowsAreOlder(h, rows, version)
  <2>1. ASSUME NEW k \in Keys, NEW n \in Gens, h.req[<<k, n>>].state # "none"
        PROVE  h.req[<<k, n>>].row.v <= version /\ NoOlder(rows[k], h.req[<<k, n>>].row)
    <3>1. CASE h.req[<<k, n>>].row = row
      BY <3>1, <1>6, <1>21 DEF RowsAreOlder, NoOlder
    <3>2. CASE f.req[<<k, n>>].state # "none" /\ h.req[<<k, n>>] = f.req[<<k, n>>]
      BY <3>2, <1>21 DEF RowsAreOlder
    <3> QED BY <3>1, <3>2, <2>1, <1>18
  <2> QED BY <2>1, <1>19, <1>21 DEF RowsAreOlder
<1>22. \E x \in Slots : h.refresh[x].active /\ h.refresh[x].quiet = quiet
  BY <1>3, <1>8, <1>9, <1>12
<1>23. /\ FetchOK(g)
       /\ \A rows : RowsAreOlder(f, rows, version) => RowsAreOlder(g, rows, version)
       /\ \E x \in Slots : g.refresh[x].active /\ g.refresh[x].quiet = quiet
       /\ g.loading = f.loading /\ g.refreshing = f.refreshing /\ g.succeeded = f.succeeded
  <2>1. FetchOK(h)
    BY <1>13, <1>15, <1>16, <1>17, <1>20 DEF FetchOK
  <2> QED BY <1>1, <1>12, <1>21, <1>22, <2>1
<1> QED BY <1>23 DEF g

LEMMA WeakerSlots ==
  ASSUME NEW f, NEW g, Weaker(f, g)
  PROVE  /\ HasSlot(f) <=> HasSlot(g)
         /\ (\A r \in Slots : ~Open(f, r)) => (\A r \in Slots : ~Open(g, r))
         /\ (\E r \in Slots : f.refresh[r].active) => (\E r \in Slots : g.refresh[r].active)
BY DEF Weaker, HasSlot, Open

\* g is f but for its flags.
SameCalls(f, g) ==
  /\ DOMAIN g = DOMAIN f /\ g.refresh = f.refresh /\ g.req = f.req /\ g.map = f.map
  /\ g.promise = f.promise /\ g.controller = f.controller
  /\ g.loading \in BOOLEAN /\ g.refreshing \in BOOLEAN /\ g.succeeded \in BOOLEAN

LEMMA SameCallsKeep ==
  ASSUME NEW f, NEW g, FetchOK(f), SameCalls(f, g), (g.refreshing => f.refreshing) \/ RefreshingIsTrue(g)
  PROVE  /\ FetchOK(g) /\ Weaker(f, g)
         /\ \A rows, v : RowsAreOlder(f, rows, v) => RowsAreOlder(g, rows, v)
<1>1. FetchTyped(g)
  BY DEF FetchOK, FetchTyped, SameCalls
<1>2. Weaker(f, g)
  BY DEF SameCalls, Weaker
<1> QED BY <1>1, <1>2, WeakerKeeps

\* refreshConsole
LEMMA RefreshKeeps ==
  ASSUME NEW f, FetchOK(f), HasSlot(f), NEW s \in Settings, NEW force \in BOOLEAN, NEW quiet \in BOOLEAN,
         version \in Nat
  PROVE  LET g == RefreshConsole(f, s, force, quiet)
         IN  /\ FetchOK(g)
             /\ \A rows : RowsAreOlder(f, rows, version) => RowsAreOlder(g, rows, version)
             /\ s.liveMode /\ g.loading => \E r \in Slots : g.refresh[r].active
             /\ ~s.liveMode => g = f
<1> DEFINE g == RefreshConsole(f, s, force, quiet)
           Good(x) == /\ FetchOK(x)
                      /\ \A rows : RowsAreOlder(f, rows, version) => RowsAreOlder(x, rows, version)
                      /\ s.liveMode /\ x.loading => \E r \in Slots : x.refresh[r].active
                      /\ ~s.liveMode => x = f
<1>0. FetchTyped(f)
  BY DEF FetchOK
<1>1. CASE ~s.liveMode
  <2>1. g = f
    BY <1>1 DEF RefreshConsole
  <2>2. Good(f)
    BY <1>1
  <2> QED BY <2>1, <2>2
<1>2. CASE s.liveMode /\ s.url = NoUrl
  <2> DEFINE b == f.refreshing /\ quiet
             n == IF f.failures = 0 THEN 1 ELSE f.failures
  <2>1. g = [f EXCEPT !.loading = FALSE, !.refreshing = b, !.error = "config", !.failures = n]
    BY <1>2 DEF RefreshConsole
  <2>2. b \in BOOLEAN
    OBVIOUS
  <2> HIDE DEF g, b, n
  <2>3. SameCalls(f, g) /\ g.loading = FALSE /\ g.refreshing = b
    BY <1>0, <2>1, <2>2 DEF SameCalls, FetchTyped
  <2>4. g.refreshing => f.refreshing
    BY <2>3 DEF b
  <2>5. FetchOK(g) /\ \A rows : RowsAreOlder(f, rows, version) => RowsAreOlder(g, rows, version)
    BY <2>3, <2>4, SameCallsKeep
  <2>6. Good(g)
    BY <1>2, <2>3, <2>5
  <2> QED BY <2>6 DEF g
<1>3. CASE s.liveMode /\ s.url # NoUrl /\ f.promise # 0 /\ ~force
  <2>1. g = f
    BY <1>3 DEF RefreshConsole
  <2>2. f.promise \in Slots /\ f.refresh[f.promise].active
    BY <1>3 DEF FetchOK, RefsAreTrue, FetchTyped
  <2>3. Good(f)
    BY <1>3, <2>2
  <2> QED BY <2>1, <2>3
<1>4. CASE s.liveMode /\ s.url # NoUrl /\ ~(f.promise # 0 /\ ~force)
  <2> DEFINE a == Abort(f, f.controller)
             m == MakeRequests(a, s, quiet)
  <2>1. FetchOK(a) /\ Weaker(f, a) /\ \A r \in Slots : ~Open(a, r)
    BY AbortKeeps
  <2>2. \A rows : RowsAreOlder(f, rows, version) => RowsAreOlder(a, rows, version)
    BY <2>1, WeakerKeeps DEF FetchOK
  <2>3. HasSlot(a)
    BY <2>1, WeakerSlots
  <2>4. s.url \in Servers
    BY <1>4 DEF Settings
  <2>5. f.succeeded \in BOOLEAN
    BY <1>0 DEF FetchTyped
  <2> HIDE DEF a
  <2>6. /\ FetchOK(m)
        /\ \A rows : RowsAreOlder(a, rows, version) => RowsAreOlder(m, rows, version)
        /\ \E r \in Slots : m.refresh[r].active /\ m.refresh[r].quiet = quiet
    BY <2>1, <2>3, <2>4, MakeRequestsKeeps
  <2>7. g = IF ~f.succeeded THEN [m EXCEPT !.loading = TRUE]
            ELSE IF ~quiet THEN [m EXCEPT !.refreshing = TRUE] ELSE m
    BY <1>4 DEF RefreshConsole, a
  <2> HIDE DEF m
  <2>8. FetchTyped(m)
    BY <2>6 DEF FetchOK
  <2> HIDE DEF g
  <2>9. SameCalls(m, g)
    BY <2>7, <2>8 DEF FetchTyped, SameCalls
  <2>10. (g.refreshing => m.refreshing) \/ RefreshingIsTrue(g)
    <3>1. CASE ~f.succeeded \/ quiet
      <4>1. g.refreshing = m.refreshing
        BY <2>7, <2>8, <3>1 DEF FetchTyped
      <4> QED BY <4>1
    <3>2. CASE ~quiet
      BY <3>2, <2>6, <2>9 DEF RefreshingIsTrue, SameCalls
    <3> QED BY <3>1, <3>2
  <2>11. FetchOK(g) /\ \A rows : RowsAreOlder(m, rows, version) => RowsAreOlder(g, rows, version)
    BY <2>6, <2>9, <2>10, SameCallsKeep
  <2>12. \E r \in Slots : g.refresh[r].active
    BY <2>6, <2>9 DEF SameCalls
  <2>13. Good(g)
    BY <1>4, <2>2, <2>6, <2>11, <2>12
  <2> QED BY <2>13 DEF g
<1> QED BY <1>1, <1>2, <1>3, <1>4

-----------------------------------------------------------------------------
(* The effects.                                                            *)

\* The polling effect's refresh.
LEMMA PollingKeeps ==
  ASSUME NEW f, FetchOK(f), HasSlot(f), NEW s \in Settings, NEW p, version \in Nat
  PROVE  LET g == PollingEffect(f, s, p)
         IN  /\ FetchOK(g)
             /\ \A rows : RowsAreOlder(f, rows, version) => RowsAreOlder(g, rows, version)
             /\ s.liveMode => LoadingIsTrue(g, p)
             /\ ~s.liveMode => g = f
<1> DEFINE g == PollingEffect(f, s, p)
           quiet == s.url = NoUrl \/ f.succeeded
           h == RefreshConsole(f, s, FALSE, quiet)
<1>1. CASE ~s.liveMode \/ (s.url # NoUrl /\ p # "visible")
  <2>1. g = f
    BY <1>1 DEF PollingEffect
  <2> HIDE DEF g
  <2>2. s.liveMode => LoadingIsTrue(g, p)
    BY <1>1 DEF LoadingIsTrue
  <2>3. /\ FetchOK(g)
        /\ \A rows : RowsAreOlder(f, rows, version) => RowsAreOlder(g, rows, version)
        /\ s.liveMode => LoadingIsTrue(g, p)
        /\ ~s.liveMode => g = f
    BY <2>1, <2>2
  <2> QED BY <2>3 DEF g
<1>2. CASE ~(~s.liveMode \/ (s.url # NoUrl /\ p # "visible"))
  <2>1. g = h
    BY <1>2 DEF PollingEffect
  <2>2. quiet \in BOOLEAN
    BY DEF FetchOK, FetchTyped
  <2> HIDE DEF quiet
  <2>3. /\ FetchOK(h)
        /\ \A rows : RowsAreOlder(f, rows, version) => RowsAreOlder(h, rows, version)
        /\ s.liveMode /\ h.loading => \E r \in Slots : h.refresh[r].active
    BY <2>2, RefreshKeeps
  <2> HIDE DEF g, h
  <2>4. /\ FetchOK(g)
        /\ \A rows : RowsAreOlder(f, rows, version) => RowsAreOlder(g, rows, version)
        /\ s.liveMode => LoadingIsTrue(g, p)
        /\ ~s.liveMode => g = f
    BY <1>2, <2>1, <2>3 DEF LoadingIsTrue
  <2> QED BY <2>4 DEF g
<1> QED BY <1>1, <1>2

\* The switch between live and demo leaves no refresh open.
LEMMA ModeKeeps ==
  ASSUME NEW f, FetchOK(f), NEW on \in BOOLEAN
  PROVE  LET g == ModeEffect(f, on)
         IN  /\ FetchOK(g)
             /\ HasSlot(f) => HasSlot(g)
             /\ \A rows, v : RowsAreOlder(f, rows, v) => RowsAreOlder(g, rows, v)
             /\ \A r \in Slots : ~Open(g, r)
             /\ g.loading = on /\ g.refreshing = FALSE
<1> DEFINE a == Abort(f, f.controller)
           g == ModeEffect(f, on)
<1>1. FetchOK(a) /\ Weaker(f, a) /\ \A r \in Slots : ~Open(a, r)
  BY AbortKeeps
<1>2. FetchTyped(a)
  BY <1>1 DEF FetchOK
<1>3. \A rows, v : RowsAreOlder(f, rows, v) => RowsAreOlder(a, rows, v)
  <2>1. (a.refreshing => f.refreshing) \/ RefreshingIsTrue(a)
    BY <1>1 DEF FetchOK
  <2> HIDE DEF a
  <2> QED BY <1>1, <1>2, <2>1, WeakerKeeps
<1>4. g = [a EXCEPT !.loading = on, !.refreshing = FALSE, !.error = "", !.failures = 0, !.succeeded = FALSE]
  BY DEF ModeEffect
<1> HIDE DEF a, g
<1>5. SameCalls(a, g) /\ g.loading = on /\ g.refreshing = FALSE
  BY <1>2, <1>4 DEF FetchTyped, SameCalls
<1>6. /\ FetchOK(g) /\ Weaker(a, g)
      /\ \A rows, v : RowsAreOlder(a, rows, v) => RowsAreOlder(g, rows, v)
  BY <1>1, <1>5, SameCallsKeep
<1>7. HasSlot(f) => HasSlot(g)
  BY <1>1, <1>6, WeakerSlots
<1>8. \A r \in Slots : ~Open(g, r)
  BY <1>1, <1>6, WeakerSlots
<1>9. /\ FetchOK(g)
      /\ HasSlot(f) => HasSlot(g)
      /\ \A rows, v : RowsAreOlder(f, rows, v) => RowsAreOlder(g, rows, v)
      /\ \A r \in Slots : ~Open(g, r)
      /\ g.loading = on /\ g.refreshing = FALSE
  BY <1>3, <1>5, <1>6, <1>7, <1>8
<1> QED BY <1>9 DEF g

LEMMA Fetch0OK ==
  FetchOK(Fetch0) /\ HasSlot(Fetch0) /\ \A v \in Nat : RowsAreOlder(Fetch0, NoRows, v)
<1>1. /\ Fetch0.refresh = [r \in Slots |-> NoRefresh] /\ Fetch0.req = [q \in Keys \X Gens |-> NoRequest]
      /\ Fetch0.map = [k \in Keys |-> 0] /\ Fetch0.promise = 0 /\ Fetch0.controller = 0
      /\ Fetch0.loading = TRUE /\ Fetch0.refreshing = FALSE /\ Fetch0.succeeded = FALSE
      /\ DOMAIN Fetch0 = {"refresh", "req", "map", "promise", "controller", "loading", "refreshing",
                          "error", "failures", "succeeded"}
  BY DEF Fetch0
<1>2. NoRow \in Row /\ NoRow.url = NoUrl /\ NoRow.v = 0
  BY DEF NoRow, Row
<1>3. NoRows \in [Keys -> Row] /\ \A k \in Keys : NoRows[k] = NoRow
  BY <1>2 DEF NoRows
<1>4. NoRefresh \in Refresh /\ ~NoRefresh.active
  BY <1>3 DEF NoRefresh, Refresh, Calls
<1>5. NoRequest \in Request /\ NoRequest.state = "none"
  BY <1>2 DEF NoRequest, Request
<1>6. \A r \in Slots : Fetch0.refresh[r] = NoRefresh /\ ~Open(Fetch0, r)
  BY <1>1, <1>4 DEF Open
<1>7. \A q \in Keys \X Gens : Fetch0.req[q] = NoRequest
  BY <1>1
<1>8. FetchTyped(Fetch0)
  <2>1. Fetch0.refresh \in [Slots -> Refresh]
    BY <1>1, <1>4
  <2>2. Fetch0.req \in [Keys \X Gens -> Request]
    BY <1>1, <1>5
  <2>3. Fetch0.map \in [Keys -> Calls]
    BY <1>1 DEF Calls
  <2> QED BY <1>1, <2>1, <2>2, <2>3 DEF FetchTyped
<1>9. RefsAreTrue(Fetch0) /\ RefreshingIsTrue(Fetch0)
  BY <1>1, <1>6 DEF RefsAreTrue, RefreshingIsTrue
<1>10. MapIsCalls(Fetch0)
  <2>1. ASSUME NEW k \in Keys, NEW n \in Gens
        PROVE  Fetch0.req[<<k, n>>].state # "none" <=> Fetch0.map[k] = n
    <3>1. Fetch0.map[k] = 0 /\ n # 0
      BY <1>1 DEF Gens
    <3>2. <<k, n>> \in Keys \X Gens
      OBVIOUS
    <3>3. Fetch0.req[<<k, n>>].state = "none"
      BY <1>5, <1>7, <3>2
    <3> QED BY <3>1, <3>3
  <2> QED BY <2>1, <1>6 DEF MapIsCalls
<1>11. RowsOfServers(Fetch0)
  BY <1>5, <1>6, <1>7 DEF RowsOfServers
<1>12. HasSlot(Fetch0)
  <2>1. 1 \in Slots
    BY LiveDataAssumption DEF Slots
  <2> QED BY <2>1, <1>4, <1>6 DEF HasSlot
<1>13. ASSUME NEW v \in Nat PROVE RowsAreOlder(Fetch0, NoRows, v)
  <2>1. ASSUME NEW k \in Keys, NEW n \in Gens PROVE Fetch0.req[<<k, n>>].state = "none"
    <3>1. <<k, n>> \in Keys \X Gens
      OBVIOUS
    <3> QED BY <1>5, <1>7, <3>1
  <2>2. \A k \in Keys : NoRows[k].v <= v /\ (NoRows[k].url = NoUrl => NoRows[k].v = 0)
    BY <1>2, <1>3
  <2> QED BY <2>1, <2>2, <1>3, <1>6 DEF RowsAreOlder
<1> QED BY <1>8, <1>9, <1>10, <1>11, <1>12, <1>13 DEF FetchOK

\* A page that is loaded.
LEMMA LoadOK ==
  ASSUME NEW s \in Settings, NEW p \in {"visible", "hidden"}, version \in Nat
  PROVE  LET l == Load(s, p)
         IN  /\ FetchOK(l.fetch) /\ RowsAreOlder(l.fetch, l.data.rows, version) /\ LoadingIsTrue(l.fetch, p)
             /\ ~s.liveMode => /\ DemoIsQuiet(l.fetch) /\ l.data = DemoData /\ l.loop = NoLoop
                               /\ l.rung = "off"
<1> DEFINE l == Load(s, p)
           m == ModeEffect(Fetch0, s.liveMode)
           f == PollingEffect(m, s, p)
<1>1. s.liveMode \in BOOLEAN
  BY DEF Settings
<1>2. /\ FetchOK(m) /\ HasSlot(m) /\ RowsAreOlder(m, NoRows, version) /\ \A r \in Slots : ~Open(m, r)
      /\ m.loading = s.liveMode /\ m.refreshing = FALSE
  BY <1>1, Fetch0OK, ModeKeeps
<1> HIDE DEF m
<1>3. /\ FetchOK(f) /\ RowsAreOlder(f, NoRows, version) /\ (s.liveMode => LoadingIsTrue(f, p))
      /\ (~s.liveMode => f = m)
  BY <1>2, PollingKeeps
<1>4. /\ l.fetch = f /\ l.data.rows = NoRows
      /\ ~s.liveMode => l.data = DemoData /\ l.loop = NoLoop /\ l.rung = "off"
  BY DEF Load, m, EmptyLive, DemoData, LoopEffect, WantsStream
<1> HIDE DEF l, f
<1>5. ~s.liveMode => DemoIsQuiet(f) /\ LoadingIsTrue(f, p)
  BY <1>2, <1>3 DEF DemoIsQuiet, LoadingIsTrue
<1>6. /\ FetchOK(l.fetch) /\ RowsAreOlder(l.fetch, l.data.rows, version) /\ LoadingIsTrue(l.fetch, p)
      /\ ~s.liveMode => DemoIsQuiet(l.fetch) /\ l.data = DemoData /\ l.loop = NoLoop /\ l.rung = "off"
  BY <1>1, <1>3, <1>4, <1>5
<1> QED BY <1>6 DEF l

-----------------------------------------------------------------------------
(* The end of a call.                                                      *)

\* What Deliver leaves of f when the call n of the key k brings row.
Delivered(f, k, n, row, g) ==
  /\ g.req = [f.req EXCEPT ![<<k, n>>] = NoRequest] /\ g.map = [f.map EXCEPT ![k] = 0]
  /\ g.promise = f.promise /\ g.controller = f.controller
  /\ g.loading = f.loading /\ g.refreshing = f.refreshing
  /\ \A r \in Slots :
       /\ g.refresh[r].active = f.refresh[r].active /\ g.refresh[r].aborted = f.refresh[r].aborted
       /\ g.refresh[r].quiet = f.refresh[r].quiet
       /\ r \in Waiting(f, <<k, n>>) =>
            /\ g.refresh[r].wait = [f.refresh[r].wait EXCEPT ![k] = 0]
            /\ g.refresh[r].got = [f.refresh[r].got EXCEPT ![k] = row]
       /\ r \notin Waiting(f, <<k, n>>) => g.refresh[r] = f.refresh[r]

LEMMA DeliverFields ==
  ASSUME NEW f, FetchTyped(f), NEW k \in Keys, NEW n \in Gens, NEW row \in Row
  PROVE  LET g == Deliver(f, <<k, n>>, row) IN FetchTyped(g) /\ Delivered(f, k, n, row, g)
<1> DEFINE q == <<k, n>>
           Upd(x) == [x EXCEPT !.wait[k] = 0, !.got[k] = row]
           R == [r \in Slots |-> IF f.refresh[r].active /\ f.refresh[r].wait[k] = n
                                 THEN Upd(f.refresh[r]) ELSE f.refresh[r]]
           Q == [f.req EXCEPT ![q] = NoRequest]
           M == [f.map EXCEPT ![k] = 0]
           h == [f EXCEPT !.req = Q, !.map = M, !.refresh = R]
           g == Deliver(f, q, row)
<1>1. g = h
  <2>1. q[1] = k /\ q[2] = n
    OBVIOUS
  <2>2. [f EXCEPT !.req[q] = NoRequest, !.map[k] = 0, !.refresh = R] = h
    OBVIOUS
  <2> HIDE DEF q
  <2> QED BY <2>1, <2>2 DEF Deliver
<1>2. NoRequest \in Request
  BY DEF NoRequest, Request, NoRow, Row
<1>3. Q \in [Keys \X Gens -> Request] /\ M \in [Keys -> Calls]
  BY <1>2 DEF FetchTyped, Calls
<1>4. ASSUME NEW x \in Refresh
      PROVE  /\ Upd(x) \in Refresh /\ Upd(x).active = x.active /\ Upd(x).aborted = x.aborted
             /\ Upd(x).quiet = x.quiet
             /\ Upd(x).wait = [x.wait EXCEPT ![k] = 0] /\ Upd(x).got = [x.got EXCEPT ![k] = row]
  <2> DEFINE w == [x.wait EXCEPT ![k] = 0]
             o == [x.got EXCEPT ![k] = row]
  <2>1. w \in [Keys -> Calls] /\ o \in [Keys -> Row]
    BY DEF Refresh, Calls
  <2>2. Upd(x) = [x EXCEPT !.wait = w, !.got = o]
    OBVIOUS
  <2> HIDE DEF w, o, Upd
  <2>3. /\ Upd(x) \in Refresh /\ Upd(x).active = x.active /\ Upd(x).aborted = x.aborted
        /\ Upd(x).quiet = x.quiet /\ Upd(x).wait = w /\ Upd(x).got = o
    BY <2>1, <2>2 DEF Refresh
  <2> QED BY <2>3 DEF w, o
<1>5. \A r \in Slots : f.refresh[r] \in Refresh
  BY DEF FetchTyped
<1> HIDE DEF Upd, Q, M
<1>6. R \in [Slots -> Refresh] /\ \A r \in Slots :
        R[r] = IF r \in Waiting(f, q) THEN Upd(f.refresh[r]) ELSE f.refresh[r]
  BY <1>4, <1>5 DEF Waiting
<1> HIDE DEF R
<1>7. /\ DOMAIN h = DOMAIN f /\ h.refresh = R /\ h.req = Q /\ h.map = M /\ h.promise = f.promise
      /\ h.controller = f.controller /\ h.loading = f.loading /\ h.refreshing = f.refreshing
      /\ h.succeeded = f.succeeded
  BY DEF FetchTyped
<1> HIDE DEF h, g, q
<1>8. FetchTyped(h)
  BY <1>3, <1>6, <1>7 DEF FetchTyped
<1>9. ASSUME NEW r \in Slots
      PROVE  /\ h.refresh[r].active = f.refresh[r].active /\ h.refresh[r].aborted = f.refresh[r].aborted
             /\ h.refresh[r].quiet = f.refresh[r].quiet
             /\ r \in Waiting(f, q) => /\ h.refresh[r].wait = [f.refresh[r].wait EXCEPT ![k] = 0]
                                       /\ h.refresh[r].got = [f.refresh[r].got EXCEPT ![k] = row]
             /\ r \notin Waiting(f, q) => h.refresh[r] = f.refresh[r]
  <2>1. CASE r \in Waiting(f, q)
    <3>1. h.refresh[r] = Upd(f.refresh[r])
      BY <2>1, <1>6, <1>7
    <3> QED BY <2>1, <3>1, <1>4, <1>5
  <2>2. CASE r \notin Waiting(f, q)
    <3>1. h.refresh[r] = f.refresh[r]
      BY <2>2, <1>6, <1>7
    <3> QED BY <2>2, <3>1
  <2> QED BY <2>1, <2>2
<1>10. Delivered(f, k, n, row, h)
  BY <1>7, <1>9 DEF Delivered, Q, M, q
<1>11. FetchTyped(g) /\ Delivered(f, k, n, row, g)
  BY <1>1, <1>8, <1>10
<1> QED BY <1>11 DEF g, q

\* The calls of h and e are the same, but for the controllers that can abort them.
SameRows(h, e) ==
  \A q \in Keys \X Gens : e.req[q].state = h.req[q].state /\ e.req[q].row = h.req[q].row

\* The finally block
LEMMA FinallyFields ==
  ASSUME NEW h, FetchTyped(h), NEW done \in SUBSET Slots
  PROVE  LET e == Finally(h, done)
         IN  /\ FetchTyped(e) /\ SameRows(h, e) /\ e.map = h.map
             /\ e.controller = IF h.controller \in done THEN 0 ELSE h.controller
             /\ e.promise = IF done = {} THEN h.promise ELSE 0
             /\ e.loading = (h.loading /\ done = {})
             /\ e.refreshing = (h.refreshing /\ \A r \in done : h.refresh[r].quiet)
             /\ \A r \in Slots : e.refresh[r] = IF r \in done THEN NoRefresh ELSE h.refresh[r]
<1> DEFINE e == Finally(h, done)
           c == IF h.controller \in done THEN 0 ELSE h.controller
           p == IF done = {} THEN h.promise ELSE 0
           l == h.loading /\ done = {}
           b == h.refreshing /\ \A r \in done : h.refresh[r].quiet
           Q == Orphaned(h.req, done)
           R == [r \in Slots |-> IF r \in done THEN NoRefresh ELSE h.refresh[r]]
<1>1. e = [h EXCEPT !.controller = c, !.promise = p, !.loading = l, !.refreshing = b, !.req = Q, !.refresh = R]
  BY DEF Finally
<1>2. NoRefresh \in Refresh
  <2>1. NoRows \in [Keys -> Row]
    BY DEF NoRows, NoRow, Row
  <2> QED BY <2>1 DEF NoRefresh, Refresh, Calls
<1>3. R \in [Slots -> Refresh] /\ \A r \in Slots : R[r] = IF r \in done THEN NoRefresh ELSE h.refresh[r]
  BY <1>2 DEF FetchTyped
<1>4. c \in Slots \cup {0} /\ p \in Slots \cup {0} /\ l \in BOOLEAN /\ b \in BOOLEAN
  BY DEF FetchTyped
<1>8. /\ Q \in [Keys \X Gens -> Request]
      /\ \A q \in Keys \X Gens : Q[q].state = h.req[q].state /\ Q[q].row = h.req[q].row
  <2>1. \A q \in Keys \X Gens : h.req[q] \in Request
    BY DEF FetchTyped
  <2>2. ASSUME NEW x \in Request
        PROVE  /\ [x EXCEPT !.by = 0] \in Request
               /\ [x EXCEPT !.by = 0].state = x.state /\ [x EXCEPT !.by = 0].row = x.row
    BY DEF Request
  <2> QED BY <2>1, <2>2 DEF Orphaned
<1> HIDE DEF c, p, l, b, Q, R, e
<1>5. /\ DOMAIN e = DOMAIN h /\ e.req = Q /\ e.map = h.map /\ e.controller = c /\ e.promise = p
      /\ e.loading = l /\ e.refreshing = b /\ e.refresh = R /\ e.succeeded = h.succeeded
  BY <1>1 DEF FetchTyped
<1>6. FetchTyped(e) /\ SameRows(h, e)
  BY <1>3, <1>4, <1>5, <1>8 DEF FetchTyped, SameRows
<1>7. \A r \in Slots : e.refresh[r] = IF r \in done THEN NoRefresh ELSE h.refresh[r]
  BY <1>3, <1>5
<1> QED BY <1>5, <1>6, <1>7 DEF c, p, l, b, e

\* The call n of the key k ends, and with it the refreshes in done: all that
\* wait for it, unless it brought a row.  e is what is left of f.
CallOver(f, k, n, row, done, h) ==
  /\ f.req[<<k, n>>].state # "none" /\ row \in Row /\ done \subseteq Waiting(f, <<k, n>>)
  /\ row.url # NoUrl \/ done = Waiting(f, <<k, n>>)
  /\ SameCalls(Deliver(f, <<k, n>>, row), h)
  /\ h.loading = f.loading /\ h.refreshing = f.refreshing

\* The row is no older than the call.
RowOf(call, row, v) == row.url = call.row.url /\ call.row.v <= row.v /\ row.v <= v

LEMMA EndFields ==
  ASSUME NEW f, FetchOK(f), NEW k \in Keys, NEW n \in Gens, NEW row, NEW done, NEW h,
         CallOver(f, k, n, row, done, h)
  PROVE  LET e == Finally(h, done)
         IN  /\ FetchTyped(e) /\ FetchTyped(h) /\ Delivered(f, k, n, row, h)
             /\ SameRows(h, e) /\ e.map = h.map
             /\ e.controller = IF h.controller \in done THEN 0 ELSE h.controller
             /\ e.promise = IF done = {} THEN h.promise ELSE 0
             /\ e.loading = (h.loading /\ done = {})
             /\ e.refreshing = (h.refreshing /\ \A r \in done : h.refresh[r].quiet)
             /\ \A r \in Slots : r \in done => ~e.refresh[r].active
             /\ \A r \in Slots : r \notin done => e.refresh[r] = h.refresh[r]
<1> DEFINE g == Deliver(f, <<k, n>>, row)
           e == Finally(h, done)
<1>1. FetchTyped(g) /\ Delivered(f, k, n, row, g) /\ SameCalls(g, h)
  BY DeliverFields DEF FetchOK, CallOver
<1>2. done \in SUBSET Slots
  BY DEF CallOver, Waiting
<1> HIDE DEF g
<1>3. FetchTyped(h)
  BY <1>1 DEF SameCalls, FetchTyped
<1>4. Delivered(f, k, n, row, h)
  <2>1. h.loading = f.loading /\ h.refreshing = f.refreshing
    BY DEF CallOver
  <2> QED BY <1>1, <2>1 DEF Delivered, SameCalls
<1>5. /\ FetchTyped(e) /\ SameRows(h, e) /\ e.map = h.map
      /\ e.controller = IF h.controller \in done THEN 0 ELSE h.controller
      /\ e.promise = IF done = {} THEN h.promise ELSE 0
      /\ e.loading = (h.loading /\ done = {})
      /\ e.refreshing = (h.refreshing /\ \A r \in done : h.refresh[r].quiet)
      /\ \A r \in Slots : e.refresh[r] = IF r \in done THEN NoRefresh ELSE h.refresh[r]
  BY <1>2, <1>3, FinallyFields
<1>6. ~NoRefresh.active
  BY DEF NoRefresh
<1> HIDE DEF e
<1>7. \A r \in Slots : (r \in done => ~e.refresh[r].active) /\ (r \notin done => e.refresh[r] = h.refresh[r])
  BY <1>5, <1>6
<1> QED BY <1>3, <1>4, <1>5, <1>7 DEF e

LEMMA CallEnds ==
  ASSUME NEW f, FetchOK(f), NEW k \in Keys, NEW n \in Gens, NEW row, NEW done, NEW h,
         CallOver(f, k, n, row, done, h)
  PROVE  LET e == Finally(h, done)
         IN  /\ FetchOK(e)
             /\ \A p : LoadingIsTrue(f, p) => LoadingIsTrue(e, p)
             /\ DemoIsQuiet(f) => DemoIsQuiet(e)
             /\ \A r \in Slots : Open(e, r) => Open(f, r) /\ r \notin done
             /\ \A rows, v : /\ RowsAreOlder(f, rows, v)
                             /\ done = Waiting(f, <<k, n>>) \/ RowOf(f.req[<<k, n>>], row, v)
                             => RowsAreOlder(e, rows, v)
<1> DEFINE q == <<k, n>>
           e == Finally(h, done)
<1>1. /\ FetchTyped(f) /\ RefsAreTrue(f) /\ RefreshingIsTrue(f) /\ MapIsCalls(f) /\ RowsOfServers(f)
  BY DEF FetchOK
<1>2. /\ f.req[q].state # "none" /\ row \in Row /\ done \subseteq Waiting(f, q) /\ done \subseteq Slots
      /\ row.url # NoUrl \/ done = Waiting(f, q)
  BY DEF CallOver, Waiting
<1>3. /\ FetchTyped(e) /\ FetchTyped(h) /\ Delivered(f, k, n, row, h)
      /\ SameRows(h, e) /\ e.map = h.map
      /\ e.controller = IF h.controller \in done THEN 0 ELSE h.controller
      /\ e.promise = IF done = {} THEN h.promise ELSE 0
      /\ e.loading = (h.loading /\ done = {})
      /\ e.refreshing = (h.refreshing /\ \A r \in done : h.refresh[r].quiet)
      /\ \A r \in Slots : r \in done => ~e.refresh[r].active
      /\ \A r \in Slots : r \notin done => e.refresh[r] = h.refresh[r]
  BY EndFields
<1>4. q \in Keys \X Gens /\ n # 0 /\ f.map[k] = n
  <2>1. f.map[k] = n
    BY <1>1, <1>2 DEF MapIsCalls
  <2>2. n # 0
    BY DEF Gens
  <2> QED BY <2>1, <2>2
<1> HIDE DEF e, q
<1>5. /\ h.req = [f.req EXCEPT ![q] = NoRequest] /\ e.map = [f.map EXCEPT ![k] = 0]
      /\ h.promise = f.promise /\ h.controller = f.controller
      /\ h.loading = f.loading /\ h.refreshing = f.refreshing
  BY <1>3 DEF Delivered, q
<1>6. ASSUME NEW r \in Slots
      PROVE  /\ h.refresh[r].active = f.refresh[r].active /\ h.refresh[r].aborted = f.refresh[r].aborted
             /\ h.refresh[r].quiet = f.refresh[r].quiet
             /\ r \in Waiting(f, q) => /\ h.refresh[r].wait = [f.refresh[r].wait EXCEPT ![k] = 0]
                                       /\ h.refresh[r].got = [f.refresh[r].got EXCEPT ![k] = row]
             /\ r \notin Waiting(f, q) => h.refresh[r] = f.refresh[r]
  BY <1>3 DEF Delivered, q
<1>7. ASSUME NEW r \in Slots, Open(e, r)
      PROVE  /\ r \notin done /\ Open(f, r) /\ e.refresh[r] = h.refresh[r]
             /\ r \in Waiting(f, q) /\ done # Waiting(f, q) /\ f.refresh[r].wait = f.map
  <2>1. r \notin done
    BY <1>3, <1>7 DEF Open
  <2>2. e.refresh[r] = h.refresh[r] /\ Open(f, r)
    <3>1. e.refresh[r] = h.refresh[r]
      BY <1>3, <2>1
    <3>2. h.refresh[r].active = f.refresh[r].active /\ h.refresh[r].aborted = f.refresh[r].aborted
      BY <1>6
    <3> QED BY <1>7, <3>1, <3>2 DEF Open
  <2>3. f.refresh[r].wait = f.map
    BY <1>1, <2>2 DEF MapIsCalls
  <2>4. r \in Waiting(f, q)
    BY <1>4, <2>2, <2>3 DEF Waiting, Open, q
  <2> QED BY <2>1, <2>2, <2>3, <2>4
<1>8. RefsAreTrue(e)
  <2>1. ASSUME e.promise # 0 PROVE e.refresh[e.promise].active
    <3>1. done = {} /\ e.promise = f.promise
      BY <1>3, <1>5, <2>1
    <3>2. e.promise \in Slots /\ f.refresh[e.promise].active
      BY <1>1, <2>1, <3>1 DEF RefsAreTrue, FetchTyped
    <3> QED BY <1>3, <1>6, <3>1, <3>2
  <2>2. ASSUME NEW r \in Slots, Open(e, r) PROVE e.controller = r
    <3>1. f.controller = r
      BY <1>1, <1>7, <2>2 DEF RefsAreTrue
    <3> QED BY <1>3, <1>5, <1>7, <2>2, <3>1
  <2> QED BY <2>1, <2>2 DEF RefsAreTrue
<1>9. RefreshingIsTrue(e)
  <2>1. SUFFICES ASSUME e.refreshing
                 PROVE  \E r \in Slots : e.refresh[r].active /\ ~e.refresh[r].quiet
    BY DEF RefreshingIsTrue
  <2>2. f.refreshing /\ \A r \in done : h.refresh[r].quiet
    BY <1>3, <1>5, <2>1
  <2>3. PICK r \in Slots : f.refresh[r].active /\ ~f.refresh[r].quiet
    BY <1>1, <2>2 DEF RefreshingIsTrue
  <2>4. r \notin done
    BY <1>6, <2>2, <2>3
  <2>5. e.refresh[r] = h.refresh[r]
    BY <1>3, <2>4
  <2>6. h.refresh[r].active = f.refresh[r].active /\ h.refresh[r].quiet = f.refresh[r].quiet
    BY <1>6
  <2> QED BY <2>3, <2>5, <2>6
<1>10. MapIsCalls(e)
  <2>1. ASSUME NEW i \in Keys, NEW j \in Gens PROVE e.req[<<i, j>>].state # "none" <=> e.map[i] = j
    <3>1. <<i, j>> \in Keys \X Gens /\ j # 0 /\ NoRequest.state = "none"
      BY DEF Gens, NoRequest
    <3>2. e.req[<<i, j>>].state = IF i = k /\ j = n THEN NoRequest.state ELSE f.req[<<i, j>>].state
      <4>1. h.req[<<i, j>>] = IF i = k /\ j = n THEN NoRequest ELSE f.req[<<i, j>>]
        BY <1>1, <1>4, <1>5, <3>1 DEF FetchTyped, q
      <4>2. e.req[<<i, j>>].state = h.req[<<i, j>>].state
        BY <1>3, <3>1 DEF SameRows
      <4> QED BY <4>1, <4>2
    <3>3. e.map[i] = IF i = k THEN 0 ELSE f.map[i]
      BY <1>1, <1>5 DEF FetchTyped
    <3>4. f.req[<<i, j>>].state # "none" <=> f.map[i] = j
      BY <1>1 DEF MapIsCalls
    <3> QED BY <1>4, <3>1, <3>2, <3>3, <3>4
  <2>2. ASSUME NEW r \in Slots, Open(e, r) PROVE e.refresh[r].wait = e.map
    <3>1. e.refresh[r] = h.refresh[r] /\ r \in Waiting(f, q) /\ f.refresh[r].wait = f.map
      BY <1>7, <2>2
    <3>2. h.refresh[r].wait = [f.refresh[r].wait EXCEPT ![k] = 0]
      BY <1>6, <3>1
    <3> QED BY <1>5, <3>1, <3>2
  <2> QED BY <2>1, <2>2 DEF MapIsCalls
<1>11. ASSUME NEW i \in Keys, NEW j \in Gens, e.req[<<i, j>>].state # "none"
       PROVE  f.req[<<i, j>>].state # "none" /\ e.req[<<i, j>>].row = f.req[<<i, j>>].row
  <2>1. <<i, j>> \in Keys \X Gens /\ NoRequest.state = "none"
    BY DEF NoRequest
  <2>2. h.req[<<i, j>>] = IF <<i, j>> = q THEN NoRequest ELSE f.req[<<i, j>>]
    BY <1>1, <1>4, <1>5, <2>1 DEF FetchTyped
  <2>3. e.req[<<i, j>>].state = h.req[<<i, j>>].state /\ e.req[<<i, j>>].row = h.req[<<i, j>>].row
    BY <1>3, <2>1 DEF SameRows
  <2> QED BY <1>11, <2>1, <2>2, <2>3
<1>12. ASSUME NEW r \in Slots, NEW i \in Keys, Open(e, r), e.refresh[r].wait[i] = 0
       PROVE  \/ i = k /\ e.refresh[r].got[i] = row
              \/ i # k /\ f.refresh[r].wait[i] = 0 /\ e.refresh[r].got[i] = f.refresh[r].got[i]
  <2>1. /\ e.refresh[r].wait = [f.refresh[r].wait EXCEPT ![k] = 0]
        /\ e.refresh[r].got = [f.refresh[r].got EXCEPT ![k] = row]
    BY <1>6, <1>7, <1>12
  <2>2. f.refresh[r].wait \in [Keys -> Calls] /\ f.refresh[r].got \in [Keys -> Row]
    BY <1>1 DEF FetchTyped, Refresh
  <2> QED BY <1>12, <2>1, <2>2
<1>13. RowsOfServers(e)
  <2>1. ASSUME NEW x \in Keys \X Gens, e.req[x].state # "none" PROVE e.req[x].row.url # NoUrl
    <3>1. PICK i \in Keys, j \in Gens : x = <<i, j>>
      OBVIOUS
    <3>2. f.req[x].state # "none" /\ e.req[x].row = f.req[x].row
      BY <1>11, <2>1, <3>1
    <3> QED BY <1>1, <2>1, <3>2 DEF RowsOfServers
  <2>2. ASSUME NEW r \in Slots, NEW i \in Keys, Open(e, r), e.refresh[r].wait[i] = 0
        PROVE  e.refresh[r].got[i].url # NoUrl
    <3>1. Open(f, r) /\ done # Waiting(f, q)
      BY <1>7, <2>2
    <3> QED BY <1>1, <1>2, <1>12, <2>2, <3>1 DEF RowsOfServers
  <2> QED BY <2>1, <2>2 DEF RowsOfServers
<1>14. ASSUME NEW rows, NEW v, RowsAreOlder(f, rows, v),
              done = Waiting(f, q) \/ RowOf(f.req[q], row, v)
       PROVE  RowsAreOlder(e, rows, v)
  <2>1. ASSUME NEW i \in Keys, NEW j \in Gens, e.req[<<i, j>>].state # "none"
        PROVE  e.req[<<i, j>>].row.v <= v /\ NoOlder(rows[i], e.req[<<i, j>>].row)
    BY <1>11, <1>14, <2>1 DEF RowsAreOlder
  <2>2. ASSUME NEW r \in Slots, NEW i \in Keys, Open(e, r), e.refresh[r].wait[i] = 0
        PROVE  e.refresh[r].got[i].v <= v /\ NoOlder(rows[i], e.refresh[r].got[i])
    <3>1. Open(f, r) /\ RowOf(f.req[q], row, v)
      BY <1>7, <1>14, <2>2
    <3>2. CASE i # k
      <4>1. f.refresh[r].wait[i] = 0 /\ e.refresh[r].got[i] = f.refresh[r].got[i]
        BY <1>12, <2>2, <3>2
      <4> QED BY <1>14, <3>1, <4>1 DEF RowsAreOlder
    <3>3. CASE i = k
      <4>1. e.refresh[r].got[i] = row
        BY <1>12, <2>2, <3>3
      <4>2. NoOlder(rows[k], f.req[q].row)
        BY <1>2, <1>14 DEF RowsAreOlder, q
      <4>3. rows[k].v \in Nat /\ row.v \in Nat /\ f.req[q].row.v \in Nat
        BY <1>1, <1>2, <1>4, <1>14 DEF RowsAreOlder, FetchTyped, Request, Row
      <4> QED BY <3>1, <3>3, <4>1, <4>2, <4>3 DEF NoOlder, RowOf
    <3> QED BY <3>2, <3>3
  <2> QED BY <1>14, <2>1, <2>2 DEF RowsAreOlder
<1>15. ASSUME NEW p, LoadingIsTrue(f, p) PROVE LoadingIsTrue(e, p)
  <2>1. SUFFICES ASSUME p = "visible", e.loading PROVE \E r \in Slots : e.refresh[r].active
    BY DEF LoadingIsTrue
  <2>2. done = {} /\ f.loading
    BY <1>3, <1>5, <2>1
  <2>3. PICK r \in Slots : f.refresh[r].active
    BY <1>15, <2>1, <2>2 DEF LoadingIsTrue
  <2> QED BY <1>3, <1>6, <2>2, <2>3
<1>16. ASSUME DemoIsQuiet(f) PROVE DemoIsQuiet(e)
  <2>1. ~e.loading
    BY <1>3, <1>5, <1>16 DEF DemoIsQuiet
  <2>2. ~e.refreshing
    BY <1>3, <1>5, <1>16 DEF DemoIsQuiet
  <2> QED BY <1>7, <1>16, <2>1, <2>2 DEF DemoIsQuiet
<1>17. /\ FetchOK(e)
       /\ \A p : LoadingIsTrue(f, p) => LoadingIsTrue(e, p)
       /\ DemoIsQuiet(f) => DemoIsQuiet(e)
       /\ \A r \in Slots : Open(e, r) => Open(f, r) /\ r \notin done
       /\ \A rows, v : /\ RowsAreOlder(f, rows, v)
                       /\ done = Waiting(f, q) \/ RowOf(f.req[q], row, v)
                       => RowsAreOlder(e, rows, v)
  <2>1. FetchOK(e)
    BY <1>3, <1>8, <1>9, <1>10, <1>13 DEF FetchOK
  <2> QED BY <2>1, <1>7, <1>14, <1>15, <1>16
<1> QED BY <1>17 DEF e, q

\* The refresh that completes is the open one: nothing else is in flight, and
\* its rows may replace the rows shown.
LEMMA CompletionShows ==
  ASSUME NEW f, FetchOK(f), NEW k \in Keys, NEW n \in Gens, NEW row, NEW done, NEW h,
         CallOver(f, k, n, row, done, h),
         NEW rows, NEW v \in Nat, RowsAreOlder(f, rows, v), RowOf(f.req[<<k, n>>], row, v),
         NEW w \in done, ~h.refresh[w].aborted, \A i \in Keys : h.refresh[w].wait[i] = 0
  PROVE  /\ Open(f, w)
         /\ RowsAreOlder(Finally(h, done), h.refresh[w].got, v)
         /\ \A i \in Keys : NoOlder(rows[i], h.refresh[w].got[i])
<1> DEFINE q == <<k, n>>
           e == Finally(h, done)
           got == h.refresh[w].got
<1>1. /\ FetchTyped(f) /\ RefsAreTrue(f) /\ MapIsCalls(f) /\ RowsOfServers(f)
  BY DEF FetchOK
<1>2. /\ f.req[q].state # "none" /\ row \in Row /\ w \in Waiting(f, q) /\ w \in Slots
      /\ f.refresh[w].active /\ q \in Keys \X Gens
  BY DEF CallOver, Waiting
<1>3. FetchTyped(e) /\ FetchTyped(h) /\ Delivered(f, k, n, row, h) /\ e.map = h.map
  BY EndFields
<1>4. FetchOK(e) /\ \A r \in Slots : Open(e, r) => Open(f, r) /\ r \notin done
  BY CallEnds
<1> HIDE DEF e
<1>5. /\ h.refresh[w].aborted = f.refresh[w].aborted
      /\ h.refresh[w].wait = [f.refresh[w].wait EXCEPT ![k] = 0]
      /\ h.refresh[w].got = [f.refresh[w].got EXCEPT ![k] = row]
      /\ e.map = [f.map EXCEPT ![k] = 0]
  BY <1>2, <1>3 DEF Delivered
<1>6. Open(f, w)
  BY <1>2, <1>5 DEF Open
<1>7. \A r \in Slots : ~Open(e, r)
  BY <1>1, <1>2, <1>4, <1>6 DEF RefsAreTrue
<1>8. f.refresh[w].wait = f.map
  BY <1>1, <1>2, <1>6 DEF MapIsCalls
<1>9. \A i \in Keys : e.map[i] = 0
  BY <1>5, <1>8
<1>10. ASSUME NEW i \in Keys, NEW j \in Gens PROVE e.req[<<i, j>>].state = "none"
  <2>1. e.map[i] # j
    BY <1>9 DEF Gens
  <2> QED BY <1>4, <2>1 DEF FetchOK, MapIsCalls
<1>11. f.refresh[w].got \in [Keys -> Row] /\ f.refresh[w].wait \in [Keys -> Calls]
  BY <1>1, <1>2 DEF FetchTyped, Refresh
<1>12. got \in [Keys -> Row] /\ \A i \in Keys : got[i] = IF i = k THEN row ELSE f.refresh[w].got[i]
  BY <1>2, <1>5, <1>11
<1>13. ASSUME NEW i \in Keys, i # k PROVE f.refresh[w].wait[i] = 0
  BY <1>5, <1>11, <1>13
<1> HIDE DEF got
<1>14. ASSUME NEW i \in Keys
       PROVE  got[i].v <= v /\ got[i].url # NoUrl /\ NoOlder(rows[i], got[i])
  <2>1. CASE i # k
    <3>1. got[i] = f.refresh[w].got[i] /\ f.refresh[w].wait[i] = 0
      BY <1>12, <1>13, <2>1
    <3>2. f.refresh[w].got[i].url # NoUrl
      BY <1>1, <1>2, <1>6, <3>1 DEF RowsOfServers
    <3>3. f.refresh[w].got[i].v <= v /\ NoOlder(rows[i], f.refresh[w].got[i])
      BY <1>2, <1>6, <3>1 DEF RowsAreOlder
    <3> QED BY <3>1, <3>2, <3>3
  <2>2. CASE i = k
    <3>1. got[i] = row
      BY <1>12, <2>2
    <3>2. NoOlder(rows[k], f.req[q].row)
      BY <1>2 DEF RowsAreOlder
    <3>3. rows[k].v \in Nat /\ row.v \in Nat /\ f.req[q].row.v \in Nat
      BY <1>1, <1>2 DEF RowsAreOlder, FetchTyped, Request, Row
    <3>4. f.req[q].row.url # NoUrl
      BY <1>1, <1>2 DEF RowsOfServers
    <3> QED BY <2>2, <3>1, <3>2, <3>3, <3>4 DEF NoOlder, RowOf
  <2> QED BY <2>1, <2>2
<1>15. RowsAreOlder(e, got, v)
  BY <1>7, <1>10, <1>12, <1>14 DEF RowsAreOlder
<1> QED BY <1>6, <1>14, <1>15 DEF e, got

-----------------------------------------------------------------------------
(* Steps.                                                                  *)

\* No row shown is replaced by an older one of the same server.
NoneOlder == \A k \in Keys : NoOlder(data.rows[k], data'.rows[k])

Demo ==
  /\ DemoIsQuiet(fetch) /\ data = DemoData /\ events = NoEvents /\ loop = NoLoop
  /\ rung = "off" /\ live = FALSE

LEMMA Parts ==
  ASSUME LiveDataInv
  PROVE  /\ settings \in Settings /\ version \in Nat /\ DOMAIN data = {"source", "rows", "events"}
         /\ FetchOK(fetch) /\ RowsAreOlder(fetch, data.rows, version) /\ LoadingIsTrue(fetch, page)
         /\ ~settings.liveMode => Demo
BY DEF LiveDataInv, Demo

\* Rows that stay, and rows that are forgotten.
LEMMA RowsStay ==
  ASSUME NEW f, NEW rows, NEW v \in Nat, RowsAreOlder(f, rows, v), FetchOK(f)
  PROVE  /\ \A k \in Keys : NoOlder(rows[k], rows[k]) /\ NoOlder(rows[k], NoRows[k])
         /\ RowsAreOlder(f, NoRows, v)
<1>1. NoRow \in Row /\ NoRow.url = NoUrl /\ NoRow.v = 0
  BY DEF NoRow, Row
<1>2. NoRows \in [Keys -> Row] /\ \A k \in Keys : NoRows[k] = NoRow
  BY <1>1 DEF NoRows
<1>3. ASSUME NEW k \in Keys PROVE NoOlder(rows[k], rows[k]) /\ NoOlder(rows[k], NoRows[k])
  <2>1. rows[k].v \in Nat /\ (rows[k].url = NoUrl => rows[k].v = 0)
    BY DEF RowsAreOlder, Row
  <2> QED BY <1>1, <1>2, <2>1 DEF NoOlder
<1>4. ASSUME NEW k \in Keys, NEW r, r.url # NoUrl PROVE NoOlder(NoRows[k], r)
  BY <1>1, <1>2, <1>4 DEF NoOlder
<1>5. ASSUME NEW k \in Keys, NEW n \in Gens, f.req[<<k, n>>].state # "none"
      PROVE  f.req[<<k, n>>].row.v <= v /\ NoOlder(NoRows[k], f.req[<<k, n>>].row)
  <2>1. <<k, n>> \in Keys \X Gens
    OBVIOUS
  <2>2. f.req[<<k, n>>].row.url # NoUrl
    BY <1>5, <2>1 DEF FetchOK, RowsOfServers
  <2> QED BY <1>4, <1>5, <2>2 DEF RowsAreOlder
<1>6. ASSUME NEW r \in Slots, NEW k \in Keys, Open(f, r), f.refresh[r].wait[k] = 0
      PROVE  f.refresh[r].got[k].v <= v /\ NoOlder(NoRows[k], f.refresh[r].got[k])
  <2>1. f.refresh[r].got[k].url # NoUrl
    BY <1>6 DEF FetchOK, RowsOfServers
  <2> QED BY <1>4, <1>6, <2>1 DEF RowsAreOlder
<1>7. RowsAreOlder(f, NoRows, v)
  BY <1>1, <1>2, <1>5, <1>6 DEF RowsAreOlder
<1> QED BY <1>3, <1>7

LEMMA SettingsStep ==
  ASSUME LiveDataInv, NEW s \in Settings, ApplySettings(s)
  PROVE  LiveDataInv' /\ NoneOlder
<1> DEFINE switched == s.liveMode # settings.liveMode
           f == IF switched THEN ModeEffect(fetch, s.liveMode) ELSE fetch
           g == PollingEffect(f, s, page)
           rows == IF switched THEN NoRows ELSE data.rows
<1>1. /\ settings \in Settings /\ version \in Nat /\ DOMAIN data = {"source", "rows", "events"}
      /\ FetchOK(fetch) /\ RowsAreOlder(fetch, data.rows, version) /\ LoadingIsTrue(fetch, page)
      /\ ~settings.liveMode => Demo
  BY Parts
<1>2. /\ HasSlot(fetch) /\ settings' = s /\ fetch' = g /\ page' = page /\ version' = version
      /\ data' = IF ~switched THEN data ELSE IF s.liveMode THEN EmptyLive ELSE DemoData
      /\ events' = IF switched THEN NoEvents ELSE events
      /\ loop' = LoopEffect(fetch', s, page, status'.mode)
      /\ IF WantsStream(s, page) THEN Transport!At("websocket", 0) ELSE Transport!Stop
  BY DEF ApplySettings, TransportEffect
<1>3. s.liveMode \in BOOLEAN /\ settings.liveMode \in BOOLEAN
  BY <1>1 DEF Settings
<1>4. /\ data'.rows = rows /\ DOMAIN data' = {"source", "rows", "events"}
      /\ switched /\ ~s.liveMode => data' = DemoData
      /\ ~switched => data' = data
  BY <1>1, <1>2 DEF EmptyLive, DemoData
<1>5. ~s.liveMode => loop' = NoLoop /\ rung' = "off" /\ live' = FALSE
  BY <1>2 DEF LoopEffect, WantsStream, Transport!Stop, Transport!At
<1>6. RowsAreOlder(fetch, rows, version) /\ NoneOlder
  BY <1>1, <1>4, RowsStay DEF NoneOlder
<1>7. /\ FetchOK(f) /\ HasSlot(f) /\ RowsAreOlder(f, rows, version)
      /\ ~s.liveMode => DemoIsQuiet(f)
  <2>1. CASE switched
    <3> DEFINE m == ModeEffect(fetch, s.liveMode)
    <3>1. f = m
      BY <2>1
    <3>2. /\ FetchOK(m) /\ (HasSlot(fetch) => HasSlot(m)) /\ \A r \in Slots : ~Open(m, r)
          /\ \A x, v : RowsAreOlder(fetch, x, v) => RowsAreOlder(m, x, v)
          /\ m.loading = s.liveMode /\ m.refreshing = FALSE
      BY <1>1, <1>3, ModeKeeps
    <3> HIDE DEF m, f, rows
    <3>3. ~s.liveMode => DemoIsQuiet(m)
      BY <3>2 DEF DemoIsQuiet
    <3> QED BY <1>2, <1>6, <3>1, <3>2, <3>3
  <2>2. CASE ~switched
    BY <1>1, <1>2, <1>6, <2>2 DEF Demo
  <2> QED BY <2>1, <2>2
<1> HIDE DEF f, rows
<1>8. /\ FetchOK(g) /\ RowsAreOlder(g, rows, version) /\ (s.liveMode => LoadingIsTrue(g, page))
      /\ (~s.liveMode => g = f)
  BY <1>1, <1>7, PollingKeeps
<1> HIDE DEF g
<1>9. LoadingIsTrue(g, page)
  BY <1>7, <1>8 DEF LoadingIsTrue, DemoIsQuiet
<1>10. ~s.liveMode => Demo'
  <2>1. SUFFICES ASSUME ~s.liveMode PROVE Demo'
    OBVIOUS
  <2>2. DemoIsQuiet(fetch')
    BY <1>2, <1>7, <1>8, <2>1
  <2>3. data' = DemoData /\ events' = NoEvents
    BY <1>1, <1>2, <1>3, <1>4, <2>1 DEF Demo
  <2> QED BY <1>5, <2>1, <2>2, <2>3 DEF Demo, DemoIsQuiet, Open
<1> QED BY <1>1, <1>2, <1>4, <1>6, <1>8, <1>9, <1>10
  DEF LiveDataInv, Demo

LEMMA VisibilityStep ==
  ASSUME LiveDataInv, VisibilityChanges
  PROVE  LiveDataInv' /\ NoneOlder
<1> DEFINE g == PollingEffect(fetch, settings, page')
<1>1. /\ settings \in Settings /\ version \in Nat /\ DOMAIN data = {"source", "rows", "events"}
      /\ FetchOK(fetch) /\ RowsAreOlder(fetch, data.rows, version) /\ LoadingIsTrue(fetch, page)
      /\ ~settings.liveMode => Demo
  BY Parts
<1>2. /\ HasSlot(fetch) /\ fetch' = g /\ loop' = LoopEffect(fetch', settings, page', status'.mode)
      /\ settings' = settings /\ version' = version /\ data' = data /\ events' = events
      /\ IF WantsStream(settings, page') THEN Transport!At("websocket", 0) ELSE Transport!Stop
  BY DEF VisibilityChanges, TransportEffect
<1>3. settings.liveMode \in BOOLEAN
  BY <1>1 DEF Settings
<1>4. ~settings.liveMode => loop' = NoLoop /\ rung' = "off" /\ live' = FALSE
  BY <1>2 DEF LoopEffect, WantsStream, Transport!Stop, Transport!At
<1>5. /\ FetchOK(g) /\ RowsAreOlder(g, data.rows, version)
      /\ (settings.liveMode => LoadingIsTrue(g, page')) /\ (~settings.liveMode => g = fetch)
  BY <1>1, <1>2, PollingKeeps
<1> HIDE DEF g
<1>6. LoadingIsTrue(g, page')
  BY <1>1, <1>5 DEF LoadingIsTrue, DemoIsQuiet, Demo
<1>7. ~settings.liveMode => Demo'
  BY <1>1, <1>2, <1>4, <1>5 DEF Demo, DemoIsQuiet, Open
<1>8. NoneOlder
  BY <1>1, <1>2, RowsStay DEF NoneOlder
<1> QED BY <1>1, <1>2, <1>5, <1>6, <1>7, <1>8 DEF LiveDataInv, Demo

LEMMA UnmountStep ==
  ASSUME LiveDataInv, Unmount
  PROVE  LiveDataInv' /\ NoneOlder
<1> DEFINE g == Abort(fetch, fetch.controller)
<1>1. /\ settings \in Settings /\ version \in Nat /\ DOMAIN data = {"source", "rows", "events"}
      /\ FetchOK(fetch) /\ RowsAreOlder(fetch, data.rows, version)
      /\ ~settings.liveMode => Demo
  BY Parts
<1>2. /\ fetch' = g /\ page' = "gone" /\ loop' = NoLoop /\ events' = NoEvents
      /\ settings' = settings /\ version' = version /\ data' = data /\ rung' = "off" /\ live' = FALSE
  BY DEF Unmount, Transport!Stop, Transport!At
<1>3. /\ FetchOK(g) /\ Weaker(fetch, g) /\ \A r \in Slots : ~Open(g, r)
      /\ g.loading = fetch.loading /\ g.refreshing = fetch.refreshing
  BY <1>1, AbortKeeps
<1> HIDE DEF g
<1>4. RowsAreOlder(g, data.rows, version)
  <2>1. FetchTyped(g)
    BY <1>3 DEF FetchOK
  <2>2. g.refreshing => fetch.refreshing
    BY <1>3
  <2> QED BY <1>1, <1>3, <2>1, <2>2, WeakerKeeps
<1>5. LoadingIsTrue(g, "gone")
  BY DEF LoadingIsTrue
<1>6. ASSUME ~settings.liveMode PROVE DemoIsQuiet(g) /\ data = DemoData
  BY <1>1, <1>3, <1>6 DEF Demo, DemoIsQuiet
<1>7. NoneOlder
  BY <1>1, <1>2, RowsStay DEF NoneOlder
<1> QED BY <1>1, <1>2, <1>3, <1>4, <1>5, <1>6, <1>7 DEF LiveDataInv

\* A page that is loaded, at first or again.
LEMMA LoadedPage ==
  ASSUME NEW s \in Settings, NEW p \in {"visible", "hidden"}, version \in Nat
  PROVE  LET l == Load(s, p) IN DOMAIN l.data = {"source", "rows", "events"} /\ l.data.rows = NoRows
BY DEF Load, EmptyLive, DemoData

LEMMA ReloadStep ==
  ASSUME LiveDataInv, NEW s \in Settings, NEW p \in {"visible", "hidden"}, Reload(s, p)
  PROVE  LiveDataInv' /\ NoneOlder
<1> DEFINE l == Load(s, p)
<1>1. FetchOK(fetch) /\ RowsAreOlder(fetch, data.rows, version) /\ version \in Nat
  BY Parts
<1>2. /\ data' = l.data /\ status' = l.status /\ fetch' = l.fetch /\ loop' = l.loop /\ rung' = l.rung
      /\ settings' = s /\ page' = p /\ events' = NoEvents /\ live' = FALSE /\ version' = version
  BY DEF Reload
<1>3. /\ FetchOK(l.fetch) /\ RowsAreOlder(l.fetch, l.data.rows, version) /\ LoadingIsTrue(l.fetch, p)
      /\ ~s.liveMode => DemoIsQuiet(l.fetch) /\ l.data = DemoData /\ l.loop = NoLoop /\ l.rung = "off"
  BY <1>1, LoadOK
<1>4. DOMAIN l.data = {"source", "rows", "events"} /\ l.data.rows = NoRows
  BY <1>1, LoadedPage
<1> HIDE DEF l
<1>5. NoneOlder
  BY <1>1, <1>2, <1>4, RowsStay DEF NoneOlder
<1> QED BY <1>1, <1>2, <1>3, <1>4, <1>5 DEF LiveDataInv

LEMMA InitHolds ==
  ASSUME Init
  PROVE  LiveDataInv
<1> DEFINE l == Load(settings, page)
<1>1. /\ data = l.data /\ fetch = l.fetch /\ loop = l.loop /\ rung = l.rung
      /\ settings \in Settings /\ page \in {"visible", "hidden"} /\ events = NoEvents /\ live = FALSE
      /\ version \in Nat
  BY SettingsAssumption DEF Init
<1>2. /\ FetchOK(l.fetch) /\ RowsAreOlder(l.fetch, l.data.rows, version) /\ LoadingIsTrue(l.fetch, page)
      /\ ~settings.liveMode => DemoIsQuiet(l.fetch) /\ l.data = DemoData /\ l.loop = NoLoop /\ l.rung = "off"
  BY <1>1, LoadOK
<1>3. DOMAIN l.data = {"source", "rows", "events"}
  BY <1>1, LoadedPage
<1> HIDE DEF l
<1> QED BY <1>1, <1>2, <1>3 DEF LiveDataInv

\* The steps that may begin a refresh and change nothing else of the data.
LEMMA RefreshStep ==
  ASSUME LiveDataInv, settings.liveMode, HasSlot(fetch), NEW force \in BOOLEAN, NEW quiet \in BOOLEAN,
         fetch' = RefreshConsole(fetch, settings, force, quiet),
         UNCHANGED <<settings, page, version, data>>
  PROVE  LiveDataInv' /\ NoneOlder
<1> DEFINE g == RefreshConsole(fetch, settings, force, quiet)
<1>1. /\ settings \in Settings /\ version \in Nat /\ DOMAIN data = {"source", "rows", "events"}
      /\ FetchOK(fetch) /\ RowsAreOlder(fetch, data.rows, version)
  BY Parts
<1>2. /\ FetchOK(g) /\ RowsAreOlder(g, data.rows, version)
      /\ g.loading => \E r \in Slots : g.refresh[r].active
  BY <1>1, RefreshKeeps
<1>3. fetch' = g
  OBVIOUS
<1> HIDE DEF g
<1>4. LoadingIsTrue(g, page)
  BY <1>2 DEF LoadingIsTrue
<1>5. NoneOlder
  BY <1>1, RowsStay DEF NoneOlder
<1> QED BY <1>1, <1>2, <1>3, <1>4, <1>5 DEF LiveDataInv

\* The steps that leave the refresh and the data of a live page as they are.
LEMMA OtherStep ==
  ASSUME LiveDataInv, settings.liveMode, UNCHANGED <<settings, page, version, fetch>>,
         data'.rows = data.rows, DOMAIN data' = DOMAIN data
  PROVE  LiveDataInv' /\ NoneOlder
<1>1. NoneOlder
  BY Parts, RowsStay DEF NoneOlder
<1>2. /\ settings' \in Settings /\ version' \in Nat /\ DOMAIN data' = {"source", "rows", "events"}
      /\ FetchOK(fetch') /\ RowsAreOlder(fetch', data'.rows, version') /\ LoadingIsTrue(fetch', page')
  BY Parts
<1> QED BY <1>1, <1>2 DEF LiveDataInv

\* Only a live page has timers, a stream and events.
LEMMA OnlyLive ==
  ASSUME LiveDataInv, NEW quiet \in BOOLEAN,
         \/ PollingEffectReruns \/ PollFires \/ FlushFires \/ DebounceFires \/ ForcedRefresh(quiet)
         \/ TransportOpens \/ TransportMoves \/ EventArrives
  PROVE  settings.liveMode
<1>1. SUFFICES ASSUME ~settings.liveMode PROVE FALSE
  BY Parts DEF Settings
<1>2. events = NoEvents /\ loop = NoLoop /\ rung = "off" /\ live = FALSE
  BY <1>1, Parts DEF Demo
<1>3. loop.phase = "off" /\ events.flush = FALSE /\ events.debounce = FALSE
  BY <1>2 DEF NoEvents, NoLoop
<1> QED BY <1>1, <1>2, <1>3 DEF PollingEffectReruns, PollFires, FlushFires, DebounceFires, ForcedRefresh,
                               TransportOpens, TransportMoves, EventArrives, Transport!Open, Transport!Streams

LEMMA LiveStep ==
  ASSUME LiveDataInv, NEW quiet \in BOOLEAN,
         \/ PollingEffectReruns \/ PollFires \/ FlushFires \/ DebounceFires \/ ForcedRefresh(quiet)
         \/ TransportOpens \/ TransportMoves \/ EventArrives
  PROVE  LiveDataInv' /\ NoneOlder
<1>1. settings.liveMode
  BY OnlyLive
<1>2. CASE PollFires
  <2>1. /\ HasSlot(fetch) /\ fetch' = RefreshConsole(fetch, settings, FALSE, TRUE)
        /\ UNCHANGED <<settings, page, version, data>>
    BY <1>2 DEF PollFires
  <2> QED BY <1>1, <2>1, RefreshStep
<1>3. CASE DebounceFires
  <2>1. /\ HasSlot(fetch) /\ fetch' = RefreshConsole(fetch, settings, FALSE, TRUE)
        /\ UNCHANGED <<settings, page, version, data>>
    BY <1>3 DEF DebounceFires
  <2> QED BY <1>1, <2>1, RefreshStep
<1>4. CASE ForcedRefresh(quiet)
  <2>1. /\ HasSlot(fetch) /\ fetch' = RefreshConsole(fetch, settings, TRUE, quiet)
        /\ UNCHANGED <<settings, page, version, data>>
    BY <1>4 DEF ForcedRefresh
  <2> QED BY <1>1, <2>1, RefreshStep
<1>5. CASE PollingEffectReruns
  <2>1. HasSlot(fetch) /\ fetch' = PollingEffect(fetch, settings, page)
        /\ UNCHANGED <<settings, page, version, data>>
    BY <1>5 DEF PollingEffectReruns
  <2>2. CASE settings.url # NoUrl /\ page # "visible"
    <3>1. fetch' = fetch
      BY <2>1, <2>2 DEF PollingEffect
    <3> QED BY <1>1, <2>1, <3>1, OtherStep
  <2>3. CASE ~(settings.url # NoUrl /\ page # "visible")
    <3> DEFINE quiet1 == settings.url = NoUrl \/ fetch.succeeded
    <3>1. fetch' = RefreshConsole(fetch, settings, FALSE, quiet1)
      BY <1>1, <2>1, <2>3 DEF PollingEffect
    <3>2. quiet1 \in BOOLEAN
      OBVIOUS
    <3> HIDE DEF quiet1
    <3> QED BY <1>1, <2>1, <3>1, <3>2, RefreshStep
  <2> QED BY <2>2, <2>3
<1>6. CASE FlushFires
  <2>1. /\ UNCHANGED <<settings, page, version, fetch>>
        /\ data' = [data EXCEPT !.events = data.events \/ events.pending]
    BY <1>6 DEF FlushFires
  <2>2. data'.rows = data.rows /\ DOMAIN data' = DOMAIN data
    BY <2>1, Parts
  <2> QED BY <1>1, <2>1, <2>2, OtherStep
<1>7. CASE TransportOpens \/ TransportMoves \/ EventArrives
  <2>1. UNCHANGED <<settings, page, version, fetch, data>>
    BY <1>7 DEF TransportOpens, TransportMoves, EventArrives
  <2> QED BY <1>1, <2>1, OtherStep
<1> QED BY <1>2, <1>3, <1>4, <1>5, <1>6, <1>7

LEMMA ServerStep ==
  ASSUME LiveDataInv, ServerChanges
  PROVE  LiveDataInv' /\ NoneOlder
<1>1. /\ version \in Nat /\ version' = version + 1
      /\ UNCHANGED <<settings, page, fetch, data, loop, events, rung, live>>
  BY Parts DEF ServerChanges
<1>2. FetchOK(fetch) /\ RowsAreOlder(fetch, data.rows, version)
  BY Parts
<1>3. RowsAreOlder(fetch, data.rows, version + 1)
  <2>1. ASSUME NEW x \in Nat, x <= version PROVE x <= version + 1
    BY <1>1, <2>1
  <2>2. \A k \in Keys : data.rows[k].v \in Nat
    BY <1>2 DEF RowsAreOlder, Row
  <2>3. ASSUME NEW k \in Keys, NEW n \in Gens PROVE fetch.req[<<k, n>>].row.v \in Nat
    <3>1. <<k, n>> \in Keys \X Gens
      OBVIOUS
    <3>2. fetch.req[<<k, n>>] \in Request
      BY <1>2, <3>1 DEF FetchOK, FetchTyped
    <3> QED BY <3>2 DEF Request, Row
  <2>4. ASSUME NEW r \in Slots, NEW k \in Keys PROVE fetch.refresh[r].got[k].v \in Nat
    BY <1>2 DEF FetchOK, FetchTyped, Refresh, Row
  <2> QED BY <1>2, <2>1, <2>2, <2>3, <2>4 DEF RowsAreOlder
<1>4. NoneOlder
  BY <1>1, <1>2, RowsStay DEF NoneOlder
<1> QED BY <1>1, <1>3, <1>4 DEF LiveDataInv

\* A call that ends without completing a refresh that is open.
LEMMA QuietEnd ==
  ASSUME LiveDataInv, NEW k \in Keys, NEW n \in Gens, NEW row, NEW done, NEW h,
         CallOver(fetch, k, n, row, done, h),
         done = Waiting(fetch, <<k, n>>) \/ RowOf(fetch.req[<<k, n>>], row, version),
         fetch' = Finally(h, done), loop' = LoopAfter(h, done),
         UNCHANGED <<settings, page, version, data, events, rung, live>>
  PROVE  LiveDataInv' /\ NoneOlder
<1> DEFINE e == Finally(h, done)
<1>1. /\ settings \in Settings /\ version \in Nat /\ DOMAIN data = {"source", "rows", "events"}
      /\ FetchOK(fetch) /\ RowsAreOlder(fetch, data.rows, version) /\ LoadingIsTrue(fetch, page)
      /\ ~settings.liveMode => Demo
  BY Parts
<1>2. /\ FetchOK(e) /\ LoadingIsTrue(e, page) /\ (DemoIsQuiet(fetch) => DemoIsQuiet(e))
      /\ RowsAreOlder(e, data.rows, version)
  BY <1>1, CallEnds
<1>3. fetch' = e
  OBVIOUS
<1> HIDE DEF e
<1>4. ASSUME ~settings.liveMode PROVE DemoIsQuiet(e) /\ loop' = NoLoop /\ Demo
  <2>1. Demo
    BY <1>1, <1>4
  <2>2. loop' = NoLoop
    BY <2>1 DEF Demo, LoopAfter, NoLoop
  <2> QED BY <1>2, <2>1, <2>2 DEF Demo
<1>5. NoneOlder
  BY <1>1, RowsStay DEF NoneOlder
<1> QED BY <1>1, <1>2, <1>3, <1>4, <1>5 DEF LiveDataInv, Demo

LEMMA RejectStep ==
  ASSUME LiveDataInv, NEW q \in Keys \X Gens, fetch.req[q].state # "none", NEW kind, Reject(q, kind)
  PROVE  LiveDataInv' /\ NoneOlder
<1>1. PICK k \in Keys, n \in Gens : q = <<k, n>>
  OBVIOUS
<1> DEFINE g == Deliver(fetch, q, NoRow)
           done == Waiting(fetch, q)
           h == IF Unaborted(g, done) = {} THEN g
                ELSE [g EXCEPT !.failures = g.failures + 1, !.error = FormatRequestError(kind)]
<1>2. /\ fetch' = Finally(h, done) /\ loop' = LoopAfter(h, done)
      /\ UNCHANGED <<settings, page, version, data, events, rung, live>>
  BY DEF Reject
<1>3. NoRow \in Row
  BY DEF NoRow, Row
<1>4. FetchTyped(g) /\ Delivered(fetch, k, n, NoRow, g)
  BY <1>1, <1>3, Parts, DeliverFields DEF FetchOK
<1> HIDE DEF g
<1>5. SameCalls(g, h) /\ h.loading = g.loading /\ h.refreshing = g.refreshing
  BY <1>4 DEF FetchTyped, SameCalls
<1> HIDE DEF h
<1>6. CallOver(fetch, k, n, NoRow, done, h)
  BY <1>1, <1>3, <1>4, <1>5 DEF CallOver, Delivered, g
<1> HIDE DEF done
<1>7. done = Waiting(fetch, <<k, n>>)
  BY <1>1 DEF done
<1> QED BY <1>2, <1>6, <1>7, QuietEnd

LEMMA SuccessStep ==
  ASSUME LiveDataInv, NEW q \in Keys \X Gens, NEW v, RequestSucceeds(q, v)
  PROVE  LiveDataInv' /\ NoneOlder
<1>1. PICK k \in Keys, n \in Gens : q = <<k, n>>
  OBVIOUS
<1> DEFINE row == [url |-> fetch.req[q].row.url, v |-> v]
           g == Deliver(fetch, q, row)
           done == {r \in Waiting(fetch, q) : \A i \in Keys : g.refresh[r].wait[i] = 0}
           winners == Unaborted(g, done)
           h == IF winners = {} THEN g
                ELSE [g EXCEPT !.succeeded = TRUE, !.failures = 0, !.error = ""]
           w == CHOOSE r \in winners : TRUE
           got == g.refresh[w].got
<1>2. /\ fetch' = Finally(h, done) /\ loop' = LoopAfter(h, done)
      /\ data' = IF winners = {} THEN data
                 ELSE [source |-> "live", rows |-> got, events |-> data.events /\ data.source = "live"]
      /\ UNCHANGED <<settings, page, version, events, rung, live>>
      /\ fetch.req[q].state = "sent" /\ v \in fetch.req[q].row.v .. version
  BY DEF RequestSucceeds
<1>3. /\ settings \in Settings /\ version \in Nat
      /\ FetchOK(fetch) /\ RowsAreOlder(fetch, data.rows, version) /\ LoadingIsTrue(fetch, page)
      /\ ~settings.liveMode => Demo
  BY Parts
<1>4. /\ fetch.req[q].row.v \in Nat /\ fetch.req[q].row.url \in Servers \cup {NoUrl}
      /\ fetch.req[q].row.url # NoUrl
  <2>1. fetch.req[q] \in Request
    BY <1>3 DEF FetchOK, FetchTyped
  <2>2. fetch.req[q].row.url # NoUrl
    BY <1>2, <1>3 DEF FetchOK, RowsOfServers
  <2> QED BY <2>1, <2>2 DEF Request, Row
<1>5. row \in Row /\ row.url # NoUrl /\ RowOf(fetch.req[q], row, version)
  <2> DEFINE u == fetch.req[q].row.url
             old == fetch.req[q].row.v
  <2>1. v \in Nat /\ old <= v /\ v <= version
    <3>1. v \in old .. version /\ old \in Nat /\ version \in Nat
      BY <1>3, <1>4 DEF RequestSucceeds
    <3> HIDE DEF old
    <3> QED BY <3>1
  <2>2. row.url = u /\ row.v = v
    OBVIOUS
  <2>3. row \in Row
    BY <1>4, <2>1 DEF Row
  <2> HIDE DEF row
  <2> QED BY <1>4, <2>1, <2>2, <2>3 DEF RowOf
<1> HIDE DEF row
<1>6. FetchTyped(g) /\ Delivered(fetch, k, n, row, g)
  BY <1>1, <1>3, <1>5, DeliverFields DEF FetchOK
<1> HIDE DEF g
<1>7. SameCalls(g, h) /\ h.loading = g.loading /\ h.refreshing = g.refreshing
  <2> HIDE DEF winners
  <2> QED BY <1>6 DEF FetchTyped, SameCalls
<1> HIDE DEF h
<1>8. CallOver(fetch, k, n, row, done, h)
  <2>1. done \subseteq Waiting(fetch, q)
    OBVIOUS
  <2> HIDE DEF done
  <2> QED BY <1>1, <1>2, <1>5, <1>6, <1>7, <2>1 DEF CallOver, Delivered, g
<1>9. CASE winners = {}
  <2>1. data' = data
    BY <1>2, <1>9
  <2> HIDE DEF done
  <2> QED BY <1>1, <1>2, <1>5, <1>8, <2>1, QuietEnd
<1>10. CASE winners # {}
  <2>1. w \in done /\ ~g.refresh[w].aborted /\ \A i \in Keys : g.refresh[w].wait[i] = 0
    BY <1>10 DEF Unaborted
  <2>2. h.refresh = g.refresh
    BY <1>7 DEF SameCalls
  <2> HIDE DEF done, winners, w
  <2> DEFINE e == Finally(h, done)
  <2>3. /\ Open(fetch, w) /\ RowsAreOlder(e, h.refresh[w].got, version)
        /\ \A i \in Keys : NoOlder(data.rows[i], h.refresh[w].got[i])
    BY <1>1, <1>3, <1>5, <1>8, <2>1, <2>2, CompletionShows
  <2>4. FetchOK(e) /\ LoadingIsTrue(e, page)
    BY <1>3, <1>8, CallEnds
  <2>5. w \in Slots
    BY <1>1, <1>8, <2>1 DEF CallOver, Waiting
  <2>6. settings.liveMode
    BY <1>3, <2>3, <2>5 DEF Demo, DemoIsQuiet, Settings
  <2>7. data'.rows = h.refresh[w].got /\ DOMAIN data' = {"source", "rows", "events"}
    <3>1. data' = [source |-> "live", rows |-> got, events |-> data.events /\ data.source = "live"]
      BY <1>2, <1>10
    <3> QED BY <2>2, <3>1
  <2>8. fetch' = e /\ UNCHANGED <<settings, page, version>>
    BY <1>2
  <2> HIDE DEF e
  <2>9. NoneOlder
    BY <2>3, <2>7 DEF NoneOlder
  <2> QED BY <1>3, <2>3, <2>4, <2>6, <2>7, <2>8, <2>9 DEF LiveDataInv
<1> QED BY <1>9, <1>10

LEMMA NextHolds ==
  ASSUME LiveDataInv, [Next]_vars
  PROVE  LiveDataInv' /\ NoneOlder
<1>1. CASE UNCHANGED vars
  <2>1. UNCHANGED <<settings, page, version, fetch, data, loop, events, rung, live>>
    BY <1>1 DEF vars
  <2>2. NoneOlder
    BY <2>1, Parts, RowsStay DEF NoneOlder
  <2> QED BY <2>1, <2>2 DEF LiveDataInv
<1>2. ASSUME NEW s \in Settings, ChangeSettings(s) PROVE LiveDataInv' /\ NoneOlder
  BY <1>2, SettingsStep DEF ChangeSettings
<1>3. CASE ResetConnectionSettings
  <2> DEFINE s == [settings EXCEPT !.url = Defaults.url, !.liveMode = TRUE, !.liveUpdates = TRUE]
  <2>1. s \in Settings
    BY Parts, SettingsAssumption DEF Settings
  <2>2. ApplySettings(s)
    BY <1>3 DEF ResetConnectionSettings
  <2> HIDE DEF s
  <2> QED BY <2>1, <2>2, SettingsStep
<1>4. ASSUME NEW s \in Settings, NEW p \in {"visible", "hidden"}, Reload(s, p)
      PROVE  LiveDataInv' /\ NoneOlder
  BY <1>4, ReloadStep
<1>5. CASE VisibilityChanges \/ Unmount \/ ServerChanges
  BY <1>5, VisibilityStep, UnmountStep, ServerStep
<1>6. ASSUME NEW quiet \in BOOLEAN,
             \/ PollingEffectReruns \/ PollFires \/ FlushFires \/ DebounceFires \/ ForcedRefresh(quiet)
             \/ TransportOpens \/ TransportMoves \/ EventArrives
      PROVE  LiveDataInv' /\ NoneOlder
  BY <1>6, LiveStep
<1>7. ASSUME NEW q \in Keys \X Gens, RequestAnswered(q) PROVE LiveDataInv' /\ NoneOlder
  BY <1>7, SuccessStep DEF RequestAnswered
<1>8. ASSUME NEW q \in Keys \X Gens, AbortedRequestRejects(q) PROVE LiveDataInv' /\ NoneOlder
  <2>1. fetch.req[q].state # "none" /\ Reject(q, ClassifyFetchError("abort"))
    BY <1>8 DEF AbortedRequestRejects
  <2> QED BY <2>1, RejectStep
<1>9. ASSUME NEW q \in Keys \X Gens, NEW kind \in Failures, RequestFails(q, kind)
      PROVE  LiveDataInv' /\ NoneOlder
  <2>1. fetch.req[q].state # "none" /\ Reject(q, kind)
    BY <1>9 DEF RequestFails
  <2> QED BY <2>1, RejectStep
<1>10. CASE Next
  <2>1. CASE \E s \in Settings : ChangeSettings(s) \/ \E p \in {"visible", "hidden"} : Reload(s, p)
    BY <2>1, <1>2, <1>4
  <2>2. CASE ResetConnectionSettings \/ VisibilityChanges \/ Unmount \/ ServerChanges
    BY <2>2, <1>3, <1>5
  <2>3. CASE \/ PollingEffectReruns \/ PollFires \/ FlushFires \/ DebounceFires
             \/ TransportOpens \/ TransportMoves \/ EventArrives
    BY <2>3, <1>6
  <2>4. CASE \E quiet \in BOOLEAN : ForcedRefresh(quiet)
    BY <2>4, <1>6
  <2>5. CASE \E q \in Keys \X Gens :
               \/ RequestAnswered(q) \/ AbortedRequestRejects(q)
               \/ \E kind \in Failures : RequestFails(q, kind)
    BY <2>5, <1>7, <1>8, <1>9
  <2> QED BY <1>10, <2>1, <2>2, <2>3, <2>4, <2>5 DEF Next
<1> QED BY <1>1, <1>10

-----------------------------------------------------------------------------
(* Theorems.                                                               *)

(***************************************************************************)
(* The inductive invariant of the refresh: the map holds the calls in      *)
(* flight, only the controller's refresh is not aborted, and no row on its *)
(* way is older than the row shown.                                        *)
(***************************************************************************)
THEOREM LiveDataInvariant == Spec => []LiveDataInv
<1>1. Init => LiveDataInv
  BY InitHolds
<1>2. LiveDataInv /\ [Next]_vars => LiveDataInv'
  BY NextHolds
<1> QED BY <1>1, <1>2, PTL DEF Spec

(***************************************************************************)
(* After the switch to the demo, refreshes in flight, events and timers of *)
(* the live mode never change what useDashboardLiveData shows.             *)
(***************************************************************************)
THEOREM DemoIsNeverDisturbed == Spec => []DemoStaysDemo
<1>1. LiveDataInv => DemoStaysDemo
  BY DEF LiveDataInv, DemoStaysDemo
<1> QED BY <1>1, LiveDataInvariant, PTL

(***************************************************************************)
(* The spinners of a visible console never spin for nothing: loading and   *)
(* refreshing are said only while a refresh is under way.                  *)
(***************************************************************************)
THEOREM SpinnersMeanWork == Spec => []BusyFlagsMeanWork
<1>1. LiveDataInv => BusyFlagsMeanWork
  BY DEF LiveDataInv, BusyFlagsMeanWork, LoadingIsTrue, FetchOK, RefreshingIsTrue
<1> QED BY <1>1, LiveDataInvariant, PTL

(***************************************************************************)
(* However the calls of refreshConsole overlap, fail, are aborted or are   *)
(* joined, no row is replaced by an older row of the same server.          *)
(***************************************************************************)
THEOREM DataOnlyMovesForward == Spec => DataNeverGoesBack
<1> DEFINE Forward == \A k \in Keys : data'.rows[k].url = data.rows[k].url =>
                                        data'.rows[k].v >= data.rows[k].v
<1>1. LiveDataInv /\ [Next]_vars => [Forward]_vars
  <2>1. SUFFICES ASSUME LiveDataInv, [Next]_vars PROVE Forward
    OBVIOUS
  <2>2. NoneOlder /\ LiveDataInv'
    BY <2>1, NextHolds
  <2>3. \A k \in Keys : data.rows[k].v \in Nat
    BY <2>1 DEF LiveDataInv, RowsAreOlder, Row
  <2>4. \A k \in Keys : data'.rows[k].v \in Nat
    BY <2>2 DEF LiveDataInv, RowsAreOlder, Row
  <2> QED BY <2>2, <2>3, <2>4 DEF NoneOlder, NoOlder
<1> QED BY <1>1, LiveDataInvariant, PTL DEF Spec, DataNeverGoesBack
===============================================================================
