--------------------------- MODULE InspectionProofs ---------------------------
(***************************************************************************)
(* Proofs about Inspection for any number of jobs, versions and moves:     *)
(* what the drawer says of its details is true, and the details fetched of *)
(* a job never go back, though its row may.                                *)
(***************************************************************************)
EXTENDS Inspection, TLAPS

Detail == [job : Nat, rest : Nat, by : {"nobody", "console", "server"}]

Metas == [busy : BOOLEAN, error : BOOLEAN, at : BOOLEAN]

Calls == [state : {"none", "sent", "aborted"}, v : Nat, prev : Detail]

JobDetail == [cache : Detail, sig : Detail, meta : Metas, call : Calls]

InspectionTypeOK ==
  /\ mode \in {"live", "demo"} /\ page \in {"visible", "hidden", "gone"}
  /\ rows \in [Jobs -> Nat] /\ selected \in Jobs \cup {NoJob}
  /\ detail \in [Jobs -> JobDetail] /\ debounce \subseteq LiveJobs
  /\ srv \in [LiveJobs -> Nat]

\* The rows are those of the mode, and the job in the drawer is listed.
RowsOfMode ==
  /\ \A j \in DemoJobs : mode = "live" => rows[j] = 0
  /\ selected # NoJob => rows[selected] # 0

\* The newest version of a job the server can have sent.
Newest(j) == IF j \in LiveJobs THEN srv[j] ELSE 0

\* "Updating" is said exactly while a call is in flight; nobody waits for a call
\* in the demo or in a page that is gone.
CallIsShown(x, m, p) ==
  /\ p # "gone" => (x.meta.busy <=> x.call.state = "sent")
  /\ m = "demo" \/ p = "gone" => x.call.state # "sent"
  /\ m = "demo" => ~x.meta.busy

\* A signature of the server's details is kept only beside details of the
\* server: an answer that is skipped because it has the signature of the last
\* one finds them in the cache.
SignatureHasCache(x, m) ==
  /\ m = "demo" => x.cache.by # "server"
  /\ x.sig.by = "server" => x.cache.by = "server"
  /\ x.call.state = "sent" /\ x.call.prev.by = "server" => x.cache.by = "server"

\* The server's details in the cache are no newer than the server, nor than the
\* server was when the call in flight was made.
CacheIsOlder(x, newest) ==
  /\ x.cache.by = "server" => x.cache.rest <= newest
  /\ x.cache.by = "server" /\ x.call.state = "sent" => x.cache.rest <= x.call.v

\* Only jobs of the server are fetched.
FetchedIsLive == \A j \in DemoJobs : detail[j].call.state # "sent"

\* A selected job is being fetched, was fetched or could not be.
SelectedWasFetched ==
  mode = "live" /\ page # "gone" /\ selected # NoJob =>
    \/ detail[selected].call.state = "sent"
    \/ detail[selected].meta.error
    \/ detail[selected].cache.by = "server"

\* What holds of the details of each job, x.
Sound(x, m, p, newest) ==
  CallIsShown(x, m, p) /\ SignatureHasCache(x, m) /\ CacheIsOlder(x, newest)

InspectionInv ==
  /\ InspectionTypeOK /\ RowsOfMode /\ FetchedIsLive /\ SelectedWasFetched
  /\ \A j \in Jobs : Sound(detail[j], mode, page, Newest(j))

-----------------------------------------------------------------------------
(* What the operators do to the details of one job.                        *)

LEMMA Parts ==
  /\ None \in Detail /\ None.by = "nobody"
  /\ NoMeta \in Metas /\ ~NoMeta.busy
  /\ NoCall \in Calls /\ NoCall.state = "none"
  /\ NoDetail \in JobDetail
  /\ NoDetail.cache = None /\ NoDetail.sig = None /\ NoDetail.meta = NoMeta /\ NoDetail.call = NoCall
<1>1. None \in Detail /\ None.by = "nobody"
  BY SMT DEF None, Details, Detail
<1>2. NoMeta \in Metas
  BY Zenon DEF NoMeta, Meta, Metas
<1>3. ~NoMeta.busy
  BY Zenon DEF NoMeta, Meta
<1>4. NoCall \in Calls /\ NoCall.state = "none"
  BY <1>1, SMT DEF NoCall, Calls
<1>5. NoDetail \in JobDetail
  BY <1>1, <1>2, <1>4, Zenon DEF NoDetail, JobDetail
<1>6. NoDetail.cache = None /\ NoDetail.sig = None /\ NoDetail.meta = NoMeta /\ NoDetail.call = NoCall
  BY Zenon DEF NoDetail
<1> QED BY <1>1, <1>2, <1>3, <1>4, <1>5, <1>6

\* The fallback fills an empty cache with something that is not the server's,
\* and takes the signature of what is cached.
LEMMA FallbackFields ==
  ASSUME NEW x \in JobDetail, NEW row \in Nat
  PROVE  LET y == ApplyInspectionFallback(x, row)
         IN  /\ y \in JobDetail
             /\ y.meta = x.meta /\ y.call = x.call
             /\ x.cache # None => y.cache = x.cache
             /\ x.cache = None => y.cache.by # "server"
             /\ y.sig = x.sig \/ y.sig = y.cache
<1> DEFINE f == GetInspection(x, row)
           y == ApplyInspectionFallback(x, row)
<1>1. x.cache \in Detail /\ x.sig \in Detail
  BY DEF JobDetail
<1>2. CreateInspectionFallback(row) \in Detail /\ CreateInspectionFallback(row).by = "console"
  BY SMT DEF CreateInspectionFallback, Details, Detail
<1>3. f \in Detail /\ (x.cache # None => f = x.cache) /\ (x.cache = None => f.by # "server")
  BY <1>1, <1>2, Parts DEF GetInspection
<1>4. CASE f \in {None, x.sig}
  <2>1. y = x
    BY <1>4 DEF ApplyInspectionFallback
  <2> QED BY <2>1, Parts
<1>5. CASE f \notin {None, x.sig}
  <2>1. y = [x EXCEPT !.sig = f, !.cache = f]
    BY <1>5 DEF ApplyInspectionFallback
  <2> HIDE DEF f, y
  <2>2. y \in JobDetail
    BY <2>1, <1>3, Zenon DEF JobDetail
  <2>3. y.meta = x.meta /\ y.call = x.call /\ y.cache = f /\ y.sig = f
    BY <2>1, Zenon DEF JobDetail
  <2> QED BY <2>2, <2>3, <1>3 DEF y
<1> QED BY <1>4, <1>5

\* refreshInspection: nothing is fetched in the demo, a call in flight is joined,
\* and a new one remembers the signature and the job's version.
LEMMA RefreshFields ==
  ASSUME mode \in {"live", "demo"}, rows \in [Jobs -> Nat], srv \in [LiveJobs -> Nat],
         NEW x \in JobDetail, NEW j \in Jobs, mode = "live" => j \in LiveJobs
  PROVE  LET y == RefreshInspection(x, j)
         IN  /\ y \in JobDetail
             /\ x.cache # None => y.cache = x.cache
             /\ x.cache = None => y.cache.by # "server"
             /\ y.sig = x.sig \/ y.sig = y.cache
             /\ mode = "demo" => y.call = x.call /\ ~y.meta.busy
             /\ mode = "live" /\ x.call.state # "none" => y = x
             /\ mode = "live" /\ x.call.state = "none" =>
                  /\ y.meta.busy
                  /\ y.call.state = "sent"
                  /\ y.call.v = srv[j]
                  /\ y.call.prev = x.sig
<1> DEFINE y == RefreshInspection(x, j)
<1>0. rows[j] \in Nat /\ mode \in {"live", "demo"}
  OBVIOUS
<1>1. CASE mode = "demo"
  <2> DEFINE z == ApplyInspectionFallback(x, rows[j])
             m == Meta(FALSE, FALSE, TRUE)
  <2>1. y = [z EXCEPT !.meta = m]
    BY <1>1 DEF RefreshInspection
  <2>2. /\ z \in JobDetail
        /\ z.meta = x.meta /\ z.call = x.call
        /\ x.cache # None => z.cache = x.cache
        /\ x.cache = None => z.cache.by # "server"
        /\ z.sig = x.sig \/ z.sig = z.cache
    BY <1>0, FallbackFields
  <2>3. m \in Metas /\ ~m.busy
    BY Zenon DEF Meta, Metas
  <2> HIDE DEF z, y, m
  <2>4. y \in JobDetail
    BY <2>1, <2>2, <2>3, Zenon DEF JobDetail
  <2>5. y.meta = m /\ y.call = z.call /\ y.cache = z.cache /\ y.sig = z.sig
    BY <2>1, <2>2, Zenon DEF JobDetail
  <2>6. mode # "live"
    BY <1>1
  <2> QED BY <2>2, <2>3, <2>4, <2>5, <2>6, Zenon DEF y
<1>2. CASE mode = "live" /\ x.call.state # "none"
  <2>1. y = x
    BY <1>2 DEF RefreshInspection
  <2> QED BY <2>1, <1>2, Parts
<1>3. CASE mode = "live" /\ x.call.state = "none"
  <2> DEFINE m == Meta(TRUE, FALSE, x.meta.at)
             c == Call(j, x.sig)
  <2>1. y = [x EXCEPT !.call = c, !.meta = m]
    BY <1>3 DEF RefreshInspection
  <2>2. x.meta \in Metas /\ x.sig \in Detail
    BY DEF JobDetail
  <2>3. m \in Metas /\ m.busy
    BY <2>2, Zenon DEF Meta, Metas
  <2>4. c \in Calls /\ c.state = "sent" /\ c.v = srv[j] /\ c.prev = x.sig
    BY <2>2, <1>3, SMT DEF Call, Calls
  <2> HIDE DEF y, m, c
  <2>5. y \in JobDetail
    BY <2>1, <2>3, <2>4, Zenon DEF JobDetail
  <2>6. y.meta = m /\ y.call = c /\ y.cache = x.cache /\ y.sig = x.sig
    BY <2>1, Zenon DEF JobDetail
  <2> QED BY <2>3, <2>4, <2>5, <2>6, <1>3, Parts, Zenon DEF y
<1> QED BY <1>0, <1>1, <1>2, <1>3

\* The row that overlays the cached one changes nothing else.
LEMMA SyncFields ==
  ASSUME NEW ds \in [Jobs -> JobDetail], NEW rs \in [Jobs -> Nat], NEW sel \in Jobs \cup {NoJob}
  PROVE  LET ns == SyncRow(ds, rs, sel)
         IN  /\ ns \in [Jobs -> JobDetail]
             /\ \A k \in Jobs :
                  /\ ns[k].sig = ds[k].sig /\ ns[k].meta = ds[k].meta /\ ns[k].call = ds[k].call
                  /\ ns[k].cache.by = ds[k].cache.by /\ ns[k].cache.rest = ds[k].cache.rest
<1> DEFINE ns == SyncRow(ds, rs, sel)
<1>1. CASE sel = NoJob \/ ds[sel].cache = None \/ rs[sel] = 0
  <2>1. ns = ds
    BY <1>1 DEF SyncRow
  <2> QED BY <2>1
<1>2. CASE ~(sel = NoJob \/ ds[sel].cache = None \/ rs[sel] = 0)
  <2>0. sel \in Jobs /\ rs[sel] \in Nat
    BY <1>2
  <2> DEFINE x == ds[sel]
             c == [x.cache EXCEPT !.job = rs[sel]]
             z == [x EXCEPT !.cache = c]
  <2>1. ns = [ds EXCEPT ![sel] = z]
    BY <1>2 DEF SyncRow
  <2>2. x \in JobDetail /\ x.cache \in Detail
    BY <2>0 DEF JobDetail
  <2> HIDE DEF x, ns
  <2>3. c \in Detail /\ c.by = x.cache.by /\ c.rest = x.cache.rest
    BY <2>0, <2>2, SMT DEF Detail
  <2> HIDE DEF c
  <2>4. z \in JobDetail /\ z.sig = x.sig /\ z.meta = x.meta /\ z.call = x.call /\ z.cache = c
    BY <2>2, <2>3, Zenon DEF JobDetail
  <2> HIDE DEF z
  <2>5. ns \in [Jobs -> JobDetail]
    BY <2>1, <2>4, <2>0
  <2>6. \A k \in Jobs : ns[k] = IF k = sel THEN z ELSE ds[k]
    BY <2>1
  <2> QED BY <2>3, <2>4, <2>5, <2>6, Zenon DEF ns, x
<1> QED BY <1>1, <1>2

-----------------------------------------------------------------------------
(* Each operator keeps the details of a job sound.                         *)

LEMMA SoundIsAboutParts ==
  ASSUME NEW x \in JobDetail, NEW y \in JobDetail, NEW m, NEW p, NEW n,
         Sound(x, m, p, n),
         y.sig = x.sig, y.meta = x.meta, y.call = x.call,
         y.cache.by = x.cache.by, y.cache.rest = x.cache.rest
  PROVE  Sound(y, m, p, n)
BY Zenon DEF Sound, CallIsShown, SignatureHasCache, CacheIsOlder

LEMMA RefreshKeepsSound ==
  ASSUME InspectionTypeOK, page # "gone",
         NEW x \in JobDetail, NEW j \in Jobs, mode = "live" => j \in LiveJobs,
         x.call.state # "aborted", Sound(x, mode, page, Newest(j))
  PROVE  /\ Sound(RefreshInspection(x, j), mode, page, Newest(j))
         /\ mode = "live" => RefreshInspection(x, j).call.state = "sent"
         /\ mode = "demo" => RefreshInspection(x, j).call.state = x.call.state
<1> DEFINE y == RefreshInspection(x, j)
<1>1. /\ y \in JobDetail
      /\ x.cache # None => y.cache = x.cache
      /\ x.cache = None => y.cache.by # "server"
      /\ y.sig = x.sig \/ y.sig = y.cache
      /\ mode = "demo" => y.call = x.call /\ ~y.meta.busy
      /\ mode = "live" /\ x.call.state # "none" => y = x
      /\ mode = "live" /\ x.call.state = "none" =>
           /\ y.meta.busy
           /\ y.call.state = "sent"
           /\ y.call.v = srv[j]
           /\ y.call.prev = x.sig
  BY RefreshFields DEF InspectionTypeOK
<1>2. /\ mode \in {"live", "demo"}
      /\ x.call.state \in {"none", "sent"}
  BY DEF InspectionTypeOK, JobDetail, Calls
<1> HIDE DEF y
<1>3. CASE mode = "live" /\ x.call.state # "none"
  BY <1>1, <1>2, <1>3, Zenon DEF y
<1>4. CASE mode = "live" /\ x.call.state = "none"
  <2>1. CallIsShown(y, mode, page)
    BY <1>1, <1>4, Zenon DEF CallIsShown
  <2>2. SignatureHasCache(y, mode)
    BY <1>1, <1>4, Parts, Zenon DEF SignatureHasCache, Sound
  <2>3. y.cache.by = "server" => y.cache = x.cache
    BY <1>1
  <2>4. CacheIsOlder(y, Newest(j))
    BY <1>1, <2>3, <1>4 DEF CacheIsOlder, Sound, Newest
  <2> QED BY <2>1, <2>2, <2>4, <1>1, <1>4 DEF Sound, y
<1>5. CASE mode = "demo"
  <2>1. CallIsShown(y, mode, page)
    BY <1>1, <1>5, Zenon DEF CallIsShown, Sound
  <2>2. SignatureHasCache(y, mode)
    BY <1>1, <1>5, Parts, Zenon DEF SignatureHasCache, CallIsShown, Sound
  <2>3. CacheIsOlder(y, Newest(j))
    BY <2>2, <1>5, Zenon DEF CacheIsOlder, SignatureHasCache
  <2>4. mode # "live"
    BY <1>5
  <2> QED BY <2>1, <2>2, <2>3, <2>4, <1>1, <1>5, Zenon DEF Sound, y
<1> QED BY <1>2, <1>3, <1>4, <1>5

\* The rest of refreshInspection: an answer of the server, no older than the call.
LEMMA AppliedKeepsSound ==
  ASSUME NEW x \in JobDetail, NEW a \in Detail, NEW n \in Nat, NEW m, NEW p,
         Sound(x, m, p, n), x.call.state = "sent",
         a.by = "server", a.rest <= n
  PROVE  LET y == Applied(x, a)
         IN  /\ y \in JobDetail
             /\ Sound(y, m, p, n)
             /\ y.call.state = "none"
             /\ y.cache.by = "server"
             /\ y.cache = x.cache \/ y.cache = a
<1> DEFINE y == Applied(x, a)
           mm == Meta(FALSE, FALSE, TRUE)
           c == IF a = x.call.prev THEN x.cache ELSE a
<1>1. y = [x EXCEPT !.sig = a, !.cache = c, !.meta = mm, !.call = NoCall]
  BY DEF Applied
<1>2. mm \in Metas /\ ~mm.busy
  BY Zenon DEF Meta, Metas
<1>3. x.cache \in Detail
  BY DEF JobDetail
<1>4. c \in Detail /\ c.by = "server" /\ (c = x.cache \/ c = a)
  BY <1>3 DEF Sound, SignatureHasCache
<1> HIDE DEF y, mm, c
<1>5. y \in JobDetail
  BY <1>1, <1>2, <1>4, Parts, Zenon DEF JobDetail
<1>6. y.sig = a /\ y.cache = c /\ y.meta = mm /\ y.call = NoCall
  BY <1>1, Zenon DEF JobDetail
<1>7. m # "demo" /\ p # "gone"
  BY Zenon DEF Sound, CallIsShown
<1>8. NoCall.state # "sent"
  BY Parts
<1>9. CallIsShown(y, m, p)
  BY <1>2, <1>6, <1>7, <1>8, Zenon DEF CallIsShown
<1>10. SignatureHasCache(y, m)
  BY <1>4, <1>6, <1>7, <1>8, Zenon DEF SignatureHasCache
<1>11. CacheIsOlder(y, n)
  BY <1>4, <1>6, <1>8, Zenon DEF CacheIsOlder, Sound
<1> QED BY <1>4, <1>5, <1>6, <1>9, <1>10, <1>11, Parts, Zenon DEF Sound, y

\* A failed call leaves the details, or ones made from the row.
LEMMA FailureKeepsSound ==
  ASSUME NEW x \in JobDetail, NEW row \in Nat, NEW n, NEW m, NEW p,
         Sound(x, m, p, n), x.call.state = "sent"
  PROVE  LET y == Failed(x, row)
         IN  /\ y \in JobDetail
             /\ Sound(y, m, p, n)
             /\ y.call.state = "none" /\ y.meta.error
             /\ x.cache # None => y.cache = x.cache
<1> DEFINE z == ApplyInspectionFallback(x, row)
           mm == Meta(FALSE, TRUE, x.meta.at)
           y == [z EXCEPT !.meta = mm, !.call = NoCall]
<1>1. /\ z \in JobDetail
      /\ z.meta = x.meta /\ z.call = x.call
      /\ x.cache # None => z.cache = x.cache
      /\ x.cache = None => z.cache.by # "server"
      /\ z.sig = x.sig \/ z.sig = z.cache
  BY FallbackFields
<1> HIDE DEF z
<1>2. x.meta \in Metas
  BY DEF JobDetail
<1>3. mm \in Metas /\ ~mm.busy /\ mm.error
  BY <1>2, Zenon DEF Meta, Metas
<1> HIDE DEF mm
<1>4. y \in JobDetail
  BY <1>1, <1>3, Parts, Zenon DEF JobDetail
<1>5. y.sig = z.sig /\ y.cache = z.cache /\ y.meta = mm /\ y.call = NoCall
  BY <1>1, Zenon DEF JobDetail
<1> HIDE DEF y
<1>6. m # "demo" /\ p # "gone"
  BY Zenon DEF Sound, CallIsShown
<1>7. NoCall.state # "sent"
  BY Parts
<1>8. CallIsShown(y, m, p)
  BY <1>3, <1>5, <1>6, <1>7, Zenon DEF CallIsShown
<1>9. SignatureHasCache(y, m)
  BY <1>1, <1>5, <1>6, <1>7, Parts, Zenon DEF SignatureHasCache, Sound
<1>10. y.cache.by = "server" => y.cache = x.cache
  BY <1>1, <1>5
<1>11. CacheIsOlder(y, n)
  BY <1>5, <1>7, <1>10, Zenon DEF CacheIsOlder, Sound
<1>12. /\ y \in JobDetail
       /\ Sound(y, m, p, n)
       /\ y.call.state = "none" /\ y.meta.error
       /\ x.cache # None => y.cache = x.cache
  BY <1>1, <1>3, <1>4, <1>5, <1>8, <1>9, <1>11, Parts, Zenon DEF Sound
<1> QED BY <1>12, Zenon DEF y, z, mm, Failed

\* The microtask of an aborted call.
LEMMA RejectKeepsSound ==
  ASSUME NEW x \in JobDetail, NEW n, NEW m, NEW p,
         Sound(x, m, p, n), x.call.state = "aborted"
  PROVE  LET y == [x EXCEPT !.call = NoCall]
         IN  /\ y \in JobDetail
             /\ Sound(y, m, p, n)
             /\ y.call.state = "none" /\ y.meta = x.meta /\ y.cache = x.cache
<1> DEFINE y == [x EXCEPT !.call = NoCall]
<1>1. y \in JobDetail
  BY Parts, Zenon DEF JobDetail
<1>2. y.sig = x.sig /\ y.cache = x.cache /\ y.meta = x.meta /\ y.call = NoCall
  BY Zenon DEF JobDetail
<1> HIDE DEF y
<1>3. NoCall.state # "sent" /\ x.call.state # "sent"
  BY Parts
<1>4. Sound(y, m, p, n)
  BY <1>2, <1>3, Zenon DEF Sound, CallIsShown, SignatureHasCache, CacheIsOlder
<1>5. /\ y \in JobDetail
      /\ Sound(y, m, p, n)
      /\ y.call.state = "none" /\ y.meta = x.meta /\ y.cache = x.cache
  BY <1>1, <1>2, <1>4, Parts
<1> QED BY <1>5, Zenon DEF y

\* The switch of the mode, whichever mode is entered.
LEMMA SwitchKeepsSound ==
  ASSUME NEW x \in JobDetail, NEW n, NEW m, NEW p
  PROVE  LET y == SwitchDetail(x)
         IN  y \in JobDetail /\ Sound(y, m, p, n) /\ y.call.state # "sent"
<1> DEFINE c == [x.call EXCEPT !.state = IF @ = "sent" THEN "aborted" ELSE @]
           y == SwitchDetail(x)
<1>1. y = [NoDetail EXCEPT !.call = c]
  BY DEF SwitchDetail
<1>2. x.call \in Calls
  BY DEF JobDetail
<1>3. c \in Calls /\ c.state # "sent"
  BY <1>2, SMT DEF Calls
<1> HIDE DEF c, y
<1>4. y \in JobDetail
  BY <1>1, <1>3, Parts, Zenon DEF JobDetail
<1>5. y.sig = None /\ y.cache = None /\ y.meta = NoMeta /\ y.call = c
  BY <1>1, Parts, Zenon DEF JobDetail
<1>6. None.by # "server" /\ ~NoMeta.busy
  BY Parts
<1>7. Sound(y, m, p, n)
  BY <1>3, <1>5, <1>6, Zenon DEF Sound, CallIsShown, SignatureHasCache, CacheIsOlder
<1> QED BY <1>3, <1>4, <1>5, <1>7, Zenon DEF y

\* The page goes: the calls are aborted and the rest is left as it is.
LEMMA UnmountKeepsSound ==
  ASSUME NEW x \in JobDetail, NEW n, NEW m, NEW p, Sound(x, m, p, n)
  PROVE  LET y == [x EXCEPT !.call.state = IF @ = "sent" THEN "aborted" ELSE @]
         IN  /\ y \in JobDetail
             /\ Sound(y, m, "gone", n)
             /\ y.call.state # "sent" /\ y.cache = x.cache
<1> DEFINE c == [x.call EXCEPT !.state = IF @ = "sent" THEN "aborted" ELSE @]
           y == [x EXCEPT !.call = c]
<1>2. x.call \in Calls
  BY DEF JobDetail
<1>3. c \in Calls /\ c.state # "sent"
  BY <1>2, SMT DEF Calls
<1>0. y = [x EXCEPT !.call.state = IF @ = "sent" THEN "aborted" ELSE @]
  OBVIOUS
<1> HIDE DEF c
<1>4. y \in JobDetail
  BY <1>3, Zenon DEF JobDetail
<1>5. y.sig = x.sig /\ y.cache = x.cache /\ y.meta = x.meta /\ y.call = c
  BY Zenon DEF JobDetail
<1> HIDE DEF y
<1>7. Sound(y, m, "gone", n)
  BY <1>3, <1>5, Zenon DEF Sound, CallIsShown, SignatureHasCache, CacheIsOlder
<1>8. y \in JobDetail /\ Sound(y, m, "gone", n) /\ y.call.state # "sent" /\ y.cache = x.cache
  BY <1>3, <1>4, <1>5, <1>7
<1> QED BY <1>8, <1>0

-----------------------------------------------------------------------------
(* Each action keeps the invariant.                                        *)

LEMMA CalmCalls ==
  ASSUME InspectionInv, Calm, NEW j \in Jobs
  PROVE  detail[j] \in JobDetail /\ detail[j].call.state # "aborted"
BY DEF InspectionInv, InspectionTypeOK, Calm

\* A listed job of live mode is the server's.
LEMMA ListedIsLive ==
  ASSUME InspectionInv, mode = "live", NEW j \in Jobs, rows[j] # 0
  PROVE  j \in LiveJobs
BY DEF InspectionInv, RowsOfMode, Jobs

\* A step that replaces the details of one job.
LEMMA OneDetail ==
  ASSUME InspectionInv, NEW j \in Jobs, NEW y \in JobDetail,
         detail' = [detail EXCEPT ![j] = y],
         mode' = mode, page' = page, rows' = rows, selected' = selected, srv' = srv,
         debounce' \subseteq LiveJobs,
         Sound(y, mode, page, Newest(j)),
         j \in DemoJobs => y.call.state # "sent",
         mode = "live" /\ page # "gone" /\ selected = j =>
           y.call.state = "sent" \/ y.meta.error \/ y.cache.by = "server"
  PROVE  InspectionInv'
<1>1. \A k \in Jobs : detail'[k] = IF k = j THEN y ELSE detail[k]
  BY DEF InspectionInv, InspectionTypeOK
<1>2. InspectionTypeOK'
  BY DEF InspectionInv, InspectionTypeOK
<1>3. RowsOfMode'
  BY DEF InspectionInv, RowsOfMode
<1>4. FetchedIsLive'
  BY <1>1 DEF InspectionInv, FetchedIsLive, Jobs
<1>5. SelectedWasFetched'
  BY <1>1, Zenon DEF InspectionInv, SelectedWasFetched, InspectionTypeOK
<1>6. \A k \in Jobs : Newest(k)' = Newest(k)
  BY DEF Newest
<1>7. \A k \in Jobs : Sound(detail'[k], mode', page', Newest(k)')
  BY <1>1, <1>6, Zenon DEF InspectionInv
<1> QED BY <1>2, <1>3, <1>4, <1>5, <1>7 DEF InspectionInv

\* The timers: one job is fetched, unless it is already.
LEMMA RefreshKeepsInv ==
  ASSUME InspectionInv, Task, NEW j \in LiveJobs,
         detail' = [detail EXCEPT ![j] = RefreshInspection(@, j)],
         mode' = mode, page' = page, rows' = rows, selected' = selected, srv' = srv,
         debounce' \subseteq LiveJobs
  PROVE  InspectionInv'
<1> DEFINE x == detail[j]
           y == RefreshInspection(x, j)
<1>1. j \in Jobs /\ x \in JobDetail /\ x.call.state # "aborted"
  BY CalmCalls DEF Jobs, Task
<1>2. InspectionTypeOK /\ page # "gone" /\ Sound(x, mode, page, Newest(j))
  BY <1>1 DEF Task, InspectionInv
<1>3. Sound(y, mode, page, Newest(j)) /\ (mode = "live" => y.call.state = "sent")
  BY <1>1, <1>2, RefreshKeepsSound
<1>4. y \in JobDetail
  BY <1>1, <1>2, RefreshFields DEF InspectionTypeOK
<1>5. j \notin DemoJobs
  BY InspectionAssumption
<1>6. detail' = [detail EXCEPT ![j] = y]
  OBVIOUS
<1> HIDE DEF x, y
<1> QED BY <1>1, <1>3, <1>4, <1>5, <1>6, OneDetail

LEMMA TimersKeepInv ==
  ASSUME InspectionInv
  PROVE  /\ IntervalFires => InspectionInv'
         /\ \A j \in Jobs : DebounceFires(j) => InspectionInv'
<1>1. ASSUME IntervalFires PROVE InspectionInv'
  <2>1. selected \in LiveJobs
    BY <1>1, ListedIsLive DEF IntervalFires, DrawerRefreshes, InspectionInv, InspectionTypeOK, RowsOfMode
  <2>2. debounce' \subseteq LiveJobs
    BY <1>1 DEF IntervalFires, InspectionInv, InspectionTypeOK
  <2> QED BY <1>1, <2>1, <2>2, RefreshKeepsInv DEF IntervalFires
<1>2. ASSUME NEW j \in Jobs, DebounceFires(j) PROVE InspectionInv'
  <2>1. j \in LiveJobs /\ debounce' \subseteq LiveJobs
    BY <1>2 DEF DebounceFires, InspectionInv, InspectionTypeOK
  <2> QED BY <1>2, <2>1, RefreshKeepsInv DEF DebounceFires
<1> QED BY <1>1, <1>2

LEMMA CallsKeepInv ==
  ASSUME InspectionInv, NEW j \in Jobs
  PROVE  /\ \A v, w \in 0..MaxVersion : CallSucceeds(j, v, w) => InspectionInv'
         /\ CallFails(j) => InspectionInv'
         /\ AbortedCallRejects(j) => InspectionInv'
<1> DEFINE x == detail[j]
<1>1. /\ x \in JobDetail /\ Sound(x, mode, page, Newest(j))
      /\ rows[j] \in Nat /\ debounce \subseteq LiveJobs
      /\ j \in DemoJobs => x.call.state # "sent"
  BY DEF InspectionInv, InspectionTypeOK, FetchedIsLive
<1>2. ASSUME NEW v \in 0..MaxVersion, NEW w \in 0..MaxVersion, CallSucceeds(j, v, w)
      PROVE  InspectionInv'
  <2> DEFINE a == Details(v, w, "server")
             y == Applied(x, a)
  <2>1. x.call.state = "sent" /\ j \in LiveJobs
    BY <1>1, <1>2 DEF CallSucceeds, Jobs
  <2>2. Newest(j) \in Nat /\ w <= Newest(j)
    BY <2>1, <1>2 DEF CallSucceeds, Newest, InspectionInv, InspectionTypeOK
  <2>3. a \in Detail /\ a.by = "server" /\ a.rest = w
    BY SMT DEF Details, Detail
  <2>4. detail' = [detail EXCEPT ![j] = y]
    BY <1>2 DEF CallSucceeds
  <2>5. mode' = mode /\ page' = page /\ rows' = rows /\ selected' = selected /\ srv' = srv
        /\ debounce' = debounce
    BY <1>2 DEF CallSucceeds
  <2> HIDE DEF x, a
  <2>6. /\ y \in JobDetail
        /\ Sound(y, mode, page, Newest(j))
        /\ y.call.state = "none"
        /\ y.cache.by = "server"
    BY <1>1, <2>1, <2>2, <2>3, AppliedKeepsSound
  <2> HIDE DEF y
  <2> QED BY <2>4, <2>5, <2>6, <1>1, OneDetail
<1>3. ASSUME CallFails(j) PROVE InspectionInv'
  <2> DEFINE y == Failed(x, rows[j])
  <2>1. x.call.state = "sent"
    BY <1>3 DEF CallFails
  <2>4. detail' = [detail EXCEPT ![j] = y]
    BY <1>3, Zenon DEF CallFails
  <2>5. mode' = mode /\ page' = page /\ rows' = rows /\ selected' = selected /\ srv' = srv
        /\ debounce' = debounce
    BY <1>3 DEF CallFails
  <2> HIDE DEF x
  <2>6. /\ y \in JobDetail
        /\ Sound(y, mode, page, Newest(j))
        /\ y.call.state = "none" /\ y.meta.error
    BY <1>1, <2>1, FailureKeepsSound
  <2> HIDE DEF y
  <2>7. y.call.state # "sent"
    BY <2>6
  <2> QED BY <2>4, <2>5, <2>6, <2>7, <1>1, OneDetail, Zenon
<1>4. ASSUME AbortedCallRejects(j) PROVE InspectionInv'
  <2> DEFINE y == [x EXCEPT !.call = NoCall]
  <2>1. x.call.state = "aborted"
    BY <1>4 DEF AbortedCallRejects
  <2>4. detail' = [detail EXCEPT ![j] = y]
    BY <1>4 DEF AbortedCallRejects
  <2>5. mode' = mode /\ page' = page /\ rows' = rows /\ selected' = selected /\ srv' = srv
        /\ debounce' = debounce
    BY <1>4 DEF AbortedCallRejects
  <2>8. mode = "live" /\ page # "gone" /\ selected = j => x.meta.error \/ x.cache.by = "server"
    <3>1. NoJob # j /\ x.call.state # "sent"
      BY <2>1, InspectionAssumption DEF Jobs
    <3> QED BY <3>1, Zenon DEF InspectionInv, SelectedWasFetched
  <2> HIDE DEF x
  <2>6. /\ y \in JobDetail
        /\ Sound(y, mode, page, Newest(j))
        /\ y.call.state = "none" /\ y.meta = x.meta /\ y.cache = x.cache
    BY <1>1, <2>1, RejectKeepsSound
  <2> HIDE DEF y
  <2>7. y.call.state # "sent"
    BY <2>6
  <2> QED BY <2>4, <2>5, <2>6, <2>7, <2>8, <1>1, OneDetail, Zenon
<1> QED BY <1>2, <1>3, <1>4

\* Steps that leave the details of every job, as far as Sound looks at them.
LEMMA SameDetails ==
  ASSUME InspectionInv, detail' \in [Jobs -> JobDetail],
         \A k \in Jobs :
            /\ detail'[k].sig = detail[k].sig /\ detail'[k].meta = detail[k].meta
            /\ detail'[k].call = detail[k].call
            /\ detail'[k].cache.by = detail[k].cache.by
            /\ detail'[k].cache.rest = detail[k].cache.rest,
         mode' = mode, page' = page, srv' = srv
  PROVE  /\ \A k \in Jobs : Sound(detail'[k], mode', page', Newest(k)')
         /\ FetchedIsLive'
         /\ selected' \in {selected, NoJob} => SelectedWasFetched'
<1>1. ASSUME NEW k \in Jobs
      PROVE  Sound(detail'[k], mode', page', Newest(k)')
  <2>1. Newest(k)' = Newest(k)
    BY DEF Newest
  <2>2. detail[k] \in JobDetail /\ detail'[k] \in JobDetail /\ Sound(detail[k], mode, page, Newest(k))
    BY DEF InspectionInv, InspectionTypeOK
  <2>3. Sound(detail'[k], mode, page, Newest(k))
    BY <2>2, SoundIsAboutParts
  <2> QED BY <2>1, <2>3
<1>2. FetchedIsLive'
  BY DEF FetchedIsLive, InspectionInv, Jobs
<1>3. ASSUME selected' \in {selected, NoJob} PROVE SelectedWasFetched'
  <2>1. ASSUME mode = "live", page # "gone", selected' # NoJob
        PROVE  \/ detail'[selected'].call.state = "sent"
               \/ detail'[selected'].meta.error
               \/ detail'[selected'].cache.by = "server"
    <3>1. selected' = selected /\ selected \in Jobs
      BY <1>3, <2>1 DEF InspectionInv, InspectionTypeOK
    <3>2. \/ detail[selected].call.state = "sent"
          \/ detail[selected].meta.error
          \/ detail[selected].cache.by = "server"
      BY <2>1, <3>1, Zenon DEF InspectionInv, SelectedWasFetched
    <3> QED BY <3>1, <3>2, Zenon
  <2> QED BY <2>1, Zenon DEF SelectedWasFetched
<1> QED BY <1>1, <1>2, <1>3

LEMMA RowsKeepInv ==
  ASSUME InspectionInv
  PROVE  /\ NewRow => InspectionInv'
         /\ \A j \in LiveJobs : RowLeaves(j) => InspectionInv'
         /\ \A j \in LiveJobs, v \in 1..MaxVersion : LateRow(j, v) => InspectionInv'
         /\ \A j \in Jobs : DemoRowChanges(j) => InspectionInv'
<1>0. InspectionTypeOK /\ RowsOfMode
  BY DEF InspectionInv
<1>1. ASSUME NEW j \in Jobs, NEW v \in Nat \ {0},
             NEW rs, rs = [rows EXCEPT ![j] = v], rows' = rs, mode = "live" => j \in LiveJobs,
             detail' = SyncRow(detail, rs, selected),
             UNCHANGED <<mode, page, selected, debounce, srv>>
      PROVE  InspectionInv'
  <2>1. rows' \in [Jobs -> Nat] /\ rs \in [Jobs -> Nat]
    BY <1>0, <1>1 DEF InspectionTypeOK
  <2>0. detail \in [Jobs -> JobDetail] /\ selected \in Jobs \cup {NoJob}
    BY <1>0 DEF InspectionTypeOK
  <2>2. /\ detail' \in [Jobs -> JobDetail]
        /\ \A k \in Jobs :
             /\ detail'[k].sig = detail[k].sig /\ detail'[k].meta = detail[k].meta
             /\ detail'[k].call = detail[k].call
             /\ detail'[k].cache.by = detail[k].cache.by /\ detail'[k].cache.rest = detail[k].cache.rest
    <3> DEFINE ns == SyncRow(detail, rs, selected)
    <3>1. /\ ns \in [Jobs -> JobDetail]
          /\ \A k \in Jobs :
               /\ ns[k].sig = detail[k].sig /\ ns[k].meta = detail[k].meta /\ ns[k].call = detail[k].call
               /\ ns[k].cache.by = detail[k].cache.by /\ ns[k].cache.rest = detail[k].cache.rest
      BY <2>0, <2>1, SyncFields
    <3> HIDE DEF ns
    <3>2. detail' = ns
      BY <1>1 DEF ns
    <3> QED BY <3>1, <3>2
  <2>3. InspectionTypeOK'
    BY <1>0, <1>1, <2>1, <2>2 DEF InspectionTypeOK
  <2>4. RowsOfMode'
    <3>1. \A k \in Jobs : rows'[k] = IF k = j THEN v ELSE rows[k]
      BY <1>0, <1>1 DEF InspectionTypeOK
    <3> QED BY <1>0, <1>1, <3>1, InspectionAssumption DEF RowsOfMode, InspectionTypeOK, Jobs
  <2>5. selected' \in {selected, NoJob} /\ mode' = mode /\ page' = page /\ srv' = srv
    BY <1>1
  <2>6. /\ \A k \in Jobs : Sound(detail'[k], mode', page', Newest(k)')
        /\ FetchedIsLive' /\ SelectedWasFetched'
    BY <2>2, <2>5, SameDetails
  <2> QED BY <2>3, <2>4, <2>6 DEF InspectionInv
<1>2. ASSUME NewRow PROVE InspectionInv'
  <2>1. PICK j \in LiveJobs, v \in 1..MaxVersion : RowArrives(j, v)
    BY <1>2 DEF NewRow
  <2>2. j \in Jobs /\ v \in Nat \ {0}
    BY InspectionAssumption DEF Jobs
  <2> DEFINE rs == [rows EXCEPT ![j] = v]
  <2>3. rows' = rs /\ detail' = SyncRow(detail, rs, selected)
    BY <2>1 DEF RowArrives
  <2> QED BY <1>1, <2>1, <2>2, <2>3 DEF RowArrives
<1>3. ASSUME NEW j \in Jobs, DemoRowChanges(j) PROVE InspectionInv'
  <2>1. rows[j] + 1 \in Nat \ {0} /\ mode # "live"
    BY <1>0, <1>3 DEF DemoRowChanges, InspectionTypeOK
  <2> DEFINE rs == [rows EXCEPT ![j] = rows[j] + 1]
  <2>2. rows' = rs /\ detail' = SyncRow(detail, rs, selected)
    BY <1>3 DEF DemoRowChanges
  <2> QED BY <1>1, <1>3, <2>1, <2>2 DEF DemoRowChanges
<1>4. ASSUME NEW j \in LiveJobs, RowLeaves(j) PROVE InspectionInv'
  <2>1. /\ detail' = detail /\ mode' = mode /\ page' = page /\ srv' = srv
        /\ selected' \in {selected, NoJob}
    BY <1>4 DEF RowLeaves
  <2>2. /\ \A k \in Jobs : Sound(detail'[k], mode', page', Newest(k)')
        /\ FetchedIsLive' /\ SelectedWasFetched'
    BY <1>0, <2>1, SameDetails DEF InspectionTypeOK
  <2>3. InspectionTypeOK'
    BY <1>0, <1>4 DEF InspectionTypeOK, RowLeaves
  <2>4. RowsOfMode'
    <3>1. \A k \in Jobs : rows'[k] = IF k = j THEN 0 ELSE rows[k]
      BY <1>0, <1>4 DEF InspectionTypeOK, RowLeaves
    <3>2. selected' # NoJob => selected' = selected /\ selected # j
      BY <1>4 DEF RowLeaves
    <3> QED BY <1>0, <2>1, <3>1, <3>2 DEF RowsOfMode, InspectionTypeOK, Jobs
  <2> QED BY <2>2, <2>3, <2>4 DEF InspectionInv
<1>5. ASSUME NEW j \in LiveJobs, NEW v \in 1..MaxVersion, LateRow(j, v) PROVE InspectionInv'
  <2>1. j \in Jobs /\ v \in Nat \ {0}
    BY InspectionAssumption DEF Jobs
  <2> DEFINE rs == [rows EXCEPT ![j] = v]
  <2>2. rows' = rs /\ detail' = SyncRow(detail, rs, selected)
    BY <1>5 DEF LateRow
  <2> QED BY <1>1, <1>5, <2>1, <2>2 DEF LateRow
<1> QED BY <1>2, <1>3, <1>4, <1>5

LEMMA SelectKeepsInv ==
  ASSUME InspectionInv, NEW j \in Jobs \cup {NoJob}, SelectJob(j)
  PROVE  InspectionInv'
<1>0. /\ InspectionTypeOK /\ RowsOfMode
      /\ mode' = mode /\ page' = page /\ rows' = rows /\ srv' = srv /\ debounce' = debounce
      /\ selected' = j
  BY DEF InspectionInv, SelectJob
<1>1. RowsOfMode'
  BY <1>0 DEF RowsOfMode, SelectJob
<1>2. CASE j = NoJob
  <2>1. detail' = detail
    BY <1>2 DEF SelectJob
  <2>2. /\ \A k \in Jobs : Sound(detail'[k], mode', page', Newest(k)')
        /\ FetchedIsLive' /\ SelectedWasFetched'
    BY <1>0, <1>2, <2>1, SameDetails DEF InspectionTypeOK
  <2>3. InspectionTypeOK'
    BY <1>0, <2>1 DEF InspectionTypeOK
  <2> QED BY <1>1, <2>2, <2>3 DEF InspectionInv
<1>3. CASE j # NoJob
  <2> DEFINE x == detail[j]
             y == RefreshInspection(x, j)
             ds == [detail EXCEPT ![j] = y]
             ns == SyncRow(ds, rows, j)
  <2>1. /\ j \in Jobs /\ rows[j] # 0 /\ page # "gone" /\ Calm
        /\ x \in JobDetail /\ x.call.state # "aborted"
        /\ Sound(x, mode, page, Newest(j))
    BY <1>3, CalmCalls DEF SelectJob, Task, InspectionInv
  <2>2. mode = "live" => j \in LiveJobs
    BY <2>1, ListedIsLive
  <2>3. /\ Sound(y, mode, page, Newest(j))
        /\ mode = "live" => y.call.state = "sent"
        /\ mode = "demo" => y.call.state = x.call.state
    BY <1>0, <2>1, <2>2, RefreshKeepsSound
  <2>4. y \in JobDetail
    BY <1>0, <2>1, <2>2, RefreshFields DEF InspectionTypeOK
  <2>5. detail' = ns
    BY <1>3 DEF SelectJob
  <2>6. rows \in [Jobs -> Nat] /\ detail \in [Jobs -> JobDetail] /\ mode \in {"live", "demo"}
    BY <1>0 DEF InspectionTypeOK
  <2>7. \A k \in DemoJobs : detail[k].call.state # "sent"
    BY DEF InspectionInv, FetchedIsLive
  <2> HIDE DEF x, y
  <2>8. ds \in [Jobs -> JobDetail] /\ \A k \in Jobs : ds[k] = IF k = j THEN y ELSE detail[k]
    BY <2>4, <2>6
  <2> HIDE DEF ds
  <2>9. /\ ns \in [Jobs -> JobDetail]
        /\ \A k \in Jobs :
             /\ ns[k].sig = ds[k].sig /\ ns[k].meta = ds[k].meta /\ ns[k].call = ds[k].call
             /\ ns[k].cache.by = ds[k].cache.by /\ ns[k].cache.rest = ds[k].cache.rest
    BY <2>1, <2>6, <2>8, SyncFields
  <2> HIDE DEF ns
  <2>10. \A k \in Jobs : Newest(k)' = Newest(k)
    BY <1>0 DEF Newest
  <2>11. \A k \in Jobs : Sound(ds[k], mode, page, Newest(k))
    BY <2>3, <2>8, Zenon DEF InspectionInv
  <2>12. \A k \in Jobs : Sound(ns[k], mode, page, Newest(k))
    BY <2>8, <2>9, <2>11, SoundIsAboutParts
  <2>13. \A k \in Jobs : Sound(detail'[k], mode', page', Newest(k)')
    BY <2>5, <2>10, <2>12, <1>0, Zenon
  <2>14. FetchedIsLive'
    <3>1. ASSUME NEW k \in DemoJobs PROVE ns[k].call.state # "sent"
      <4>1. k \in Jobs /\ k \notin LiveJobs
        BY InspectionAssumption DEF Jobs
      <4>2. k = j => mode = "demo"
        BY <4>1, <2>2, <2>6
      <4> QED BY <4>1, <4>2, <2>3, <2>7, <2>8, <2>9 DEF x
    <3> QED BY <3>1, <2>5 DEF FetchedIsLive
  <2>15. SelectedWasFetched'
    <3>1. mode = "live" => ns[j].call.state = "sent"
      BY <2>1, <2>3, <2>8, <2>9
    <3> QED BY <3>1, <2>5, <1>0, Zenon DEF SelectedWasFetched
  <2>16. InspectionTypeOK'
    BY <1>0, <2>5, <2>9 DEF InspectionTypeOK
  <2> QED BY <1>1, <2>13, <2>14, <2>15, <2>16 DEF InspectionInv
<1> QED BY <1>2, <1>3

LEMMA PageKeepsInv ==
  ASSUME InspectionInv
  PROVE  /\ EventArrives => InspectionInv'
         /\ SwitchMode => InspectionInv'
         /\ ChangeView => InspectionInv'
         /\ Unmount => InspectionInv'
         /\ \A j \in LiveJobs : ServerChanges(j) => InspectionInv'
<1>0. /\ InspectionTypeOK /\ RowsOfMode /\ FetchedIsLive
      /\ detail \in [Jobs -> JobDetail]
      /\ \A k \in Jobs : detail[k] \in JobDetail /\ Sound(detail[k], mode, page, Newest(k))
  BY DEF InspectionInv, InspectionTypeOK
<1>1. ASSUME EventArrives PROVE InspectionInv'
  <2>1. selected \in LiveJobs
    BY <1>0, <1>1, ListedIsLive DEF EventArrives, InspectionTypeOK, RowsOfMode
  <2>2. /\ detail' = detail /\ mode' = mode /\ page' = page /\ srv' = srv
        /\ selected' = selected /\ rows' = rows
    BY <1>1 DEF EventArrives
  <2>3. /\ \A k \in Jobs : Sound(detail'[k], mode', page', Newest(k)')
        /\ FetchedIsLive' /\ SelectedWasFetched'
    BY <1>0, <2>2, SameDetails
  <2>4. InspectionTypeOK'
    BY <1>0, <1>1, <2>1, <2>2 DEF InspectionTypeOK, EventArrives
  <2>5. RowsOfMode'
    BY <1>0, <2>2 DEF RowsOfMode
  <2> QED BY <2>3, <2>4, <2>5 DEF InspectionInv
<1>2. ASSUME SwitchMode PROVE InspectionInv'
  <2>1. /\ mode' \in {"live", "demo"} /\ page' = page /\ srv' = srv
        /\ rows' = Listed(mode') /\ selected' = NoJob /\ debounce' = {}
        /\ detail' = [j \in Jobs |-> SwitchDetail(detail[j])]
    BY <1>2 DEF SwitchMode
  <2>2. ASSUME NEW k \in Jobs
        PROVE  /\ detail'[k] \in JobDetail /\ detail'[k].call.state # "sent"
               /\ Sound(detail'[k], mode', page', Newest(k)')
    <3>1. detail'[k] = SwitchDetail(detail[k])
      BY <2>1
    <3> QED BY <1>0, <3>1, SwitchKeepsSound
  <2>3. rows' \in [Jobs -> Nat]
    BY <2>1 DEF Listed
  <2>4. InspectionTypeOK'
    BY <1>0, <2>1, <2>2, <2>3 DEF InspectionTypeOK
  <2>5. RowsOfMode'
    BY <2>1 DEF RowsOfMode, Listed, Jobs
  <2>6. FetchedIsLive' /\ SelectedWasFetched'
    BY <2>1, <2>2 DEF FetchedIsLive, SelectedWasFetched, Jobs
  <2> QED BY <2>2, <2>4, <2>5, <2>6 DEF InspectionInv
<1>3. ASSUME ChangeView PROVE InspectionInv'
  <2>1. /\ mode' = mode /\ page # "gone" /\ page' # "gone" /\ srv' = srv /\ rows' = rows
        /\ page' \in {"visible", "hidden", "gone"}
        /\ selected' = selected /\ debounce' = debounce /\ detail' = detail
    BY <1>0, <1>3 DEF ChangeView, Task, InspectionTypeOK
  <2>2. \A k \in Jobs : Newest(k)' = Newest(k)
    BY <2>1 DEF Newest
  <2>3. \A k \in Jobs : Sound(detail'[k], mode', page', Newest(k)')
    BY <1>0, <2>1, <2>2, Zenon DEF Sound, CallIsShown
  <2>4. InspectionTypeOK' /\ RowsOfMode' /\ FetchedIsLive'
    BY <1>0, <2>1 DEF InspectionTypeOK, RowsOfMode, FetchedIsLive
  <2>5. SelectedWasFetched'
    BY <2>1, Zenon DEF SelectedWasFetched, InspectionInv
  <2> QED BY <2>3, <2>4, <2>5 DEF InspectionInv
<1>4. ASSUME Unmount PROVE InspectionInv'
  <2>1. /\ mode' = mode /\ page' = "gone" /\ srv' = srv /\ rows' = rows
        /\ selected' = selected /\ debounce' = {}
        /\ detail' = [j \in Jobs |-> [detail[j] EXCEPT !.call.state = IF @ = "sent" THEN "aborted" ELSE @]]
    BY <1>4 DEF Unmount
  <2>2. ASSUME NEW k \in Jobs
        PROVE  /\ detail'[k] \in JobDetail /\ detail'[k].call.state # "sent"
               /\ Sound(detail'[k], mode', page', Newest(k)')
    <3>1. detail'[k] = [detail[k] EXCEPT !.call.state = IF @ = "sent" THEN "aborted" ELSE @]
      BY <2>1
    <3>2. Newest(k)' = Newest(k)
      BY <2>1 DEF Newest
    <3> DEFINE x == detail[k]
               y == [x EXCEPT !.call.state = IF @ = "sent" THEN "aborted" ELSE @]
    <3>3. x \in JobDetail /\ Sound(x, mode, page, Newest(k))
      BY <1>0 DEF InspectionTypeOK, InspectionInv
    <3> HIDE DEF x
    <3>4. y \in JobDetail /\ Sound(y, mode, "gone", Newest(k)) /\ y.call.state # "sent"
      BY <3>3, UnmountKeepsSound
    <3>5. detail'[k] = y
      BY <3>1 DEF x
    <3> HIDE DEF y
    <3> QED BY <2>1, <3>2, <3>4, <3>5
  <2>4. InspectionTypeOK'
    BY <1>0, <2>1, <2>2 DEF InspectionTypeOK
  <2>5. RowsOfMode'
    BY <1>0, <2>1 DEF RowsOfMode
  <2>6. FetchedIsLive' /\ SelectedWasFetched'
    BY <2>1, <2>2 DEF FetchedIsLive, SelectedWasFetched, Jobs
  <2> QED BY <2>2, <2>4, <2>5, <2>6 DEF InspectionInv
<1>5. ASSUME NEW j \in LiveJobs, ServerChanges(j) PROVE InspectionInv'
  <2>1. /\ mode' = mode /\ page' = page /\ rows' = rows /\ selected' = selected
        /\ debounce' = debounce /\ detail' = detail
        /\ srv' = [srv EXCEPT ![j] = @ + 1]
    BY <1>5 DEF ServerChanges
  <2>2. srv' \in [LiveJobs -> Nat] /\ \A k \in LiveJobs : srv[k] <= srv'[k] /\ srv[k] \in Nat
    BY <1>0, <2>1 DEF InspectionTypeOK
  <2>3. ASSUME NEW k \in Jobs
        PROVE  Sound(detail'[k], mode', page', Newest(k)')
    <3>1. Newest(k) \in Nat /\ Newest(k)' \in Nat /\ Newest(k) <= Newest(k)'
      BY <2>2 DEF Newest
    <3>2. detail[k].cache.rest \in Nat
      BY <1>0 DEF JobDetail, Detail
    <3>3. CacheIsOlder(detail[k], Newest(k)')
      BY <1>0, <3>1, <3>2 DEF Sound, CacheIsOlder
    <3> QED BY <1>0, <2>1, <3>3, Zenon DEF Sound
  <2>4. InspectionTypeOK' /\ RowsOfMode' /\ FetchedIsLive'
    BY <1>0, <2>1, <2>2 DEF InspectionTypeOK, RowsOfMode, FetchedIsLive
  <2>5. SelectedWasFetched'
    BY <2>1, Zenon DEF SelectedWasFetched, InspectionInv
  <2> QED BY <2>3, <2>4, <2>5 DEF InspectionInv
<1> QED BY <1>1, <1>2, <1>3, <1>4, <1>5

-----------------------------------------------------------------------------
(* The theorems.                                                           *)

LEMMA InspectionInitially == Init => InspectionInv
<1> SUFFICES ASSUME Init PROVE InspectionInv
  OBVIOUS
<1>1. PICK i \in Jobs \cup {NoJob} : Linked(i)
  BY DEF Init
<1>2. /\ mode \in {"live", "demo"} /\ page \in {"visible", "hidden"}
      /\ rows \in [Jobs -> Nat] /\ srv \in [LiveJobs -> Nat] /\ debounce = {}
      /\ \A j \in Jobs : mode = "live" \/ j \notin DemoJobs => rows[j] = 0
  BY DEF Init, Listed
<1>3. ASSUME NEW j \in Jobs
      PROVE  /\ detail[j] \in JobDetail
             /\ Sound(detail[j], mode, page, Newest(j))
             /\ j \in DemoJobs => detail[j].call.state # "sent"
  <2>0. /\ Sound(NoDetail, mode, page, Newest(j))
        /\ NoDetail.call.state = "none"
    <3>1. None.by # "server" /\ NoCall.state # "sent"
      BY Parts
    <3> QED BY <3>1, Parts, Zenon DEF Sound, CallIsShown, SignatureHasCache, CacheIsOlder
  <2>1. CASE j # i
    BY <1>1, <2>0, <2>1, Parts DEF Linked
  <2>2. CASE j = i
    <3> DEFINE y == RefreshInspection(NoDetail, j)
    <3>1. detail[j] = y /\ (mode = "live" => j \in LiveJobs)
      BY <1>1, <2>2 DEF Linked, Jobs
    <3>2. /\ y \in JobDetail
          /\ y.cache.by # "server"
          /\ y.sig = None \/ y.sig = y.cache
          /\ mode = "demo" => y.call = NoCall /\ ~y.meta.busy
          /\ mode = "live" => y.meta.busy /\ y.call.state = "sent" /\ y.call.prev = None
      BY <1>2, <3>1, <2>0, Parts, RefreshFields
    <3> HIDE DEF y
    <3>3. y.sig.by # "server" /\ None.by # "server" /\ NoCall.state = "none"
      BY <3>2, Parts
    <3>4. Sound(y, mode, page, Newest(j))
      BY <1>2, <3>2, <3>3, Zenon DEF Sound, CallIsShown, SignatureHasCache, CacheIsOlder
    <3>5. j \in DemoJobs => y.call.state # "sent"
      BY <1>2, <3>1, <3>2, <3>3, InspectionAssumption
    <3> QED BY <3>1, <3>2, <3>4, <3>5
  <2> QED BY <2>1, <2>2
<1>4. detail \in [Jobs -> JobDetail]
  BY <1>1, <1>3 DEF Linked
<1>5. selected \in Jobs \cup {NoJob} /\ (selected # NoJob => rows[selected] # 0)
  BY <1>1 DEF Linked
<1>6. InspectionTypeOK /\ RowsOfMode
  BY <1>2, <1>4, <1>5 DEF InspectionTypeOK, RowsOfMode, Jobs
<1>7. FetchedIsLive
  BY <1>3 DEF FetchedIsLive, Jobs
<1>8. SelectedWasFetched
  <2>1. mode = "live" => selected = NoJob
    BY <1>2, <1>5
  <2> QED BY <2>1 DEF SelectedWasFetched
<1> QED BY <1>3, <1>6, <1>7, <1>8 DEF InspectionInv

LEMMA InspectionInvStep == InspectionInv /\ [Next]_vars => InspectionInv'
<1> SUFFICES ASSUME InspectionInv, [Next]_vars PROVE InspectionInv'
  OBVIOUS
<1>1. CASE \E j \in Jobs \cup {NoJob} : SelectJob(j)
  BY <1>1, SelectKeepsInv
<1>2. CASE IntervalFires
  BY <1>2, TimersKeepInv
<1>3. CASE EventArrives \/ SwitchMode \/ ChangeView \/ Unmount
  BY <1>3, PageKeepsInv
<1>4. CASE NewRow
  BY <1>4, RowsKeepInv
<1>5. CASE Answer \/ Reject
  BY <1>5, CallsKeepInv DEF Answer, Reject
<1>6. CASE \E j \in Jobs : DebounceFires(j) \/ CallFails(j)
  BY <1>6, CallsKeepInv, TimersKeepInv
<1>7. CASE \E j \in LiveJobs : RowLeaves(j) \/ ServerChanges(j)
  BY <1>7, RowsKeepInv, PageKeepsInv
<1>8. CASE \/ \E j \in LiveJobs, v \in 1..MaxVersion : LateRow(j, v)
           \/ \E j \in Jobs : DemoRowChanges(j)
  BY <1>8, RowsKeepInv
<1>9. CASE UNCHANGED vars
  <2>1. /\ mode' = mode /\ page' = page /\ rows' = rows /\ selected' = selected
        /\ detail' = detail /\ debounce' = debounce /\ srv' = srv
    BY <1>9 DEF vars
  <2>2. \A k \in Jobs : Sound(detail'[k], mode', page', Newest(k)')
    BY <2>1, SameDetails DEF InspectionInv, InspectionTypeOK
  <2>3. InspectionTypeOK' /\ RowsOfMode' /\ FetchedIsLive'
    BY <2>1 DEF InspectionInv, InspectionTypeOK, RowsOfMode, FetchedIsLive
  <2>4. SelectedWasFetched'
    BY <2>1, Zenon DEF InspectionInv, SelectedWasFetched
  <2> QED BY <2>2, <2>3, <2>4 DEF InspectionInv
<1> QED BY <1>1, <1>2, <1>3, <1>4, <1>5, <1>6, <1>7, <1>8, <1>9 DEF Next

(***************************************************************************)
(* What refreshInspection and the effects around it leave behind, in every *)
(* interleaving of the drawer, its timers, the mode switch and the         *)
(* answers, is sound.                                                      *)
(***************************************************************************)
THEOREM InspectionInvariant == Spec => []InspectionInv
<1>1. Init => InspectionInv
  BY InspectionInitially
<1>2. InspectionInv /\ [Next]_vars => InspectionInv'
  BY InspectionInvStep
<1> QED BY <1>1, <1>2, PTL DEF Spec

(***************************************************************************)
(* The drawer of the selected job says "updating" exactly while its fetch  *)
(* is in flight and "in sync" only of the server's details, for any number *)
(* of jobs and any sequence of selections, switches and failures.          *)
(***************************************************************************)
THEOREM DrawerTellsTheTruth == Spec => []DrawerIsTrue
<1>1. InspectionInv => DrawerIsTrue
  <2> SUFFICES ASSUME InspectionInv PROVE DrawerIsTrue
    OBVIOUS
  <2>1. ASSUME mode = "live", page # "gone", selected # NoJob
        PROVE  LET x == detail[selected]
               IN  /\ x.meta.busy <=> x.call.state = "sent"
                   /\ x.meta.busy \/ x.meta.error \/ x.cache.by = "server"
    <3>1. selected \in Jobs
      BY <2>1 DEF InspectionInv, InspectionTypeOK
    <3>2. CallIsShown(detail[selected], mode, page)
      BY <3>1, Zenon DEF InspectionInv, Sound
    <3> QED BY <2>1, <3>2, Zenon DEF InspectionInv, SelectedWasFetched, CallIsShown
  <2>2. ASSUME mode = "demo", NEW j \in Jobs
        PROVE  detail[j].cache.by # "server" /\ ~detail[j].meta.busy
    BY <2>2, Zenon DEF InspectionInv, Sound, SignatureHasCache, CallIsShown
  <2> QED BY <2>1, <2>2, Zenon DEF DrawerIsTrue
<1> QED BY <1>1, InspectionInvariant, PTL

\* While the mode stays, the server's details in the cache give way only to the
\* server's, and their rest to an empty or a newer one.
LEMMA ServersDetailsStay ==
  ASSUME InspectionInv, Next, mode' = mode, NEW j \in Jobs, detail[j].cache.by = "server"
  PROVE  /\ detail'[j].cache.by = "server"
         /\ detail'[j].cache.rest = 0 \/ detail'[j].cache.rest >= detail[j].cache.rest
<1> DEFINE P == /\ detail'[j].cache.by = "server"
                /\ detail'[j].cache.rest = 0 \/ detail'[j].cache.rest >= detail[j].cache.rest
<1> SUFFICES P
  OBVIOUS
<1>0. /\ InspectionTypeOK /\ detail \in [Jobs -> JobDetail] /\ rows \in [Jobs -> Nat]
      /\ detail[j].cache # None /\ detail[j].cache.rest \in Nat
      /\ detail[j].call.v \in Nat
      /\ \A k \in Jobs : detail[k] \in JobDetail /\ Sound(detail[k], mode, page, Newest(k))
  BY Parts DEF InspectionInv, InspectionTypeOK, JobDetail, Detail, Calls
<1>1. ASSUME detail'[j].cache.by = detail[j].cache.by, detail'[j].cache.rest = detail[j].cache.rest
      PROVE  P
  BY <1>0, <1>1
<1>2. ASSUME NEW k \in Jobs, mode = "live" => k \in LiveJobs,
             NEW ds, ds = [detail EXCEPT ![k] = RefreshInspection(@, k)]
      PROVE  ds \in [Jobs -> JobDetail] /\ ds[j].cache = detail[j].cache
  <2> DEFINE y == RefreshInspection(detail[k], k)
  <2>1. y \in JobDetail /\ (detail[k].cache # None => y.cache = detail[k].cache)
    BY <1>0, <1>2, RefreshFields DEF InspectionTypeOK
  <2> HIDE DEF y
  <2>2. ds = [detail EXCEPT ![k] = y]
    BY <1>2 DEF y
  <2> QED BY <1>0, <2>1, <2>2
<1>3. ASSUME NEW ds \in [Jobs -> JobDetail], NEW rs \in [Jobs -> Nat], NEW sel \in Jobs \cup {NoJob},
             ds[j].cache = detail[j].cache, detail' = SyncRow(ds, rs, sel)
      PROVE  P
  <2> DEFINE ns == SyncRow(ds, rs, sel)
  <2>1. ns[j].cache.by = ds[j].cache.by /\ ns[j].cache.rest = ds[j].cache.rest
    BY SyncFields
  <2> HIDE DEF ns
  <2>2. detail' = ns
    BY <1>3 DEF ns
  <2> QED BY <1>1, <1>3, <2>1, <2>2
<1>4. ASSUME NEW k \in Jobs \cup {NoJob}, SelectJob(k) PROVE P
  <2>1. CASE k = NoJob
    BY <1>1, <1>4, <2>1 DEF SelectJob
  <2>2. CASE k # NoJob
    <3> DEFINE ds == [detail EXCEPT ![k] = RefreshInspection(@, k)]
    <3>1. k \in Jobs /\ (mode = "live" => k \in LiveJobs)
      BY <1>4, <2>2, ListedIsLive DEF SelectJob
    <3>2. ds \in [Jobs -> JobDetail] /\ ds[j].cache = detail[j].cache
      BY <1>2, <3>1
    <3>3. detail' = SyncRow(ds, rows, k)
      BY <1>4, <2>2 DEF SelectJob
    <3> HIDE DEF ds, P
    <3> QED BY <1>0, <1>3, <3>1, <3>2, <3>3
  <2> QED BY <2>1, <2>2
<1>5. ASSUME NEW k \in LiveJobs, detail' = [detail EXCEPT ![k] = RefreshInspection(@, k)] PROVE P
  <2> DEFINE ds == [detail EXCEPT ![k] = RefreshInspection(@, k)]
  <2>1. k \in Jobs
    BY DEF Jobs
  <2>2. ds[j].cache = detail[j].cache
    BY <1>2, <2>1
  <2> QED BY <1>1, <1>5, <2>2
<1>6. CASE IntervalFires
  <2>1. selected \in LiveJobs
    BY <1>6, ListedIsLive DEF IntervalFires, DrawerRefreshes, InspectionInv, InspectionTypeOK, RowsOfMode
  <2> QED BY <1>5, <1>6, <2>1 DEF IntervalFires
<1>7. ASSUME NEW k \in Jobs, DebounceFires(k) PROVE P
  <2>1. k \in LiveJobs
    BY <1>7 DEF DebounceFires, InspectionInv, InspectionTypeOK
  <2> QED BY <1>5, <1>7, <2>1 DEF DebounceFires
<1>8. ASSUME NEW k \in Jobs, NEW v \in 0..MaxVersion, NEW w \in 0..MaxVersion, CallSucceeds(k, v, w)
      PROVE  P
  <2> DEFINE a == Details(v, w, "server")
             x == detail[k]
             y == Applied(x, a)
  <2>1. detail' = [detail EXCEPT ![k] = y] /\ x.call.state = "sent" /\ x.call.v <= v /\ (v <= w \/ w = 0)
    BY <1>8 DEF CallSucceeds
  <2>2. k \in LiveJobs
    BY <2>1 DEF InspectionInv, FetchedIsLive, Jobs
  <2>3. Newest(k) \in Nat /\ w <= Newest(k)
    BY <2>2, <1>8, <1>0 DEF CallSucceeds, Newest, InspectionTypeOK
  <2>4. a \in Detail /\ a.by = "server" /\ a.rest = w
    BY SMT DEF Details, Detail
  <2>5. CASE k # j
    BY <1>0, <1>1, <2>1, <2>5
  <2>6. CASE k = j
    <3>1. x \in JobDetail /\ Sound(x, mode, page, Newest(k)) /\ detail'[j] = y
      BY <1>0, <2>1, <2>6
    <3>2. x.cache.rest <= x.call.v
      BY <3>1, <2>1, <2>6 DEF Sound, CacheIsOlder
    <3> HIDE DEF x, a
    <3>3. y.cache.by = "server" /\ (y.cache = x.cache \/ y.cache = a)
      BY <2>1, <2>3, <2>4, <3>1, AppliedKeepsSound
    <3>4. x.cache.rest \in Nat /\ x.call.v \in Nat
      BY <1>0, <2>6 DEF x
    <3>5. y.cache.rest = 0 \/ y.cache.rest >= x.cache.rest
      BY <2>1, <2>4, <3>2, <3>3, <3>4
    <3> QED BY <3>1, <3>3, <3>5, <2>6 DEF x
  <2> QED BY <2>5, <2>6
<1>9. ASSUME NEW k \in Jobs, CallFails(k) PROVE P
  <2> DEFINE y == Failed(detail[k], rows[k])
  <2>1. detail' = [detail EXCEPT ![k] = y] /\ detail[k].call.state = "sent"
    BY <1>9 DEF CallFails
  <2>2. detail[k].cache # None => y.cache = detail[k].cache
    BY <1>0, <2>1, FailureKeepsSound
  <2> HIDE DEF y
  <2> QED BY <1>0, <1>1, <2>1, <2>2
<1>10. ASSUME NEW k \in Jobs, AbortedCallRejects(k) PROVE P
  <2> DEFINE y == [detail[k] EXCEPT !.call = NoCall]
  <2>1. detail' = [detail EXCEPT ![k] = y] /\ detail[k].call.state = "aborted"
    BY <1>10 DEF AbortedCallRejects
  <2>2. y.cache = detail[k].cache
    BY <1>0, <2>1, RejectKeepsSound
  <2> HIDE DEF y
  <2> QED BY <1>0, <1>1, <2>1, <2>2
<1>11. CASE Unmount
  <2>1. detail'[j] = [detail[j] EXCEPT !.call.state = IF @ = "sent" THEN "aborted" ELSE @]
    BY <1>11 DEF Unmount
  <2>2. detail'[j].cache = detail[j].cache
    BY <1>0, <2>1, UnmountKeepsSound
  <2> QED BY <1>1, <2>2
<1>12. CASE SwitchMode
  BY <1>12, <1>0 DEF SwitchMode, InspectionTypeOK
<1>13. CASE EventArrives \/ ChangeView \/ \E k \in LiveJobs : RowLeaves(k) \/ ServerChanges(k)
  <2>1. detail' = detail
    BY <1>13 DEF EventArrives, ChangeView, RowLeaves, ServerChanges
  <2> QED BY <1>1, <2>1
<1>14. ASSUME NEW k \in Jobs, NEW v \in Nat, rows' = [rows EXCEPT ![k] = v],
              detail' = SyncRow(detail, rows', selected)
       PROVE  P
  <2> DEFINE rs == [rows EXCEPT ![k] = v]
  <2>1. rs \in [Jobs -> Nat] /\ selected \in Jobs \cup {NoJob}
    BY <1>0 DEF InspectionTypeOK
  <2>2. detail' = SyncRow(detail, rs, selected)
    BY <1>14
  <2> HIDE DEF rs, P
  <2> QED BY <1>0, <1>3, <2>1, <2>2
<1>15. CASE NewRow
  <2>1. PICK k \in LiveJobs, v \in 1..MaxVersion : RowArrives(k, v)
    BY <1>15 DEF NewRow
  <2>2. k \in Jobs /\ v \in Nat
    BY DEF Jobs
  <2>3. rows' = [rows EXCEPT ![k] = v] /\ detail' = SyncRow(detail, rows', selected)
    BY <2>1 DEF RowArrives
  <2> HIDE DEF P
  <2> QED BY <1>14, <2>2, <2>3
<1>16. ASSUME NEW k \in Jobs, DemoRowChanges(k) PROVE P
  <2>1. rows[k] + 1 \in Nat
    BY <1>0
  <2>2. rows' = [rows EXCEPT ![k] = rows[k] + 1]
    BY <1>16 DEF DemoRowChanges
  <2> QED BY <1>14, <1>16, <2>1, <2>2 DEF DemoRowChanges
<1> HIDE DEF P
<1>17. CASE \E k \in Jobs \cup {NoJob} : SelectJob(k)
  BY <1>4, <1>17
<1>18. CASE Answer
  BY <1>8, <1>18 DEF Answer
<1>19. CASE Reject
  BY <1>10, <1>19 DEF Reject
<1>20. CASE \E k \in Jobs : DebounceFires(k) \/ CallFails(k)
  BY <1>7, <1>9, <1>20
<1>21. CASE \E k \in Jobs : DemoRowChanges(k)
  BY <1>16, <1>21
<1>22. CASE \E k \in LiveJobs, v \in 1..MaxVersion : LateRow(k, v)
  <2>1. PICK k \in LiveJobs, v \in 1..MaxVersion : LateRow(k, v)
    BY <1>22
  <2>2. k \in Jobs /\ v \in Nat
    BY DEF Jobs
  <2>3. rows' = [rows EXCEPT ![k] = v] /\ detail' = SyncRow(detail, rows', selected)
    BY <2>1 DEF LateRow
  <2> QED BY <1>14, <2>2, <2>3
<1> QED BY <1>6, <1>11, <1>12, <1>13, <1>15, <1>17, <1>18, <1>19, <1>20, <1>21, <1>22, Zenon DEF Next

\* What the drawer shows of a listed job: the row, and the rest of the cache.
Shown(x, row) == [GetInspection(x, row) EXCEPT !.job = row]

LEMMA ShownParts ==
  ASSUME NEW x \in JobDetail, NEW row \in Nat \ {0}
  PROVE  /\ Shown(x, row).by = "server" => x.cache.by = "server"
         /\ x.cache.by = "server" => Shown(x, row).by = "server" /\ Shown(x, row).rest = x.cache.rest
<1> DEFINE g == GetInspection(x, row)
           d == Shown(x, row)
<1>1. x.cache \in Detail
  BY DEF JobDetail
<1>2. g \in Detail /\ (x.cache # None => g = x.cache) /\ (x.cache = None => g.by = "console")
  BY <1>1, SMT DEF GetInspection, CreateInspectionFallback, Details, Detail
<1> HIDE DEF g
<1>3. d.by = g.by /\ d.rest = g.rest
  BY <1>2, SMT DEF Detail, g, Shown
<1> QED BY <1>2, <1>3, Parts

(***************************************************************************)
(* A failed, joined, aborted or late fetch never takes the drawer back to  *)
(* older or made up details, for any number of jobs and versions and       *)
(* whichever rows the answers of commands put in.                          *)
(***************************************************************************)
THEOREM DrawerNeverGoesBack == Spec => DetailsNeverGoBack
<1> DEFINE Back(j) ==
      LET old == SelectedInspection(j)
          new == SelectedInspection(j)'
      IN  mode' = mode /\ rows[j] # 0 /\ rows'[j] # 0 /\ old.by = "server" =>
            /\ new.by = "server"
            /\ new.rest # 0 => new.rest >= old.rest
<1>1. ASSUME InspectionInv, InspectionInv', Next, NEW j \in LiveJobs PROVE Back(j)
  <2> DEFINE old == SelectedInspection(j)
             new == SelectedInspection(j)'
  <2> SUFFICES ASSUME mode' = mode, rows[j] # 0, rows'[j] # 0, old.by = "server"
               PROVE  new.by = "server" /\ (new.rest # 0 => new.rest >= old.rest)
    OBVIOUS
  <2>1. j \in Jobs
    BY DEF Jobs
  <2>2. detail[j] \in JobDetail /\ detail'[j] \in JobDetail
    BY <1>1, <2>1 DEF InspectionInv, InspectionTypeOK
  <2>3. rows[j] \in Nat \ {0} /\ rows'[j] \in Nat \ {0}
    BY <1>1, <2>1 DEF InspectionInv, InspectionTypeOK
  <2>4. old = Shown(detail[j], rows[j])
    BY DEF SelectedInspection, Shown
  <2>5. ASSUME NEW x, x = detail'[j], NEW row, row = rows'[j]
        PROVE  new = Shown(x, row)
    BY <2>5 DEF SelectedInspection, GetInspection, Shown
  <2> HIDE DEF old, new
  <2>6. detail[j].cache.by = "server" /\ old.rest = detail[j].cache.rest
    BY <2>2, <2>3, <2>4, ShownParts
  <2>7. ASSUME NEW x, x = detail'[j], NEW row, row = rows'[j], x.cache.by = "server"
        PROVE  new.by = "server" /\ new.rest = x.cache.rest
    <3>1. new = Shown(x, row)
      BY <2>5, <2>7
    <3>2. x \in JobDetail /\ row \in Nat \ {0}
      BY <2>2, <2>3, <2>7
    <3> QED BY <2>7, <3>1, <3>2, ShownParts
  <2>8. /\ detail'[j].cache.by = "server"
        /\ detail'[j].cache.rest = 0 \/ detail'[j].cache.rest >= detail[j].cache.rest
    BY <1>1, <2>1, <2>6, ServersDetailsStay
  <2> QED BY <2>6, <2>7, <2>8
<1>2. InspectionInv /\ InspectionInv' /\ [Next]_vars => [\A j \in LiveJobs : Back(j)]_vars
  BY <1>1
<1>3. Spec => []InspectionInv
  BY InspectionInvariant
<1> QED BY <1>2, <1>3, PTL DEF Spec, DetailsNeverGoBack
=============================================================================
