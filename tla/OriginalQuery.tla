--------------------------- MODULE OriginalQuery ----------------------------
(***************************************************************************)
(* The search of an iCloud library for the originals of a batch of RAW     *)
(* files (resolve_original_assets_batch_outcome, src/upload.rs).           *)
(*                                                                         *)
(* The service lists a library newest first and starts a page at any rank. *)
(* The client looks for the dates of its targets with probes at doubling   *)
(* distances and a bisection between the last probe that was too new and   *)
(* the first that was not.  From there it reads page after page, downloads *)
(* what has the size of a target and compares the contents, until the      *)
(* library ends or is older than the targets.  An original is deleted      *)
(* later on the word of this search, so a match must be the only one; a    *)
(* target without a match is closed for good.                              *)
(*                                                                         *)
(* The library does not change during a search: see README.md.             *)
(***************************************************************************)
EXTENDS Integers, Sequences, FiniteSets

CONSTANTS
    Libraries,   \* photos by rank, newest first
    Requests,    \* targets of a batch
    StartRanks,  \* start_rank of the configuration
    PageSize,    \* page_size
    MaxPages,    \* max_pages: requests of one search
    Tolerance,   \* capture_tolerance_seconds
    RawFiles,    \* contents of RAW files
    Heics,       \* contents of HEIC files
    SizeOf,      \* the size of each of them
    None,        \* no replacement candidate
    MaxFaults    \* bound: short pages, broken downloads, failed requests

Files == RawFiles \union Heics

(* A photo: its record name, its date and the files of the asset.          *)
IsPhoto(p) ==
    /\ DOMAIN p = {"id", "date", "has"}
    /\ p.id \in Nat /\ p.date \in Nat /\ p.has \subseteq Files

IsTarget(t) ==
    /\ DOMAIN t = {"captured", "raw", "heic"}
    /\ t.captured \in Nat /\ t.raw \in RawFiles /\ t.heic \in Heics \union {None}

ASSUME QueryAssumption ==
    /\ \A l \in Libraries :
           /\ l \in Seq({l[i] : i \in 1..Len(l)})
           /\ \A i \in 1..Len(l) : IsPhoto(l[i])
           /\ \A i, j \in 1..Len(l) :
                  i < j => l[i].date >= l[j].date /\ l[i].id # l[j].id
    /\ \A r \in Requests : \A t \in DOMAIN r : IsTarget(r[t])
    /\ RawFiles \cap Heics = {} /\ None \notin Files
    /\ StartRanks \subseteq Nat
    /\ PageSize \in Nat \ {0} /\ MaxPages \in Nat \ {0}
    /\ Tolerance \in Nat /\ MaxFaults \in Nat

VARIABLES
    library,  \* the photos of the zone
    request,  \* the targets
    start,    \* the rank of the first page
    pc,       \* what is read next
    lower,    \* a rank whose page is newer than the targets
    page,     \* the page the search narrows down to, or scans
    step,     \* distance to the next probe
    pages,    \* requests so far
    seen,     \* photos of the scanned pages
    broken,   \* downloads whose size was not the announced one
    outcome,  \* the answer: of each target, or none
    faults    \* faults so far

input == <<library, request, start>>
vars == <<input, pc, lower, page, step, pages, seen, broken, outcome, faults>>

-----------------------------------------------------------------------------
(* The targets.                                                            *)

Targets == DOMAIN request

(* Targets captured at the same time form a cohort.                        *)
Cohorts == {request[t].captured : t \in Targets}
InWindow(c, p) == c - Tolerance <= p.date /\ p.date <= c + Tolerance

Of(c) == {t \in Targets : request[t].captured = c}
Wanted(t) == {request[t].raw, request[t].heic} \ {None}
WantedBy(c) == UNION {Wanted(t) : t \in Of(c)}

SameKind(f, g) == f \in RawFiles <=> g \in RawFiles
LooksLike(f, g) == SameKind(f, g) /\ SizeOf[f] = SizeOf[g]

(* The time from the first to the last target, with the gaps in between.   *)
TooNew(p) == \A c \in Cohorts : p.date > c + Tolerance
TooOld(p) == \A c \in Cohorts : p.date < c - Tolerance

-----------------------------------------------------------------------------
(* The pages.  A page may be shorter than asked for, even empty, but as    *)
(* long as there are more photos it says so.                               *)

RankOf(from, n) == [rank |-> from, photos |-> SubSeq(library, from + 1, from + n),
                    more |-> from + n < Len(library)]

Full(from) ==
    RankOf(from, IF from + PageSize <= Len(library) THEN PageSize
                 ELSE IF from <= Len(library) THEN Len(library) - from ELSE 0)
Short(from) ==
    {RankOf(from, n) : n \in {k \in 0..(PageSize - 1) : from + k < Len(library)}}

Photos(pg) == {pg.photos[i] : i \in 1..Len(pg.photos)}
Next1(pg) == pg.rank + Len(pg.photos)

Position(pg) ==
    IF Photos(pg) = {} THEN "empty"
    ELSE IF \A p \in Photos(pg) : TooNew(p) THEN "new"
    ELSE IF \A p \in Photos(pg) : TooOld(p) THEN "old"
    ELSE "overlaps"

-----------------------------------------------------------------------------
(* The answer.                                                             *)

Matches(c, f) == {p \in seen : InWindow(c, p) /\ f \in p.has /\ <<p.id, f>> \notin broken}

Ambiguous_PerCohort(c, f) ==
    /\ Matches(c, f) # {}
    /\ \/ \E p, q \in Matches(c, f) : p # q
       \/ \E t, u \in Of(c) : t # u /\ f \in Wanted(t) \cap Wanted(u)

(* A content held by two photos, wanted by two targets of a cohort, or     *)
(* found for two cohorts in the same photo.                                *)
Ambiguous(c, f) ==
    /\ Matches(c, f) # {}
    /\ \/ \E p, q \in Matches(c, f) : p # q
       \/ \E t, u \in Of(c) : t # u /\ f \in Wanted(t) \cap Wanted(u)
       \/ \E d \in Cohorts \ {c} : f \in WantedBy(d) /\ Matches(c, f) \cap Matches(d, f) # {}

(* A download that failed might have been the file of the target.          *)
Inconclusive(c, t) ==
    \E p \in seen, f \in Files :
        InWindow(c, p) /\ <<p.id, f>> \in broken /\ \E g \in Wanted(t) : LooksLike(f, g)

Disposition(t) ==
    LET c == request[t].captured
        dated == {p \in seen : InWindow(c, p)}
        raws == Matches(c, request[t].raw)
        heics == IF request[t].heic = None THEN {} ELSE Matches(c, request[t].heic)
        Has(f) == \E p \in dated : f \in p.has
    IN  IF Inconclusive(c, t) THEN "transient"
        ELSE IF \E f \in Wanted(t) : Ambiguous(c, f) THEN "ambiguous"
        ELSE IF raws # {} THEN (IF heics # {} THEN "both" ELSE "original")
        ELSE IF heics # {} THEN "replacement"
        ELSE IF dated = {} THEN "noDate"
        ELSE IF \A f \in RawFiles : ~Has(f) THEN "noRaw"
        ELSE IF \A f \in RawFiles : Has(f) => ~LooksLike(f, request[t].raw) THEN "noSize"
        ELSE "noHash"

Answer(t) == [is |-> Disposition(t), raws |-> Matches(request[t].captured, request[t].raw)]
Transient == [is |-> "transient", raws |-> {}]

Finish(complete) ==
    /\ outcome' = [t \in Targets |-> IF complete THEN Answer(t) ELSE Transient]
    /\ pc' = "done"

-----------------------------------------------------------------------------
Init ==
    /\ library \in Libraries /\ request \in Requests /\ start \in StartRanks
    /\ pc = "first" /\ lower = 0 /\ page = RankOf(0, 0) /\ step = 0 /\ pages = 0
    /\ seen = {} /\ broken = {} /\ outcome = None /\ faults = 0

Fault == faults < MaxFaults /\ faults' = faults + 1

(* The page pg is the answer to a request for the rank from.               *)
Reads(from, pg) ==
    /\ pages' = pages + 1
    /\ \/ pg = Full(from) /\ UNCHANGED faults
       \/ pg \in Short(from) /\ Fault

PagesAt(from) == {Full(from)} \union Short(from)

FirstStep(pg) ==
    LET n == Len(pg.photos) half == PageSize \div 2
    IN  IF n >= half /\ n >= 1 THEN n ELSE IF half >= 1 THEN half ELSE 1

Result == <<seen, broken, outcome>>

ReadFirst ==
    /\ pc = "first"
    /\ \E pg \in PagesAt(start) :
           /\ Reads(start, pg) /\ page' = pg /\ lower' = start /\ step' = FirstStep(pg)
           /\ pc' = IF Position(pg) = "new" THEN "forward"
                    ELSE IF Position(pg) = "old" /\ start > 0 THEN "back" ELSE "scan"
    /\ UNCHANGED <<input, Result>>

(* Too new: probes at doubling distances from the start.                   *)
Forward ==
    /\ pc = "forward" /\ pages < MaxPages
    /\ \E pg \in PagesAt(start + step) :
           /\ Reads(start + step, pg)
           /\ \/ /\ Position(pg) = "new"
                 /\ lower' = start + step /\ step' = 2 * step /\ UNCHANGED <<pc, page>>
              \/ /\ Position(pg) # "new"
                 /\ page' = pg /\ pc' = "bisect" /\ UNCHANGED <<lower, step>>
    /\ UNCHANGED <<input, Result>>

Between == lower + 1 < page.rank
Mid == lower + (page.rank - lower) \div 2

Bisect_TakesOverlap ==
    /\ pc = "bisect" /\ Between /\ pages < MaxPages
    /\ \E pg \in PagesAt(Mid) :
           /\ Reads(Mid, pg)
           /\ \/ Position(pg) = "new" /\ lower' = Mid /\ UNCHANGED <<pc, page>>
              \/ Position(pg) = "old" /\ page' = pg /\ UNCHANGED <<pc, lower>>
              \/ Position(pg) \notin {"new", "old"} /\ page' = pg /\ pc' = "scan"
                 /\ UNCHANGED lower
    /\ UNCHANGED <<input, step, Result>>

Bisect_KeepsNewer ==
    /\ pc = "bisect" /\ Between /\ pages < MaxPages
    /\ \E pg \in PagesAt(Mid) :
           /\ Reads(Mid, pg) /\ page' = pg
           /\ lower' = IF Position(pg) = "new" THEN Mid ELSE lower
    /\ UNCHANGED <<input, pc, step, Result>>

(* The first rank whose page is not too new is the place to begin.         *)
Bisect ==
    /\ pc = "bisect" /\ Between /\ pages < MaxPages
    /\ \E pg \in PagesAt(Mid) :
           /\ Reads(Mid, pg)
           /\ \/ Position(pg) = "new" /\ lower' = Mid /\ UNCHANGED page
              \/ Position(pg) # "new" /\ page' = pg /\ UNCHANGED lower
    /\ UNCHANGED <<input, pc, step, Result>>

(* Too old: probes at doubling distances back, each from the last.         *)
Back ==
    /\ pc = "back" /\ pages < MaxPages
    /\ LET probe == IF page.rank > step THEN page.rank - step ELSE 0
       IN  \E pg \in PagesAt(probe) :
               /\ Reads(probe, pg)
               /\ \/ /\ Position(pg) = "old"
                     /\ page' = pg /\ step' = 2 * step /\ UNCHANGED lower
                     /\ pc' = IF probe = 0 THEN "scan" ELSE pc
                  \/ /\ Position(pg) = "new"
                     /\ lower' = probe /\ pc' = "bisectBack" /\ UNCHANGED <<page, step>>
                  \/ /\ Position(pg) \in {"overlaps", "empty"}
                     /\ page' = pg /\ pc' = "scan" /\ UNCHANGED <<lower, step>>
    /\ UNCHANGED <<input, Result>>

BisectBack ==
    /\ pc = "bisectBack" /\ Between /\ pages < MaxPages
    /\ \E pg \in PagesAt(Mid) :
           /\ Reads(Mid, pg)
           /\ \/ Position(pg) = "new" /\ lower' = Mid /\ UNCHANGED <<page, pc>>
              \/ Position(pg) = "old" /\ page' = pg /\ UNCHANGED <<lower, pc>>
              \/ /\ Position(pg) \in {"overlaps", "empty"}
                 /\ page' = pg /\ pc' = "scan" /\ UNCHANGED lower
    /\ UNCHANGED <<input, step, Result>>

Landed ==
    /\ pc \in {"bisect", "bisectBack"} /\ ~Between /\ pc' = "scan"
    /\ UNCHANGED <<input, lower, page, step, pages, Result, faults>>

(* The cap on requests is met before the place is found.                   *)
GiveUp ==
    /\ pages >= MaxPages
    /\ pc \in {"forward", "back"} \/ (pc \in {"bisect", "bisectBack"} /\ Between)
    /\ Finish(FALSE)
    /\ UNCHANGED <<input, lower, page, step, pages, seen, broken, faults>>

-----------------------------------------------------------------------------
(* The files that are downloaded: those with the size of a target of a     *)
(* cohort the photo may belong to.                                         *)
Candidates ==
    {d \in Photos(page) \X Files :
        /\ d[2] \in d[1].has
        /\ \E c \in Cohorts : InWindow(c, d[1]) /\ \E g \in WantedBy(c) : LooksLike(d[2], g)}

Scan ==
    /\ pc = "scan" /\ (Position(page) = "overlaps" \/ (Position(page) = "empty" /\ page.more))
    /\ seen' = seen \union Photos(page)
    /\ \/ UNCHANGED <<broken, faults>>
       \/ Fault /\ \E d \in Candidates : broken' = broken \union {<<d[1].id, d[2]>>}
    /\ pc' = "scanned"
    /\ UNCHANGED <<input, lower, page, step, pages, outcome>>

NextPage ==
    /\ pc = "scanned" /\ page.more /\ pages < MaxPages
    /\ \E pg \in PagesAt(Next1(page)) : Reads(Next1(page), pg) /\ page' = pg
    /\ pc' = "scan"
    /\ UNCHANGED <<input, lower, step, Result>>

(* The photos are older than the targets, the library ends, or the cap is  *)
(* met with pages left to read.                                            *)
Stop ==
    /\ \/ pc = "scan" /\ (Position(page) = "old" \/ (Position(page) = "empty" /\ ~page.more))
          /\ Finish(TRUE)
       \/ pc = "scanned" /\ ~page.more /\ Finish(TRUE)
       \/ pc = "scanned" /\ page.more /\ pages >= MaxPages /\ Finish(FALSE)
    /\ UNCHANGED <<input, lower, page, step, pages, seen, broken, faults>>

(* A page of newer photos behind one that was not is an error.             *)
Misordered ==
    /\ pc = "scan" /\ Position(page) = "new" /\ pc' = "failed"
    /\ UNCHANGED <<input, lower, page, step, pages, Result, faults>>

RequestFails ==
    /\ pc \notin {"done", "failed"} /\ Fault /\ pc' = "failed"
    /\ UNCHANGED <<input, lower, page, step, pages, Result>>

Next ==
    \/ ReadFirst \/ Forward \/ Bisect \/ Back \/ BisectBack \/ Landed \/ GiveUp
    \/ Scan \/ NextPage \/ Stop \/ Misordered \/ RequestFails

Spec == Init /\ [][Next]_vars

(* The requests have timeouts.                                             *)
FairSpec == Spec /\ WF_vars(Next)

-----------------------------------------------------------------------------
(* Properties.                                                             *)

(* The search began at a photo no older than those of the targets.         *)
FromAbove == \A i \in 1..Len(library) : i <= start => TooNew(library[i])

Holders(t) ==
    {p \in {library[i] : i \in 1..Len(library)} :
        InWindow(request[t].captured, p) /\ request[t].raw \in p.has}

Rivals(t, p) ==
    {u \in Targets \ {t} :
        request[u].raw = request[t].raw /\ InWindow(request[u].captured, p)}

(* A target is given an original only if that photo is the only one in the *)
(* whole library with its date and content, and no other target could      *)
(* claim it; it is closed for want of one only if the library has none:    *)
(* the search passed over no photo.                                        *)
AnswersAreTrue ==
    pc = "done" /\ FromAbove =>
        \A t \in Targets :
            /\ outcome[t].is \in {"original", "both"} =>
                   /\ outcome[t].raws = Holders(t)
                   /\ \E p \in Holders(t) : Holders(t) = {p} /\ Rivals(t, p) = {}
            /\ outcome[t].is \in {"noDate", "noRaw", "noSize", "noHash", "replacement"} =>
                   Holders(t) = {}

(* A search all of whose requests are answered in full ends with an answer *)
(* for each target, unless it used up its pages: the pages it reads are    *)
(* never out of order by its own doing.                                    *)
SearchConcludes ==
    <>(\/ faults > 0
       \/ pc = "done" /\ (pages < MaxPages =>
              \A t \in Targets : outcome[t].is # "transient"))
=============================================================================
