------------------------ MODULE OriginalQueryProofs -------------------------
(***************************************************************************)
(* Why the answers of a search are true, for any library, batch of         *)
(* targets, start, page size and cap on requests, and with any number of   *)
(* short pages and broken downloads.                                       *)
(*                                                                         *)
(* The library is sorted, so the photos too new for every target fill its  *)
(* first ranks.  The search keeps a rank that is Passed: no photo before   *)
(* it is wanted.  When it begins to read it has Covered the ranks before   *)
(* its page, and it ends with all of them covered.                         *)
(***************************************************************************)
EXTENDS OriginalQuery, TLAPS

Ranks == 1 .. Len(library)

IsPage(pg) ==
    \E from, n \in Nat :
        (n = 0 \/ from + n <= Len(library)) /\ pg = RankOf(from, n)

(* The search is over photos and targets, and reads pages of the library.  *)
Typed ==
    /\ library \in Libraries /\ request \in Requests /\ start \in StartRanks
    /\ pc \in {"first", "forward", "back", "bisect", "bisectBack", "scan", "scanned",
               "done", "failed"}
    /\ IsPage(page)
    /\ lower \in Nat /\ step \in Nat /\ pages \in Nat /\ faults \in Nat
    /\ seen \subseteq {library[i] : i \in Ranks}

(* No photo before rank r is wanted.                                       *)
Passed(r) == \A i \in Ranks : i <= r => TooNew(library[i])

(* Every photo before rank r is read or not wanted.                        *)
Covered(r) == \A i \in Ranks : i <= r => TooNew(library[i]) \/ library[i] \in seen

(* Where the search is in the library.                                     *)
NothingSkipped ==
    FromAbove =>
        /\ pc \in {"forward", "bisect"} => Passed(lower + 1)
        /\ pc \in {"back", "bisectBack"} => page.rank <= start
        /\ pc = "scan" => Covered(page.rank)
        /\ pc = "scanned" => Covered(Next1(page))

QueryInv == Typed /\ NothingSkipped /\ AnswersAreTrue

-----------------------------------------------------------------------------
(* The photos and the targets.                                             *)

LEMMA LibraryShape ==
    ASSUME library \in Libraries
    PROVE  /\ Len(library) \in Nat
           /\ library \in Seq({library[i] : i \in Ranks})
           /\ \A i \in Ranks : library[i].date \in Nat
           /\ \A i, j \in Ranks : i <= j => library[j].date <= library[i].date
<1>1. library \in Seq({library[i] : i \in 1..Len(library)})
  BY QueryAssumption
<1>2. \A i \in Ranks : library[i].date \in Nat
  BY QueryAssumption DEF Ranks, IsPhoto
<1>3. Len(library) \in Nat
  BY <1>1
<1>4. \A i, j \in Ranks : i <= j => library[j].date <= library[i].date
  <2> SUFFICES ASSUME NEW i \in Ranks, NEW j \in Ranks, i <= j
               PROVE  library[j].date <= library[i].date
    OBVIOUS
  <2>1. CASE i = j
    BY <2>1, <1>2
  <2>2. CASE i # j
    <3>1. \A k, l \in Ranks : k < l => library[k].date >= library[l].date
      BY QueryAssumption DEF Ranks
    <3>2. i < j
      BY <2>2, <1>3 DEF Ranks
    <3> QED BY <3>1, <3>2, <1>2
  <2> QED BY <2>1, <2>2
<1> QED BY <1>1, <1>2, <1>3, <1>4 DEF Ranks

LEMMA TargetShape ==
    ASSUME request \in Requests
    PROVE  /\ \A t \in Targets : request[t].captured \in Nat /\ request[t].raw \in Wanted(t)
           /\ \A c \in Cohorts : c \in Nat
           /\ Tolerance \in Nat
<1>1. \A t \in Targets : IsTarget(request[t])
  BY QueryAssumption DEF Targets
<1> QED BY <1>1, QueryAssumption DEF IsTarget, Wanted, Cohorts, Files

(* Photos are too new down to some rank, and too old from some rank on.    *)
LEMMA DatesFall ==
    ASSUME library \in Libraries, request \in Requests,
           NEW i \in Ranks, NEW j \in Ranks, i <= j
    PROVE  /\ TooNew(library[j]) => TooNew(library[i])
           /\ TooOld(library[i]) => TooOld(library[j])
<1>1. library[i].date \in Nat /\ library[j].date \in Nat /\ library[j].date <= library[i].date
  BY LibraryShape
<1> QED BY <1>1, TargetShape DEF TooNew, TooOld

LEMMA WindowsBetween ==
    ASSUME library \in Libraries, request \in Requests,
           NEW i \in Ranks, NEW c \in Cohorts, InWindow(c, library[i])
    PROVE  ~TooNew(library[i]) /\ ~TooOld(library[i])
<1>1. library[i].date \in Nat
  BY LibraryShape
<1> QED BY <1>1, TargetShape DEF InWindow, TooNew, TooOld

-----------------------------------------------------------------------------
(* The pages.                                                              *)

LEMMA PageShape ==
    ASSUME library \in Libraries, NEW pg, IsPage(pg)
    PROVE  /\ pg.rank \in Nat /\ Len(pg.photos) \in Nat
           /\ Len(pg.photos) = 0 \/ pg.rank + Len(pg.photos) <= Len(library)
           /\ pg.more = (pg.rank + Len(pg.photos) < Len(library))
           /\ Photos(pg) = {library[i] : i \in (pg.rank + 1) .. (pg.rank + Len(pg.photos))}
<1>1. PICK from \in Nat, n \in Nat :
          (n = 0 \/ from + n <= Len(library)) /\ pg = RankOf(from, n)
  BY DEF IsPage
<1>2. pg.rank = from /\ pg.photos = SubSeq(library, from + 1, from + n)
  BY <1>1 DEF RankOf
<1>3. Len(library) \in Nat /\ library \in Seq({library[i] : i \in Ranks})
  BY LibraryShape
<1>4. /\ Len(pg.photos) = n
      /\ \A i \in 1..n : pg.photos[i] = library[from + i]
  BY <1>1, <1>2, <1>3
<1>5. Photos(pg) = {library[i] : i \in (from + 1) .. (from + n)}
  <2>1. \A i \in 1..n : from + i \in (from + 1) .. (from + n)
    OBVIOUS
  <2>2. \A i \in (from + 1) .. (from + n) : i - from \in 1..n /\ from + (i - from) = i
    OBVIOUS
  <2>3. ASSUME NEW i \in 1..n PROVE pg.photos[i] \in {library[k] : k \in (from + 1) .. (from + n)}
    BY <1>4, <2>1
  <2>4. ASSUME NEW i \in (from + 1) .. (from + n) PROVE library[i] \in {pg.photos[k] : k \in 1..n}
    <3>1. i - from \in 1..n /\ pg.photos[i - from] = library[i]
      BY <1>4, <2>2
    <3> QED BY <3>1
  <2> QED BY <1>4, <2>3, <2>4 DEF Photos
<1> QED BY <1>1, <1>2, <1>4, <1>5 DEF RankOf

LEMMA PagesAtShape ==
    ASSUME library \in Libraries, NEW from \in Nat, NEW pg \in PagesAt(from)
    PROVE  IsPage(pg) /\ pg.rank = from
<1>1. Len(library) \in Nat /\ PageSize \in Nat \ {0}
  BY LibraryShape, QueryAssumption
<1>2. CASE pg = Full(from)
  <2> DEFINE n == IF from + PageSize <= Len(library) THEN PageSize
                  ELSE IF from <= Len(library) THEN Len(library) - from ELSE 0
  <2>1. n \in Nat /\ (n = 0 \/ from + n <= Len(library))
    BY <1>1
  <2>2. pg = RankOf(from, n)
    BY <1>2 DEF Full
  <2> HIDE DEF n
  <2> QED BY <2>1, <2>2 DEF IsPage, RankOf
<1>3. CASE pg \in Short(from)
  BY <1>1, <1>3 DEF Short, IsPage, RankOf
<1> QED BY <1>2, <1>3 DEF PagesAt

(* A page that is not empty begins with the photo of its rank.             *)
LEMMA FirstOfPage ==
    ASSUME library \in Libraries, NEW pg, IsPage(pg), Photos(pg) # {}
    PROVE  /\ Len(pg.photos) # 0
           /\ pg.rank + 1 \in Ranks /\ library[pg.rank + 1] \in Photos(pg)
<1> DEFINE n == Len(pg.photos)
<1>1. /\ pg.rank \in Nat /\ n \in Nat /\ Len(library) \in Nat
      /\ n = 0 \/ pg.rank + n <= Len(library)
      /\ Photos(pg) = {library[i] : i \in (pg.rank + 1) .. (pg.rank + n)}
  BY PageShape, LibraryShape
<1> HIDE DEF n
<1>2. n # 0
  BY <1>1
<1>3. pg.rank + 1 \in (pg.rank + 1) .. (pg.rank + n) /\ pg.rank + 1 \in 1 .. Len(library)
  BY <1>1, <1>2
<1> QED BY <1>1, <1>2, <1>3 DEF Ranks, n

(* What a page says of the photos before it and behind it.                 *)
LEMMA NewPage ==
    ASSUME library \in Libraries, request \in Requests,
           NEW pg, IsPage(pg), Position(pg) = "new"
    PROVE  Passed(pg.rank + 1)
<1>1. Photos(pg) # {} /\ \A p \in Photos(pg) : TooNew(p)
  BY DEF Position
<1>2. pg.rank + 1 \in Ranks /\ library[pg.rank + 1] \in Photos(pg)
  BY <1>1, FirstOfPage
<1>3. ASSUME NEW i \in Ranks, i <= pg.rank + 1 PROVE TooNew(library[i])
  BY <1>1, <1>2, <1>3, DatesFall
<1> QED BY <1>3 DEF Passed

LEMMA OldPage ==
    ASSUME library \in Libraries, request \in Requests,
           NEW pg, IsPage(pg), Position(pg) = "old", NEW i \in Ranks, i > pg.rank
    PROVE  TooOld(library[i])
<1>1. Photos(pg) # {} /\ \A p \in Photos(pg) : TooOld(p)
  BY DEF Position
<1>2. pg.rank + 1 \in Ranks /\ library[pg.rank + 1] \in Photos(pg)
  BY <1>1, FirstOfPage
<1>3. pg.rank + 1 <= i
  BY PageShape DEF Ranks
<1> QED BY <1>1, <1>2, <1>3, DatesFall

LEMMA EmptyPage ==
    ASSUME library \in Libraries, NEW pg, IsPage(pg)
    PROVE  Position(pg) = "empty" <=> Len(pg.photos) = 0
<1>1. Position(pg) = "empty" <=> Photos(pg) = {}
  BY DEF Position
<1>2. Photos(pg) # {} => Len(pg.photos) # 0
  BY FirstOfPage
<1>3. Len(pg.photos) # 0 => Photos(pg) # {}
  <2>1. Len(pg.photos) \in Nat
    BY PageShape
  <2>2. Len(pg.photos) # 0 => 1 \in 1 .. Len(pg.photos)
    BY <2>1
  <2> QED BY <2>2 DEF Photos
<1> QED BY <1>1, <1>2, <1>3

-----------------------------------------------------------------------------
(* The answer.  When every photo with a date of the targets was read, a      *)
(* target that is not left open has the matches of the whole library: a      *)
(* download that failed would have left it open.                             *)
AllRead == \A i \in Ranks : library[i] \in seen \/ TooNew(library[i]) \/ TooOld(library[i])

AnswerIsTrue(t, a) ==
    /\ a.is \in {"original", "both"} =>
           /\ a.raws = Holders(t)
           /\ \E p \in Holders(t) : Holders(t) = {p} /\ Rivals(t, p) = {}
    /\ a.is \in {"noDate", "noRaw", "noSize", "noHash", "replacement"} =>
           Holders(t) = {}

LEMMA MatchesAreHolders ==
    ASSUME Typed, AllRead, NEW t \in Targets, ~Inconclusive(request[t].captured, t)
    PROVE  Matches(request[t].captured, request[t].raw) = Holders(t)
<1> DEFINE c == request[t].captured
           f == request[t].raw
<1>1. c \in Cohorts /\ f \in Files /\ f \in Wanted(t)
  <2>1. f \in RawFiles
    BY QueryAssumption DEF Typed, Targets, IsTarget
  <2> QED BY <2>1, TargetShape DEF Typed, Cohorts, Files
<1>2. LooksLike(f, f)
  BY DEF LooksLike, SameKind
<1>3. ASSUME NEW p \in Holders(t) PROVE p \in Matches(c, f)
  <2>1. PICK i \in Ranks : p = library[i]
    BY <1>3 DEF Holders, Ranks
  <2>2. InWindow(c, p) /\ f \in p.has
    BY <1>3 DEF Holders
  <2>3. p \in seen
    BY <2>1, <2>2, <1>1, WindowsBetween DEF Typed, AllRead
  <2>4. <<p.id, f>> \notin broken
    BY <1>1, <1>2, <2>2, <2>3 DEF Inconclusive
  <2> QED BY <2>2, <2>3, <2>4 DEF Matches
<1>4. ASSUME NEW p \in Matches(c, f) PROVE p \in Holders(t)
  BY <1>4 DEF Matches, Holders, Typed, Ranks
<1> QED BY <1>3, <1>4

LEMMA AnswerHolds ==
    ASSUME Typed, AllRead, NEW t \in Targets
    PROVE  AnswerIsTrue(t, Answer(t))
<1> DEFINE c == request[t].captured
           f == request[t].raw
           H == Matches(c, f)
<1> SUFFICES ASSUME Answer(t).is # "transient" PROVE AnswerIsTrue(t, Answer(t))
  BY DEF AnswerIsTrue
<1>1. Answer(t) = [is |-> Disposition(t), raws |-> H]
  BY DEF Answer
<1>2. ~Inconclusive(c, t)
  BY <1>1 DEF Disposition
<1>3. H = Holders(t)
  BY <1>2, MatchesAreHolders
<1>4. CASE Disposition(t) \in {"original", "both"}
  <2>1. H # {} /\ ~Ambiguous(c, f)
    <3>1. H # {}
      BY <1>4 DEF Disposition
    <3>2. ~\E g \in Wanted(t) : Ambiguous(c, g)
      BY <1>4 DEF Disposition
    <3>3. f \in Wanted(t)
      BY TargetShape DEF Typed
    <3> QED BY <3>1, <3>2, <3>3
  <2>2. PICK p \in H : H = {p}
    BY <2>1 DEF Ambiguous
  <2>3. ASSUME NEW u \in Rivals(t, p) PROVE FALSE
    <3>1. /\ u \in Targets /\ u # t /\ request[u].raw = f
          /\ InWindow(request[u].captured, p)
      BY <2>3 DEF Rivals
    <3>2. f \in Wanted(u) /\ f \in Wanted(t)
      BY <3>1, TargetShape DEF Typed
    <3>3. CASE request[u].captured = c
      <4>1. t \in Of(c) /\ u \in Of(c) /\ f \in Wanted(t) \cap Wanted(u)
        BY <3>1, <3>2, <3>3 DEF Of
      <4> QED BY <4>1, <3>1, <2>1 DEF Ambiguous
    <3>4. CASE request[u].captured # c
      <4> DEFINE d == request[u].captured
      <4>1. d \in Cohorts \ {c}
        BY <3>1, <3>4 DEF Cohorts
      <4>2. f \in WantedBy(d)
        BY <3>1, <3>2 DEF WantedBy, Of
      <4>3. p \in Matches(d, f)
        BY <2>2, <3>1 DEF Matches
      <4>4. Matches(c, f) \cap Matches(d, f) # {}
        BY <2>2, <4>3
      <4> QED BY <4>1, <4>2, <4>4, <2>1 DEF Ambiguous
    <3> QED BY <3>3, <3>4
  <2> QED BY <1>1, <1>3, <1>4, <2>2, <2>3 DEF AnswerIsTrue
<1>5. CASE Disposition(t) \in {"noDate", "noRaw", "noSize", "noHash", "replacement"}
  <2>1. H = {}
    BY <1>5 DEF Disposition
  <2> QED BY <1>1, <1>3, <1>5, <2>1 DEF AnswerIsTrue
<1>6. CASE Disposition(t) = "ambiguous"
  BY <1>1, <1>6 DEF AnswerIsTrue
<1>7. Disposition(t) \in {"transient", "ambiguous", "original", "both", "noDate", "noRaw",
                          "noSize", "noHash", "replacement"}
  BY DEF Disposition
<1> QED BY <1>1, <1>4, <1>5, <1>6, <1>7

(* A search that ends gives these answers, or none.                          *)
LEMMA FinishIsTrue ==
    ASSUME Typed, NEW complete \in BOOLEAN, Finish(complete),
           complete => (FromAbove => AllRead), UNCHANGED input
    PROVE  AnswersAreTrue'
<1>1. outcome' = [t \in Targets |-> IF complete THEN Answer(t) ELSE Transient]
  BY DEF Finish
<1>2. /\ FromAbove' = FromAbove /\ Targets' = Targets
      /\ \A t \in Targets : Holders(t)' = Holders(t)
      /\ \A t \in Targets : \A p : Rivals(t, p)' = Rivals(t, p)
  BY DEF input, FromAbove, Targets, Holders, Rivals, TooNew, Cohorts, InWindow
<1>3. ASSUME FromAbove, NEW t \in Targets PROVE AnswerIsTrue(t, outcome'[t])
  <2>1. CASE complete
    BY <1>1, <1>3, <2>1, AnswerHolds
  <2>2. CASE ~complete
    BY <1>1, <2>2 DEF AnswerIsTrue, Transient
  <2> QED BY <2>1, <2>2
<1>4. ASSUME FromAbove PROVE \A t \in Targets : AnswerIsTrue(t, outcome'[t])
  BY <1>3, <1>4
<1> QED BY <1>2, <1>4 DEF AnswersAreTrue, AnswerIsTrue

-----------------------------------------------------------------------------
(* The steps.                                                                *)

LEMMA TypedInit == Init => Typed
<1> SUFFICES ASSUME Init PROVE Typed
  OBVIOUS
<1>1. IsPage(page)
  BY DEF Init, IsPage
<1> QED BY <1>1 DEF Init, Typed

(* A request reads a page of the library, at the rank asked for.             *)
LEMMA TypedReads ==
    ASSUME Typed, UNCHANGED input, NEW from \in Nat, NEW pg \in PagesAt(from), Reads(from, pg)
    PROVE  /\ IsPage(pg) /\ pg.rank = from /\ IsPage(pg)'
           /\ pages' \in Nat /\ faults' \in Nat
           /\ Position(pg)' = Position(pg)
<1>1. IsPage(pg) /\ pg.rank = from
  BY PagesAtShape DEF Typed
<1>2. IsPage(pg)'
  BY <1>1 DEF IsPage, RankOf, input
<1>3. pages' \in Nat /\ faults' \in Nat
  BY DEF Reads, Fault, Typed
<1> QED BY <1>1, <1>2, <1>3 DEF Position, TooNew, TooOld, Cohorts, Targets, input

(* The place of the first step and of the next probes.                       *)
LEMMA StepsAreNatural ==
    ASSUME Typed, NEW pg, IsPage(pg)
    PROVE  FirstStep(pg) \in Nat
<1>1. Len(pg.photos) \in Nat /\ PageSize \in Nat \ {0}
  BY PageShape, QueryAssumption DEF Typed
<1> DEFINE n == Len(pg.photos)
           half == PageSize \div 2
<1>2. n \in Nat /\ half \in Nat
  BY <1>1
<1> HIDE DEF n, half
<1> QED BY <1>2 DEF FirstStep, n, half

LEMMA MidIsBetween ==
    ASSUME Typed, Between
    PROVE  Mid \in Nat /\ lower < Mid /\ Mid < page.rank
<1>1. lower \in Nat /\ page.rank \in Nat
  BY PageShape DEF Typed
<1> QED BY <1>1 DEF Between, Mid

(* What was passed stays passed, and what was covered stays covered.         *)
LEMMA PassedStays ==
    ASSUME UNCHANGED input, NEW r, Passed(r)
    PROVE  lower' + 1 = r => Passed(lower + 1)'
BY DEF input, Ranks, Passed, TooNew, Cohorts, Targets

LEMMA CoveredStays ==
    ASSUME UNCHANGED input, seen \subseteq seen', NEW r, Covered(r)
    PROVE  /\ page'.rank = r => Covered(page.rank)'
           /\ Next1(page') = r => Covered(Next1(page))'
BY DEF input, Ranks, Covered, TooNew, Cohorts, Targets, Next1

LEMMA StartStays ==
    ASSUME UNCHANGED input
    PROVE  FromAbove' <=> FromAbove
BY DEF input, FromAbove, TooNew, Cohorts, Targets

(* A photo that is not wanted at a rank before the start: so are all there.  *)
LEMMA AboveIsPassed ==
    ASSUME Typed, FromAbove, NEW r \in Nat, r <= start
    PROVE  Passed(r) /\ Covered(r)
<1>1. start \in Nat /\ Len(library) \in Nat
  BY QueryAssumption, LibraryShape DEF Typed
<1> QED BY <1>1 DEF FromAbove, Passed, Covered, Ranks

LEMMA ReadFirstStep ==
    ASSUME Typed, NothingSkipped, ReadFirst
    PROVE  Typed' /\ NothingSkipped'
<1>1. PICK pg \in PagesAt(start) :
          /\ Reads(start, pg) /\ page' = pg /\ lower' = start /\ step' = FirstStep(pg)
          /\ pc' = IF Position(pg) = "new" THEN "forward"
                   ELSE IF Position(pg) = "old" /\ start > 0 THEN "back" ELSE "scan"
  BY DEF ReadFirst
<1>2. UNCHANGED input /\ seen' = seen
  BY DEF ReadFirst, Result
<1>3. start \in Nat
  BY QueryAssumption DEF Typed
<1>4. /\ IsPage(pg) /\ pg.rank = start /\ IsPage(pg)'
      /\ pages' \in Nat /\ faults' \in Nat /\ FirstStep(pg) \in Nat
  BY <1>1, <1>2, <1>3, TypedReads, StepsAreNatural
<1>5. Typed'
  BY <1>1, <1>2, <1>3, <1>4 DEF Typed, input, Ranks, IsPage, RankOf
<1>6. ASSUME FromAbove
      PROVE  /\ pc' = "forward" => Passed(lower + 1)'
             /\ pc' = "back" => page'.rank <= start'
             /\ pc' = "scan" => Covered(page.rank)'
  <2>1. CASE Position(pg) = "new"
    BY <1>1, <1>2, <1>4, <2>1, NewPage, PassedStays DEF Typed
  <2>2. CASE Position(pg) # "new"
    <3>1. Covered(start)
      BY <1>3, <1>6, AboveIsPassed
    <3> QED BY <1>1, <1>2, <1>3, <1>4, <2>2, <3>1, CoveredStays DEF input
  <2> QED BY <2>1, <2>2
<1>7. pc' \in {"forward", "back", "scan"}
  BY <1>1
<1>8. FromAbove' <=> FromAbove
  BY <1>2, StartStays
<1>9. NothingSkipped'
  BY <1>6, <1>7, <1>8 DEF NothingSkipped
<1> QED BY <1>5, <1>9

(* A probe: the search stays before the scan, or begins it at the probe.     *)
LEMMA ProbeTyped ==
    ASSUME Typed, UNCHANGED <<input, seen>>, NEW from \in Nat, NEW pg \in PagesAt(from),
           Reads(from, pg), page' \in {page, pg}, lower' \in Nat, step' \in Nat,
           pc' \in {"forward", "back", "bisect", "bisectBack", "scan"}
    PROVE  Typed'
<1>1. IsPage(pg)' /\ pages' \in Nat /\ faults' \in Nat
  BY TypedReads
<1>2. IsPage(page)'
  BY <1>1 DEF Typed, IsPage, RankOf, input
<1> QED BY <1>1, <1>2 DEF Typed, input, Ranks

LEMMA ForwardStep ==
    ASSUME Typed, NothingSkipped, Forward
    PROVE  Typed' /\ NothingSkipped'
<1>1. PICK pg \in PagesAt(start + step) :
          /\ Reads(start + step, pg)
          /\ \/ /\ Position(pg) = "new"
                /\ lower' = start + step /\ step' = 2 * step /\ UNCHANGED <<pc, page>>
             \/ /\ Position(pg) # "new"
                /\ page' = pg /\ pc' = "bisect" /\ UNCHANGED <<lower, step>>
  BY DEF Forward
<1>2. UNCHANGED input /\ seen' = seen /\ pc = "forward"
  BY DEF Forward, Result
<1>3. start \in Nat /\ step \in Nat /\ lower \in Nat /\ start + step \in Nat
  BY QueryAssumption DEF Typed
<1>4. IsPage(pg) /\ pg.rank = start + step
  BY <1>1, <1>2, <1>3, TypedReads
<1>5. Typed'
  BY <1>1, <1>2, <1>3, ProbeTyped
<1>6. ASSUME FromAbove PROVE Passed(lower + 1)'
  <2>1. CASE Position(pg) = "new"
    BY <1>1, <1>2, <1>4, <2>1, NewPage, PassedStays DEF Typed
  <2>2. CASE Position(pg) # "new"
    BY <1>1, <1>2, <1>6, <2>2, PassedStays DEF NothingSkipped
  <2> QED BY <2>1, <2>2
<1>7. pc' \in {"forward", "bisect"}
  BY <1>1, <1>2
<1>8. FromAbove' <=> FromAbove
  BY <1>2, StartStays
<1>9. NothingSkipped'
  BY <1>6, <1>7, <1>8 DEF NothingSkipped
<1> QED BY <1>5, <1>9

LEMMA BisectStep ==
    ASSUME Typed, NothingSkipped, Bisect
    PROVE  Typed' /\ NothingSkipped'
<1>1. PICK pg \in PagesAt(Mid) :
          /\ Reads(Mid, pg)
          /\ \/ Position(pg) = "new" /\ lower' = Mid /\ UNCHANGED page
             \/ Position(pg) # "new" /\ page' = pg /\ UNCHANGED lower
  BY DEF Bisect
<1>2. UNCHANGED <<input, seen, pc, step>> /\ pc = "bisect" /\ Between
  BY DEF Bisect, Result
<1>3. Mid \in Nat /\ step \in Nat /\ lower \in Nat
  BY <1>2, MidIsBetween DEF Typed
<1>4. IsPage(pg) /\ pg.rank = Mid
  BY <1>1, <1>2, <1>3, TypedReads
<1>5. Typed'
  BY <1>1, <1>2, <1>3, ProbeTyped
<1>6. ASSUME FromAbove PROVE Passed(lower + 1)'
  <2>1. CASE Position(pg) = "new"
    BY <1>1, <1>2, <1>4, <2>1, NewPage, PassedStays DEF Typed
  <2>2. CASE Position(pg) # "new"
    BY <1>1, <1>2, <1>6, <2>2, PassedStays DEF NothingSkipped
  <2> QED BY <2>1, <2>2
<1>8. FromAbove' <=> FromAbove
  BY <1>2, StartStays
<1>9. NothingSkipped'
  BY <1>2, <1>6, <1>8 DEF NothingSkipped
<1> QED BY <1>5, <1>9

(* Behind the start nothing is passed over, for nothing there is wanted.     *)
LEMMA BackStep ==
    ASSUME Typed, NothingSkipped, Back
    PROVE  Typed' /\ NothingSkipped'
<1> DEFINE probe == IF page.rank > step THEN page.rank - step ELSE 0
<1>1. PICK pg \in PagesAt(probe) :
          /\ Reads(probe, pg)
          /\ page' \in {page, pg} /\ lower' \in {lower, probe} /\ step' \in {step, 2 * step}
          /\ \/ pc' \in {"back", "bisectBack"}
             \/ pc' = "scan" /\ page' = pg
  BY DEF Back
<1>2. UNCHANGED <<input, seen>> /\ pc = "back"
  BY DEF Back, Result
<1>3. /\ page.rank \in Nat /\ step \in Nat /\ lower \in Nat
      /\ probe \in Nat /\ probe <= page.rank
  BY PageShape DEF Typed
<1>4. pg.rank = probe
  BY <1>1, <1>2, <1>3, TypedReads
<1> HIDE DEF probe
<1>5. Typed'
  BY <1>1, <1>2, <1>3, ProbeTyped
<1>6. start \in Nat
  BY QueryAssumption DEF Typed
<1>7. ASSUME FromAbove
      PROVE  /\ pc' \in {"back", "bisectBack"} => page'.rank <= start'
             /\ pc' = "scan" => Covered(page.rank)'
  <2>1. page.rank <= start
    BY <1>2, <1>7 DEF NothingSkipped
  <2>2. page'.rank \in Nat /\ page'.rank <= start
    BY <1>1, <1>3, <1>4, <1>6, <2>1
  <2>3. Covered(page'.rank)
    BY <1>7, <2>2, AboveIsPassed
  <2> QED BY <1>2, <2>2, <2>3, CoveredStays DEF input
<1>8. FromAbove' <=> FromAbove
  BY <1>2, StartStays
<1>9. NothingSkipped'
  BY <1>1, <1>7, <1>8 DEF NothingSkipped
<1> QED BY <1>5, <1>9

LEMMA BisectBackStep ==
    ASSUME Typed, NothingSkipped, BisectBack
    PROVE  Typed' /\ NothingSkipped'
<1>1. PICK pg \in PagesAt(Mid) :
          /\ Reads(Mid, pg)
          /\ page' \in {page, pg} /\ lower' \in {lower, Mid}
          /\ \/ pc' = "bisectBack"
             \/ pc' = "scan" /\ page' = pg
  BY DEF BisectBack
<1>2. UNCHANGED <<input, seen, step>> /\ pc = "bisectBack" /\ Between
  BY DEF BisectBack, Result
<1>3. /\ page.rank \in Nat /\ step \in Nat /\ lower \in Nat
      /\ Mid \in Nat /\ Mid <= page.rank
  BY <1>2, PageShape, MidIsBetween DEF Typed
<1>4. pg.rank = Mid
  BY <1>1, <1>2, <1>3, TypedReads
<1>5. Typed'
  BY <1>1, <1>2, <1>3, ProbeTyped
<1>6. start \in Nat
  BY QueryAssumption DEF Typed
<1>7. ASSUME FromAbove
      PROVE  page'.rank <= start' /\ (pc' = "scan" => Covered(page.rank)')
  <2>1. page.rank <= start
    BY <1>2, <1>7 DEF NothingSkipped
  <2>2. page'.rank \in Nat /\ page'.rank <= start
    BY <1>1, <1>3, <1>4, <1>6, <2>1
  <2>3. Covered(page'.rank)
    BY <1>7, <2>2, AboveIsPassed
  <2> QED BY <1>2, <2>2, <2>3, CoveredStays DEF input
<1>8. FromAbove' <=> FromAbove
  BY <1>2, StartStays
<1>9. NothingSkipped'
  BY <1>1, <1>7, <1>8 DEF NothingSkipped
<1> QED BY <1>5, <1>9

(* The search lands behind the last photo that is known to be too new.       *)
LEMMA LandedStep ==
    ASSUME Typed, NothingSkipped, Landed
    PROVE  Typed' /\ NothingSkipped'
<1>1. /\ pc \in {"bisect", "bisectBack"} /\ ~Between /\ pc' = "scan"
      /\ UNCHANGED <<input, lower, page, step, pages, seen, faults>>
  BY DEF Landed, Result
<1>2. Typed'
  BY <1>1 DEF Typed, input, Ranks, IsPage, RankOf
<1>3. page.rank \in Nat /\ lower \in Nat /\ page.rank <= lower + 1
  BY <1>1, PageShape DEF Typed, Between
<1>4. ASSUME FromAbove PROVE Covered(page.rank)
  <2>1. CASE pc = "bisect"
    <3>1. Passed(lower + 1)
      BY <1>4, <2>1 DEF NothingSkipped
    <3>2. \A i \in Ranks : i <= page.rank => i <= lower + 1
      BY <1>3 DEF Ranks
    <3> QED BY <3>1, <3>2 DEF Passed, Covered
  <2>2. CASE pc = "bisectBack"
    BY <1>3, <1>4, <2>2, AboveIsPassed DEF NothingSkipped
  <2> QED BY <1>1, <2>1, <2>2
<1>5. FromAbove' <=> FromAbove
  BY <1>1, StartStays
<1>6. ASSUME FromAbove PROVE Covered(page.rank)'
  BY <1>1, <1>4, <1>6, CoveredStays
<1>7. NothingSkipped'
  BY <1>1, <1>5, <1>6 DEF NothingSkipped
<1> QED BY <1>2, <1>7

LEMMA ScanStep ==
    ASSUME Typed, NothingSkipped, Scan
    PROVE  Typed' /\ NothingSkipped'
<1>1. /\ pc = "scan" /\ pc' = "scanned" /\ seen' = seen \union Photos(page)
      /\ UNCHANGED <<input, lower, page, step, pages>>
  BY DEF Scan
<1>2. faults' \in Nat
  BY DEF Scan, Fault, Typed
<1>3. /\ page.rank \in Nat /\ Len(page.photos) \in Nat /\ Len(library) \in Nat
      /\ Len(page.photos) = 0 \/ page.rank + Len(page.photos) <= Len(library)
      /\ Photos(page) = {library[i] : i \in (page.rank + 1) .. (page.rank + Len(page.photos))}
  BY PageShape, LibraryShape DEF Typed
<1>4. Photos(page) \subseteq {library[i] : i \in Ranks}
  BY <1>3 DEF Ranks
<1>5. Typed'
  BY <1>1, <1>2, <1>4 DEF Typed, input, Ranks, IsPage, RankOf
<1>6. ASSUME FromAbove PROVE Covered(Next1(page))'
  <2>1. Covered(page.rank)
    BY <1>1, <1>6 DEF NothingSkipped
  <2>2. ASSUME NEW i \in Ranks, i <= Next1(page)
        PROVE  TooNew(library[i]) \/ library[i] \in seen'
    <3>1. CASE i <= page.rank
      BY <1>1, <2>1, <3>1 DEF Covered
    <3>2. CASE ~(i <= page.rank)
      <4>1. i \in (page.rank + 1) .. (page.rank + Len(page.photos))
        BY <1>3, <2>2, <3>2 DEF Next1, Ranks
      <4> QED BY <1>1, <1>3, <4>1
    <3> QED BY <3>1, <3>2
  <2> QED BY <1>1, <2>2 DEF Covered, Ranks, input, Next1, TooNew, Cohorts, Targets
<1>7. FromAbove' <=> FromAbove
  BY <1>1, StartStays
<1>8. NothingSkipped'
  BY <1>1, <1>6, <1>7 DEF NothingSkipped
<1> QED BY <1>5, <1>8

LEMMA NextPageStep ==
    ASSUME Typed, NothingSkipped, NextPage
    PROVE  Typed' /\ NothingSkipped'
<1>1. PICK pg \in PagesAt(Next1(page)) : Reads(Next1(page), pg) /\ page' = pg
  BY DEF NextPage
<1>2. pc = "scanned" /\ pc' = "scan" /\ UNCHANGED <<input, lower, step, seen>>
  BY DEF NextPage, Result
<1>3. Next1(page) \in Nat /\ lower \in Nat /\ step \in Nat
  BY PageShape DEF Next1, Typed
<1>4. pg.rank = Next1(page)
  BY <1>1, <1>2, <1>3, TypedReads
<1>5. Typed'
  BY <1>1, <1>2, <1>3, ProbeTyped
<1>6. ASSUME FromAbove PROVE Covered(page.rank)'
  <2>1. Covered(Next1(page))
    BY <1>2, <1>6 DEF NothingSkipped
  <2> QED BY <1>1, <1>2, <1>4, <2>1, CoveredStays
<1>7. FromAbove' <=> FromAbove
  BY <1>2, StartStays
<1>8. NothingSkipped'
  BY <1>2, <1>6, <1>7 DEF NothingSkipped
<1> QED BY <1>5, <1>8

(* A scan is complete only with the whole range of the targets read.         *)
LEMMA StopReadsAll ==
    ASSUME Typed, NothingSkipped, FromAbove,
           \/ pc = "scan" /\ Position(page) = "old"
           \/ pc = "scan" /\ Position(page) = "empty" /\ ~page.more
           \/ pc = "scanned" /\ ~page.more
    PROVE  AllRead
<1>1. /\ page.rank \in Nat /\ Len(page.photos) \in Nat /\ Len(library) \in Nat
      /\ page.more = (page.rank + Len(page.photos) < Len(library))
  BY PageShape, LibraryShape DEF Typed
<1>2. CASE pc = "scan" /\ Position(page) = "old"
  <2>1. Covered(page.rank)
    BY <1>2 DEF NothingSkipped
  <2>2. \A i \in Ranks : i > page.rank => TooOld(library[i])
    BY <1>2, OldPage DEF Typed
  <2>3. \A i \in Ranks : i <= page.rank \/ i > page.rank
    BY <1>1 DEF Ranks
  <2> QED BY <2>1, <2>2, <2>3 DEF Covered, AllRead
<1>3. CASE pc = "scan" /\ Position(page) = "empty" /\ ~page.more
  <2>1. Covered(page.rank) /\ Len(page.photos) = 0
    BY <1>3, EmptyPage DEF NothingSkipped, Typed
  <2>2. ~(page.rank + 0 < Len(library))
    BY <1>1, <1>3, <2>1
  <2>3. \A i \in Ranks : i <= page.rank
    BY <1>1, <2>2 DEF Ranks
  <2> QED BY <2>1, <2>3 DEF Covered, AllRead
<1>4. CASE pc = "scanned" /\ ~page.more
  <2>1. Covered(Next1(page))
    BY <1>4 DEF NothingSkipped
  <2>2. ~(Next1(page) < Len(library)) /\ Next1(page) \in Nat
    <3>1. ~(page.rank + Len(page.photos) < Len(library))
      BY <1>1, <1>4
    <3> QED BY <1>1, <3>1 DEF Next1
  <2>3. \A i \in Ranks : i <= Next1(page)
    BY <1>1, <2>2 DEF Ranks
  <2> QED BY <2>1, <2>3 DEF Covered, AllRead
<1> QED BY <1>2, <1>3, <1>4

LEMMA EndStep ==
    ASSUME Typed, NothingSkipped, GiveUp \/ Stop
    PROVE  Typed' /\ NothingSkipped' /\ AnswersAreTrue'
<1>1. /\ UNCHANGED <<input, lower, page, step, pages, seen, faults>>
      /\ pc' = "done"
  BY DEF GiveUp, Stop, Finish
<1>2. Typed'
  BY <1>1 DEF Typed, input, Ranks, IsPage, RankOf
<1>3. NothingSkipped'
  BY <1>1 DEF NothingSkipped
<1>4. PICK complete \in BOOLEAN :
          /\ Finish(complete)
          /\ complete => \/ pc = "scan" /\ Position(page) = "old"
                         \/ pc = "scan" /\ Position(page) = "empty" /\ ~page.more
                         \/ pc = "scanned" /\ ~page.more
  BY DEF GiveUp, Stop
<1>5. complete => (FromAbove => AllRead)
  BY <1>4, StopReadsAll
<1>6. AnswersAreTrue'
  BY <1>1, <1>4, <1>5, FinishIsTrue
<1> QED BY <1>2, <1>3, <1>6

LEMMA FailureStep ==
    ASSUME Typed, NothingSkipped, Misordered \/ RequestFails
    PROVE  Typed' /\ NothingSkipped'
<1>1. /\ UNCHANGED <<input, lower, page, step, pages, seen>>
      /\ pc' = "failed" /\ faults' \in Nat
  BY DEF Misordered, RequestFails, Result, Fault, Typed
<1>2. Typed'
  BY <1>1 DEF Typed, input, Ranks, IsPage, RankOf
<1>3. NothingSkipped'
  BY <1>1 DEF NothingSkipped
<1> QED BY <1>2, <1>3

LEMMA QueryInvStep == QueryInv /\ [Next]_vars => QueryInv'
<1> SUFFICES ASSUME QueryInv, [Next]_vars PROVE QueryInv'
  OBVIOUS
<1>0. Typed /\ NothingSkipped /\ AnswersAreTrue
  BY DEF QueryInv
<1>1. CASE UNCHANGED vars
  <2>1. Typed' /\ NothingSkipped'
    BY <1>0, <1>1 DEF vars, input, Typed, Ranks, IsPage, RankOf, NothingSkipped, FromAbove,
          Passed, Covered, Next1, TooNew, Cohorts, Targets
  <2>2. AnswersAreTrue'
    BY <1>0, <1>1 DEF vars, input, AnswersAreTrue, FromAbove, Targets, Holders, Rivals,
          TooNew, Cohorts, InWindow
  <2> QED BY <2>1, <2>2 DEF QueryInv
<1>2. ASSUME pc' # "done" PROVE AnswersAreTrue'
  BY <1>2 DEF AnswersAreTrue
<1>3. CASE ReadFirst
  BY <1>0, <1>2, <1>3, ReadFirstStep DEF QueryInv, ReadFirst
<1>4. CASE Forward
  BY <1>0, <1>2, <1>4, ForwardStep DEF QueryInv, Forward
<1>5. CASE Bisect
  BY <1>0, <1>2, <1>5, BisectStep DEF QueryInv, Bisect
<1>6. CASE Back
  BY <1>0, <1>2, <1>6, BackStep DEF QueryInv, Back
<1>7. CASE BisectBack
  BY <1>0, <1>2, <1>7, BisectBackStep DEF QueryInv, BisectBack
<1>8. CASE Landed
  BY <1>0, <1>2, <1>8, LandedStep DEF QueryInv, Landed
<1>9. CASE GiveUp \/ Stop
  BY <1>0, <1>9, EndStep DEF QueryInv
<1>10. CASE Scan
  BY <1>0, <1>2, <1>10, ScanStep DEF QueryInv, Scan
<1>11. CASE NextPage
  BY <1>0, <1>2, <1>11, NextPageStep DEF QueryInv, NextPage
<1>12. CASE Misordered \/ RequestFails
  BY <1>0, <1>2, <1>12, FailureStep DEF QueryInv, Misordered, RequestFails
<1> QED
  BY <1>1, <1>3, <1>4, <1>5, <1>6, <1>7, <1>8, <1>9, <1>10, <1>11, <1>12 DEF Next

(* A match that resolve_original_assets_batch_outcome returns is the only    *)
(* photo of the library with its date and content, and no other target may   *)
(* claim it; a target it closes has no such photo: whatever the bisection    *)
(* met, with short pages and broken downloads on the way.                    *)
THEOREM AnswersTrue == Spec => []AnswersAreTrue
<1>1. Init => QueryInv
  BY TypedInit DEF Init, QueryInv, NothingSkipped, AnswersAreTrue
<1>2. QueryInv => AnswersAreTrue
  BY DEF QueryInv
<1> QED BY <1>1, <1>2, QueryInvStep, PTL DEF Spec

-----------------------------------------------------------------------------
(* What SearchConcludes says beside that the search ends: if all requests    *)
(* are answered in full, then it does not fail, and it leaves a target open  *)
(* only when it used up its pages.  The bisection never lands on a page of   *)
(* newer photos, and no page behind the one it lands on is newer.            *)
Conclusive ==
    faults = 0 =>
        /\ pc # "failed"
        /\ pc = "done" /\ pages < MaxPages =>
               \A t \in Targets : outcome[t].is # "transient"

(* The last page of a scan has a photo that is not too new, or is the last   *)
(* one of the library.                                                       *)
InOrder ==
    faults = 0 =>
        /\ broken = {}
        /\ pc # "first" => (Position(page) = "empty" => ~page.more)
        /\ pc \in {"back", "bisect", "bisectBack", "scan"} => Position(page) # "new"
        /\ pc = "scanned" => ~page.more \/ \E p \in Photos(page) : ~TooNew(p)

OrderInv == Typed /\ InOrder /\ Conclusive

(* Without a fault an answer is full, so an empty page is behind the end.    *)
LEMMA FullPages ==
    ASSUME Typed, NEW from \in Nat, NEW pg \in PagesAt(from), Reads(from, pg), faults' = 0
    PROVE  faults = 0 /\ IsPage(pg) /\ (Position(pg) = "empty" => ~pg.more)
<1>1. faults \in Nat
  BY DEF Typed
<1>2. faults = 0 /\ pg = Full(from)
  BY <1>1 DEF Reads, Fault
<1>3. IsPage(pg) /\ pg.rank = from
  BY PagesAtShape DEF Typed
<1>4. Len(library) \in Nat /\ PageSize \in Nat \ {0}
  BY LibraryShape, QueryAssumption DEF Typed
<1>5. ASSUME Len(pg.photos) = 0 PROVE ~(pg.rank + Len(pg.photos) < Len(library))
  <2> SUFFICES ASSUME from < Len(library) PROVE FALSE
    BY <1>3, <1>4, <1>5
  <2> DEFINE n == IF from + PageSize <= Len(library) THEN PageSize
                  ELSE IF from <= Len(library) THEN Len(library) - from ELSE 0
  <2>1. n \in Nat \ {0} /\ from + n <= Len(library)
    BY <1>4
  <2>2. pg.photos = SubSeq(library, from + 1, from + n)
    BY <1>2 DEF Full, RankOf
  <2> HIDE DEF n
  <2>3. library \in Seq({library[i] : i \in Ranks})
    BY LibraryShape DEF Typed
  <2>4. Len(pg.photos) = n
    BY <2>1, <2>2, <2>3
  <2> QED BY <1>5, <2>1, <2>4
<1>6. Position(pg) = "empty" => ~pg.more
  <2>1. pg.more = (pg.rank + Len(pg.photos) < Len(library))
    BY <1>3, PageShape DEF Typed
  <2> QED BY <1>3, <1>5, <2>1, EmptyPage DEF Typed
<1> QED BY <1>2, <1>3, <1>6

(* The page behind one that is not too new is not too new either.            *)
LEMMA NextIsNotNewer ==
    ASSUME Typed, NEW pg, IsPage(pg), pg.rank = Next1(page),
           NEW p \in Photos(page), ~TooNew(p)
    PROVE  Position(pg) # "new"
<1> SUFFICES ASSUME Position(pg) = "new" PROVE FALSE
  OBVIOUS
<1>1. /\ page.rank \in Nat /\ Len(page.photos) \in Nat /\ Len(library) \in Nat
      /\ Len(page.photos) = 0 \/ page.rank + Len(page.photos) <= Len(library)
      /\ Photos(page) = {library[i] : i \in (page.rank + 1) .. (page.rank + Len(page.photos))}
  BY PageShape, LibraryShape DEF Typed
<1>2. PICK i \in (page.rank + 1) .. (page.rank + Len(page.photos)) : p = library[i]
  BY <1>1
<1>3. i \in Ranks /\ i <= pg.rank + 1
  BY <1>1, <1>2 DEF Ranks, Next1
<1>4. Passed(pg.rank + 1)
  BY NewPage DEF Typed
<1> QED BY <1>2, <1>3, <1>4 DEF Passed

LEMMA SamePage ==
    ASSUME UNCHANGED input, NEW pg, page' = pg
    PROVE  /\ Position(page)' = Position(pg) /\ (page.more)' = pg.more
           /\ (\E p \in Photos(page) : ~TooNew(p))' <=> \E p \in Photos(pg) : ~TooNew(p)
BY DEF input, Position, Photos, TooNew, TooOld, Cohorts, Targets

(* A request before the scan, or of its next page.                           *)
LEMMA ProbeInOrder ==
    ASSUME Typed, InOrder, UNCHANGED <<input, broken>>,
           NEW from \in Nat, NEW pg \in PagesAt(from), Reads(from, pg),
           \/ page' = page /\ pc # "first"
           \/ page' = pg,
           pc' \in {"forward", "back", "bisect", "bisectBack", "scan"},
           pc' # "forward" =>
               \/ page' = pg /\ Position(pg) # "new"
               \/ page' = page /\ pc \in {"back", "bisect", "bisectBack"}
    PROVE  InOrder' /\ Conclusive'
<1>1. Conclusive'
  BY DEF Conclusive
<1>2. ASSUME faults' = 0
      PROVE  /\ broken' = {}
             /\ (Position(page) = "empty" => ~page.more)'
             /\ pc' # "forward" => (Position(page) # "new")'
  <2>1. faults = 0 /\ IsPage(pg) /\ (Position(pg) = "empty" => ~pg.more)
    BY <1>2, FullPages
  <2>2. broken' = {}
    BY <2>1 DEF InOrder
  <2>3. CASE page' = pg /\ (pc' # "forward" => Position(pg) # "new")
    BY <2>1, <2>2, <2>3, SamePage
  <2>4. CASE /\ page' = page /\ pc # "first"
             /\ pc' # "forward" => pc \in {"back", "bisect", "bisectBack"}
    BY <2>1, <2>2, <2>4, SamePage DEF InOrder
  <2>5. \/ page' = pg /\ (pc' # "forward" => Position(pg) # "new")
        \/ /\ page' = page /\ pc # "first"
           /\ pc' # "forward" => pc \in {"back", "bisect", "bisectBack"}
    OBVIOUS
  <2> QED BY <2>3, <2>4, <2>5
<1>3. InOrder'
  BY <1>2 DEF InOrder
<1> QED BY <1>1, <1>3

LEMMA OrderInvStep == OrderInv /\ Typed' /\ [Next]_vars => InOrder' /\ Conclusive'
<1> SUFFICES ASSUME OrderInv, Typed', [Next]_vars PROVE InOrder' /\ Conclusive'
  OBVIOUS
<1>0. Typed /\ InOrder /\ Conclusive
  BY DEF OrderInv
<1>t. /\ start \in Nat /\ lower \in Nat /\ step \in Nat /\ page.rank \in Nat
      /\ Next1(page) \in Nat /\ faults \in Nat
  BY <1>0, QueryAssumption, PageShape DEF Typed, Next1
<1>1. CASE ReadFirst
  BY <1>0, <1>1, <1>t, ProbeInOrder DEF ReadFirst, Result
<1>2. CASE Forward
  <2>1. start + step \in Nat
    BY <1>t
  <2> QED BY <1>0, <1>2, <2>1, ProbeInOrder DEF Forward, Result
<1>3. CASE Bisect
  <2>1. Mid \in Nat
    BY <1>0, <1>3, MidIsBetween DEF Bisect
  <2> QED BY <1>0, <1>3, <2>1, ProbeInOrder DEF Bisect, Result
<1>4. CASE Back
  <2> DEFINE probe == IF page.rank > step THEN page.rank - step ELSE 0
  <2>1. probe \in Nat
    BY <1>t
  <2>2. PICK pg \in PagesAt(probe) :
            /\ Reads(probe, pg)
            /\ \/ Position(pg) = "new" /\ page' = page /\ pc' = "bisectBack"
               \/ Position(pg) # "new" /\ page' = pg /\ pc' \in {"back", "scan"}
    BY <1>4 DEF Back
  <2>3. pc = "back" /\ UNCHANGED <<input, broken>>
    BY <1>4 DEF Back, Result
  <2> HIDE DEF probe
  <2> QED BY <1>0, <2>1, <2>2, <2>3, ProbeInOrder
<1>5. CASE BisectBack
  <2>1. Mid \in Nat
    BY <1>0, <1>5, MidIsBetween DEF BisectBack
  <2> QED BY <1>0, <1>5, <2>1, ProbeInOrder DEF BisectBack, Result
<1>6. CASE NextPage
  <2>1. PICK pg \in PagesAt(Next1(page)) : Reads(Next1(page), pg) /\ page' = pg
    BY <1>6 DEF NextPage
  <2>2. pc = "scanned" /\ page.more /\ pc' = "scan" /\ UNCHANGED <<input, broken>>
    BY <1>6 DEF NextPage, Result
  <2>3. CASE faults' = 0
    <3>1. faults = 0 /\ IsPage(pg) /\ pg.rank = Next1(page)
      BY <1>0, <1>t, <2>1, <2>3, FullPages, PagesAtShape DEF Typed
    <3>2. PICK p \in Photos(page) : ~TooNew(p)
      BY <1>0, <2>2, <3>1 DEF InOrder
    <3>3. Position(pg) # "new"
      BY <1>0, <3>1, <3>2, NextIsNotNewer
    <3> QED BY <1>0, <1>t, <2>1, <2>2, <3>3, ProbeInOrder
  <2>4. CASE faults' # 0
    BY <2>4 DEF InOrder, Conclusive
  <2> QED BY <2>3, <2>4
<1>7. CASE Landed
  <2>1. /\ UNCHANGED <<input, page, broken, faults>>
        /\ pc \in {"bisect", "bisectBack"} /\ pc' = "scan"
    BY <1>7 DEF Landed, Result
  <2>2. Position(page)' = Position(page)
    BY <2>1, SamePage
  <2> QED BY <1>0, <2>1, <2>2 DEF InOrder, Conclusive
<1>8. CASE Scan
  <2>1. /\ pc = "scan" /\ pc' = "scanned" /\ UNCHANGED <<input, page>>
        /\ Position(page) = "overlaps" \/ (Position(page) = "empty" /\ page.more)
        /\ UNCHANGED <<broken, faults>> \/ faults' = faults + 1
    BY <1>8 DEF Scan, Fault
  <2>2. Conclusive'
    BY <2>1 DEF Conclusive
  <2>3. ASSUME faults' = 0
        PROVE  /\ broken' = {} /\ (Position(page) # "empty")'
               /\ (\E p \in Photos(page) : ~TooNew(p))'
    <3>1. faults = 0 /\ broken' = broken
      BY <2>1, <2>3, <1>t
    <3>2. broken = {} /\ Position(page) = "overlaps"
      BY <1>0, <2>1, <3>1 DEF InOrder
    <3>3. \E p \in Photos(page) : ~TooNew(p)
      BY <3>2 DEF Position
    <3> QED BY <2>1, <3>1, <3>2, <3>3, SamePage
  <2>4. InOrder'
    BY <2>1, <2>3 DEF InOrder
  <2> QED BY <2>2, <2>4
<1>9. CASE GiveUp \/ Stop
  <2>1. /\ UNCHANGED <<input, page, broken, faults, pages>> /\ pc' = "done"
        /\ pc # "first" /\ pages \in Nat /\ MaxPages \in Nat
    BY <1>0, <1>9, QueryAssumption DEF GiveUp, Stop, Finish, Typed
  <2>2. InOrder'
    <3>1. Position(page)' = Position(page)
      BY <2>1, SamePage
    <3> QED BY <1>0, <2>1, <3>1 DEF InOrder
  <2>3. ASSUME faults = 0, pages < MaxPages, NEW t \in Targets
        PROVE  outcome'[t].is # "transient"
    <3>1. outcome' = [u \in Targets |-> Answer(u)]
      BY <1>9, <2>1, <2>3 DEF GiveUp, Stop, Finish
    <3>2. ~Inconclusive(request[t].captured, t)
      BY <1>0, <2>3 DEF InOrder, Inconclusive
    <3> QED BY <3>1, <3>2 DEF Answer, Disposition
  <2>4. Targets' = Targets
    BY <2>1 DEF input, Targets
  <2>5. Conclusive'
    BY <2>1, <2>3, <2>4 DEF Conclusive
  <2> QED BY <2>2, <2>5
<1>10. CASE Misordered \/ RequestFails
  <2>1. faults' # 0
    BY <1>0, <1>10, <1>t DEF Misordered, RequestFails, Fault, InOrder
  <2> QED BY <2>1 DEF InOrder, Conclusive
<1>11. CASE UNCHANGED vars
  <2>1. UNCHANGED <<input, page, broken, faults, pages, pc, outcome>> /\ Targets' = Targets
    BY <1>11 DEF vars, input, Targets
  <2>2. /\ Position(page)' = Position(page) /\ (page.more)' = page.more
        /\ (\E p \in Photos(page) : ~TooNew(p))' <=> \E p \in Photos(page) : ~TooNew(p)
    BY <2>1, SamePage
  <2> QED BY <1>0, <2>1, <2>2 DEF InOrder, Conclusive
<1> QED
  BY <1>1, <1>2, <1>3, <1>4, <1>5, <1>6, <1>7, <1>8, <1>9, <1>10, <1>11 DEF Next

(* The search decides every target if nothing fails and its pages suffice:   *)
(* it never meets the error of a page out of order by its own doing.         *)
THEOREM SearchIsConclusive == Spec => []Conclusive
<1>1. Init => QueryInv /\ OrderInv
  BY TypedInit DEF Init, QueryInv, NothingSkipped, AnswersAreTrue, OrderInv, InOrder, Conclusive
<1>2. QueryInv /\ OrderInv /\ [Next]_vars => QueryInv' /\ OrderInv'
  BY QueryInvStep, OrderInvStep DEF QueryInv, OrderInv
<1>3. OrderInv => Conclusive
  BY DEF OrderInv
<1> QED BY <1>1, <1>2, <1>3, PTL DEF Spec
=============================================================================
