------------------------ MODULE RetryAdmissionProofs ------------------------
(* Proofs about RetryAdmission, for any assets, modes, limits and bounds.   *)
EXTENDS RetryAdmission, FiniteSetTheorems, TLAPS

-----------------------------------------------------------------------------
(* What is true of every record, in memory and in the store.                *)

Sound(r) ==
    /\ r \in Records
    /\ r.kind # "none" => r.fails > 0
    /\ r.marker # NoMarker =>
          r.original /\ (r.adjusted \/ r.state \in {"failed", "review"})
    /\ r.retry.version = 0 => r.retry = NoRetry
    /\ r.retry.version # 0 =>
          /\ r.original /\ r.retry.at > 0 /\ r.state # "new"
          /\ r.retry.version = 2 => r.retry.cumulative <= r.fails
          /\ r.retry.version = 3 => r.retry.at - r.retry.start + 1 = r.retry.cumulative
          /\ r.marker = NoMarker /\ r.state \in Running => r.fails = r.retry.at
          /\ r.marker = NoMarker /\ r.state = "failed" => r.fails = r.retry.at + 1

SoundManifest(m) == m \in [Assets -> Records] /\ \A a \in Assets : Sound(m[a])

(* What the admissions may do with a failed record. *)
MayRetry(r) ==
    /\ r.state = "failed" /\ r.marker = NoMarker /\ r.original
    /\ r.kind \in Retryable /\ Readable(r) /\ ~Exhausted(r)

MayMark(r) ==
    /\ r.state = "failed" /\ r.original /\ ~r.adjusted /\ r.reached = "nas"
    /\ \/ r.marker = NoMarker
       \/ ResolverFailed(r) /\ r.marker.attempt < MaxAdjusted

Interrupted(r) ==
    r.state \in {"nas", "converted", "verified"} /\ r.kind = "resolve" /\ ~r.original

Retries(r, s) ==
    \/ s = r
    \/ r.state = "failed" /\ s = Reviewed(r)
    \/ MayRetry(r) /\ s = Retried(r)

Marks(r, s) ==
    \/ s = r
    \/ MayMark(r) /\ s = Marked(r)

Reviews(r, s) ==
    \/ s = r
    \/ ResolverFailed(r) /\ s = Reviewed(r)

Recovers(r, s) ==
    \/ s = r
    \/ Interrupted(r) /\ s \in {Requeued(r), Recovered(Requeued(r))}
    \/ r.state = "failed" /\ ~r.original /\ s = Recovered(r)

Admitted(r, s) ==
    \/ Retries(r, s) \/ Marks(r, s) \/ Reviews(r, s) \/ Recovers(r, s)

LEMMA PolicyTypes ==
  /\ Retryable = {"visual", "metadata", "output", "timeout"}
  /\ \A k \in Retryable : MaxAttempts[k] \in 0 .. MaxCumulative
  /\ \A k \in Retryable : RetryState[k] \in {"nas", "converted"}
BY DEF Retryable, MaxAttempts, RetryState, MaxCumulative

LEMMA SoundReviewed ==
  ASSUME NEW r, Sound(r), r.state = "failed"
  PROVE  Sound(Reviewed(r))
BY DEF Sound, Reviewed, Records, States, Running

LEMMA SoundRetried ==
  ASSUME NEW r, Sound(r), MayRetry(r)
  PROVE  Sound(Retried(r))
<1> DEFINE s == Retried(r)
<1>0. r \in Records
  BY DEF Sound
<1>1. Category(r) \in 0 .. MaxCumulative /\ Category(r) < MaxCumulative
  BY <1>0, PolicyTypes DEF MayRetry, Exhausted, Category, Records, MaxCumulative
<1>2. r.retry.cumulative + 1 \in 0 .. MaxCumulative
  BY <1>0 DEF MayRetry, Exhausted, Records, MaxCumulative
<1>3. RetryState[r.kind] \in States /\ RetryState[r.kind] \in Running
  BY PolicyTypes DEF MayRetry, States, Running
<1>4. /\ Lineage(r) \in Nat
      /\ r.fails - Lineage(r) + 1 = r.retry.cumulative + 1
  <2>1. CASE r.retry.version = 0
    BY <1>0, <2>1 DEF Sound, Lineage, NoRetry, Records
  <2>2. CASE r.retry.version = 2
    BY <1>0, <2>2 DEF Sound, Lineage, Records
  <2>3. CASE r.retry.version = 3
    BY <1>0, <2>3 DEF Sound, MayRetry, Lineage, Records, Readable
  <2> QED BY <1>0, <2>1, <2>2, <2>3 DEF Records
<1>5. s = [r EXCEPT !.state = RetryState[r.kind],
                    !.retry = [version |-> 3, kind |-> r.kind,
                               category |-> Category(r) + 1,
                               cumulative |-> r.retry.cumulative + 1,
                               start |-> Lineage(r), at |-> r.fails]]
  BY DEF Retried
<1>6. r.fails \in Nat /\ r.fails > 0 /\ r.kind \in Retryable /\ r.marker = NoMarker
  BY <1>0, PolicyTypes DEF Sound, MayRetry, Records
<1>7. Category(r) + 1 \in 0 .. MaxCumulative
  BY <1>1 DEF MaxCumulative
<1>8. s \in Records
  <2> DEFINE proof == [version |-> 3, kind |-> r.kind, category |-> Category(r) + 1,
                       cumulative |-> r.retry.cumulative + 1,
                       start |-> Lineage(r), at |-> r.fails]
             state == RetryState[r.kind]
  <2>1. proof \in [version : {0, 2, 3}, kind : Retryable \union {"none"},
                   category : 0 .. MaxCumulative, cumulative : 0 .. MaxCumulative,
                   start : Nat, at : Nat]
    BY <1>2, <1>4, <1>6, <1>7
  <2>2. s = [r EXCEPT !.state = state, !.retry = proof] /\ state \in States
    BY <1>3, <1>5
  <2> HIDE DEF proof, state, s
  <2> QED BY <1>0, <2>1, <2>2 DEF Records
<1>9. /\ s.kind = r.kind /\ s.fails = r.fails /\ s.marker = NoMarker /\ s.original
      /\ s.state = RetryState[r.kind] /\ s.retry.version = 3 /\ s.retry.at = r.fails
      /\ s.retry.start = Lineage(r) /\ s.retry.cumulative = r.retry.cumulative + 1
  BY <1>0, <1>5, <1>6 DEF Records, MayRetry
<1> QED BY <1>3, <1>4, <1>6, <1>8, <1>9 DEF Sound, Running

LEMMA SoundMarked ==
  ASSUME NEW r, Sound(r), MayMark(r)
  PROVE  Sound(Marked(r))
<1>0. r \in Records
  BY DEF Sound
<1>1. r.marker.attempt + 1 \in 0 .. MaxAdjusted /\ r.marker.attempt + 1 > 0
  BY <1>0 DEF MayMark, NoMarker, Records, MaxAdjusted
<1>2. Marked(r) = [r EXCEPT !.marker = [attempt |-> r.marker.attempt + 1, at |-> r.fails]]
  BY <1>0 DEF Marked, Records
<1>3. Marked(r) \in Records /\ Marked(r).marker # NoMarker
  BY <1>0, <1>1, <1>2 DEF Records, NoMarker
<1> QED BY <1>0, <1>2, <1>3 DEF Sound, MayMark, Records

LEMMA SoundRequeued ==
  ASSUME NEW r, Sound(r), Interrupted(r)
  PROVE  Sound(Requeued(r)) /\ Requeued(r).state = "failed" /\ ~Requeued(r).original
BY DEF Sound, Interrupted, Requeued, Records, States, Running

LEMMA SoundRecovered ==
  ASSUME NEW r, Sound(r), r.state = "failed", ~r.original
  PROVE  Sound(Recovered(r)) /\ Recovered(r).state \in Running
<1>1. r \in Records /\ r.marker = NoMarker /\ r.retry.version = 0
  BY DEF Sound, Records
<1>2. PICK st \in {"verified", "converted", "nas"} : Recovered(r) = [r EXCEPT !.state = st]
  BY <1>1 DEF Recovered, Records
<1> QED BY <1>1, <1>2 DEF Sound, Records, States, Running

LEMMA SoundAdmitted ==
  ASSUME NEW r, Sound(r), NEW s, Admitted(r, s)
  PROVE  Sound(s)
<1>1. CASE Retries(r, s)
  BY <1>1, SoundReviewed, SoundRetried DEF Retries
<1>2. CASE Marks(r, s)
  BY <1>2, SoundMarked DEF Marks
<1>3. CASE Reviews(r, s)
  BY <1>3, SoundReviewed DEF Reviews, ResolverFailed, MarkerUsable
<1>4. CASE Recovers(r, s)
  BY <1>4, SoundRequeued, SoundRecovered DEF Recovers
<1> QED BY <1>1, <1>2, <1>3, <1>4 DEF Admitted
-----------------------------------------------------------------------------
(* Each admission does to a record one of those things.                     *)

LEMMA FirstOfSubset ==
  ASSUME NEW S, NEW n, NEW rank, NEW T \in FirstOf(S, n, rank)
  PROVE  T \subseteq S
BY DEF FirstOf

LEMMA ReplacedValue ==
  ASSUME NEW m, NEW new
  PROVE  \A a \in Assets : Replaced(m, new)[a] = IF a \in DOMAIN new THEN new[a] ELSE m[a]
BY DEF Replaced

LEMMA FailedRetriesAdmit ==
  ASSUME NEW q, q.m \in [Assets -> Records], NEW p \in FailedRetries(q)
  PROVE  \A a \in Assets : Retries(q.m[a], p.m[a])
<1> DEFINE n == ReviewedIn(q.m, Content(q.m))
<1>1. PICK S \in Oldest(RetryReady(n), Least(Remaining(q), MaxAdmissions)) :
        p = [m |-> WithRetries(n, S), occupied |-> q.occupied + Cardinality(S)]
  BY DEF FailedRetries
<1>2. S \subseteq RetryReady(n) /\ p.m = WithRetries(n, S)
  BY <1>1, FirstOfSubset DEF Oldest
<1>3. \A a \in Assets : n[a] = IF a \in Content(q.m) THEN Reviewed(q.m[a]) ELSE q.m[a]
  BY ReplacedValue DEF ReviewedIn
<1>4. \A a \in Assets : p.m[a] = IF a \in S THEN Retried(n[a])
                              ELSE IF a \in Spent(n) THEN Reviewed(n[a]) ELSE n[a]
  BY <1>2, ReplacedValue DEF WithRetries
<1>5. \A a \in Considered(n) : /\ n[a].state = "failed"
                              /\ n[a].marker = NoMarker /\ n[a].original
                              /\ n[a].kind \in Retryable /\ Readable(n[a])
  BY DEF Considered
<1>6. Spent(n) \subseteq Considered(n) /\ S \subseteq Considered(n)
  BY <1>2 DEF Spent, RetryReady
<1>7. \A a \in S : ~Exhausted(n[a])
  BY <1>2 DEF RetryReady, Spent
<1>8. \A a \in Content(q.m) : q.m[a].state = "failed" /\ q.m[a].kind = "content"
  BY DEF Content
<1> HIDE DEF n
<1>9. ASSUME NEW a \in Assets, a \in Content(q.m) PROVE a \notin Considered(n)
  <2>1. n[a].kind = "content"
    BY <1>3, <1>8, <1>9 DEF Reviewed, Records
  <2> QED BY <2>1, <1>5, PolicyTypes
<1> SUFFICES ASSUME NEW a \in Assets PROVE Retries(q.m[a], p.m[a])
  OBVIOUS
<1>10. CASE a \in Content(q.m)
  BY <1>10, <1>3, <1>4, <1>6, <1>8, <1>9 DEF Retries
<1>11. CASE a \notin Content(q.m)
  BY <1>11, <1>3, <1>4, <1>5, <1>6, <1>7 DEF Retries, MayRetry
<1> QED BY <1>10, <1>11

LEMMA AdjustedSourcesPick ==
  ASSUME NEW p, NEW q \in AdjustedSources(p)
  PROVE  \E F \in Oldest(FirstMarks(p.m), Least(MaxAdmissions, Remaining(p))) :
         \E R \in Oldest(NextMarks(p.m), MaxAdmissions) :
         \E S \in Oldest(F \union R, MaxAdmissions) :
            q = [m |-> MarkedIn(p.m, S),
                 occupied |-> p.occupied + Cardinality(S \intersect F)]
BY DEF AdjustedSources

LEMMA AdjustedSourcesMark ==
  ASSUME NEW p, NEW q \in AdjustedSources(p)
  PROVE  \A a \in Assets : Marks(p.m[a], q.m[a])
<1>1. PICK S \in SUBSET (FirstMarks(p.m) \union NextMarks(p.m)) : q.m = MarkedIn(p.m, S)
  <2>0. PICK F \in Oldest(FirstMarks(p.m), Least(MaxAdmissions, Remaining(p))) :
           \E R \in Oldest(NextMarks(p.m), MaxAdmissions) :
           \E S \in Oldest(F \union R, MaxAdmissions) :
              q = [m |-> MarkedIn(p.m, S),
                   occupied |-> p.occupied + Cardinality(S \intersect F)]
    BY AdjustedSourcesPick
  <2>1. PICK R \in Oldest(NextMarks(p.m), MaxAdmissions) :
           \E S \in Oldest(F \union R, MaxAdmissions) :
              q = [m |-> MarkedIn(p.m, S),
                   occupied |-> p.occupied + Cardinality(S \intersect F)]
    BY <2>0
  <2>2. PICK S \in Oldest(F \union R, MaxAdmissions) :
              q = [m |-> MarkedIn(p.m, S),
                   occupied |-> p.occupied + Cardinality(S \intersect F)]
    BY <2>1
  <2>3. q.m = MarkedIn(p.m, S)
    BY <2>2
  <2>4. F \subseteq FirstMarks(p.m) /\ R \subseteq NextMarks(p.m) /\ S \subseteq F \union R
    BY FirstOfSubset DEF Oldest
  <2> QED BY <2>3, <2>4
<1>2. \A a \in S : MayMark(p.m[a])
  BY <1>1 DEF FirstMarks, NextMarks, MayMark, ResolverFailed, MarkerUsable
<1>3. \A a \in Assets : q.m[a] = IF a \in S THEN Marked(p.m[a]) ELSE p.m[a]
  BY <1>1, ReplacedValue DEF MarkedIn
<1> SUFFICES ASSUME NEW a \in Assets PROVE Marks(p.m[a], q.m[a])
  OBVIOUS
<1>4. CASE a \in S
  BY <1>2, <1>3, <1>4 DEF Marks
<1>5. CASE a \notin S
  BY <1>3, <1>5 DEF Marks
<1> QED BY <1>4, <1>5

LEMMA ExhaustedMarkersReview ==
  ASSUME NEW p
  PROVE  \A a \in Assets : Reviews(p.m[a], ExhaustedMarkers(p).m[a])
<1> DEFINE S == {a \in Assets : ResolverFailed(p.m[a]) /\ p.m[a].marker.attempt >= MaxAdjusted}
<1>1. ExhaustedMarkers(p).m = ReviewedIn(p.m, S)
  BY DEF ExhaustedMarkers
<1>2. \A a \in Assets : ExhaustedMarkers(p).m[a] = IF a \in S THEN Reviewed(p.m[a]) ELSE p.m[a]
  BY <1>1, ReplacedValue DEF ReviewedIn
<1>3. \A a \in S : ResolverFailed(p.m[a])
  OBVIOUS
<1> HIDE DEF S
<1> SUFFICES ASSUME NEW a \in Assets PROVE Reviews(p.m[a], ExhaustedMarkers(p).m[a])
  OBVIOUS
<1>4. CASE a \in S
  BY <1>2, <1>3, <1>4 DEF Reviews
<1>5. CASE a \notin S
  BY <1>2, <1>5 DEF Reviews
<1> QED BY <1>4, <1>5

LEMMA ResolverRetriesPick ==
  ASSUME NEW p, NEW q \in ResolverRetries(p), NEW n, n = RequeuedIn(p.m, InterruptedIn(p.m))
  PROVE  \E T \in SUBSET ResolverReady(n) : q.m = RecoveredIn(n, T)
<1> DEFINE free == [m |-> n, occupied |-> Released(p, Cardinality(InterruptedIn(p.m)))]
<1>1. PICK T \in Oldest(ResolverReady(n), Least(Remaining(free), MaxResolverRetries)) :
        q = [m |-> RecoveredIn(n, T), occupied |-> free.occupied + Cardinality(T)]
  BY DEF ResolverRetries
<1>2. T \subseteq ResolverReady(n)
  BY FirstOfSubset DEF Oldest
<1> QED BY <1>1, <1>2

LEMMA ResolverRetriesRecover ==
  ASSUME NEW p, NEW q \in ResolverRetries(p)
  PROVE  \A a \in Assets : Recovers(p.m[a], q.m[a])
<1> DEFINE n == RequeuedIn(p.m, InterruptedIn(p.m))
<1>1. PICK T \in SUBSET ResolverReady(n) : q.m = RecoveredIn(n, T)
  BY ResolverRetriesPick
<1>2. \A a \in Assets :
         /\ n[a] = IF a \in InterruptedIn(p.m) THEN Requeued(p.m[a]) ELSE p.m[a]
         /\ q.m[a] = IF a \in T THEN Recovered(n[a]) ELSE n[a]
  BY <1>1, ReplacedValue DEF RequeuedIn, RecoveredIn
<1>3. \A a \in T : n[a].state = "failed" /\ ~n[a].original
  BY <1>1 DEF ResolverReady
<1>4. \A a \in InterruptedIn(p.m) : Interrupted(p.m[a])
  BY DEF InterruptedIn, Interrupted
<1> HIDE DEF n
<1> QED BY <1>2, <1>3, <1>4 DEF Recovers

LEMMA ResolverRetriesMap ==
  ASSUME NEW p, NEW q \in ResolverRetries(p)
  PROVE  q.m = [a \in Assets |-> q.m[a]]
<1>1. PICK T : q.m = RecoveredIn(RequeuedIn(p.m, InterruptedIn(p.m)), T)
  BY ResolverRetriesPick
<1> QED BY <1>1 DEF RecoveredIn, Replaced

(* Nothing happens twice to a record in the admissions of one scan. *)
LEMMA AdmissionsAdmit ==
  ASSUME NEW m, SoundManifest(m), NEW p \in Admissions(m)
  PROVE  /\ p.m \in [Assets -> Records]
         /\ \A a \in Assets : Admitted(m[a], p.m[a])
<1>0. PICK q \in FailedRetries([m |-> m, occupied |-> Occupied(m)]) :
           \E u \in AdjustedSources(q) : p \in ResolverRetries(ExhaustedMarkers(u))
  BY DEF Admissions
<1>1. PICK u \in AdjustedSources(q) : p \in ResolverRetries(ExhaustedMarkers(u))
  BY <1>0
<1> DEFINE x == ExhaustedMarkers(u)
<1>3. ASSUME NEW a \in Assets PROVE Admitted(m[a], p.m[a])
  <2>1. Retries(m[a], q.m[a])
    BY <1>0, FailedRetriesAdmit DEF SoundManifest
  <2>2. Marks(q.m[a], u.m[a])
    BY <1>1, AdjustedSourcesMark
  <2>3. Reviews(u.m[a], x.m[a])
    BY ExhaustedMarkersReview
  <2>4. Recovers(x.m[a], p.m[a])
    BY <1>1, ResolverRetriesRecover
  <2>5. Sound(m[a]) /\ m[a] \in Records
    BY DEF SoundManifest
  <2>6. CASE q.m[a] # m[a]
    <3>1. q.m[a].state # "failed"
      BY <2>1, <2>5, <2>6, PolicyTypes DEF Retries, MayRetry, Reviewed, Retried, Records
    <3>2. u.m[a] = q.m[a] /\ x.m[a] = q.m[a]
      BY <2>2, <2>3, <3>1 DEF Marks, MayMark, Reviews, ResolverFailed, MarkerUsable
    <3>3. ~Interrupted(q.m[a])
      BY <2>1, <2>5, <2>6 DEF Retries, MayRetry, Reviewed, Retried, Interrupted, Records
    <3> QED BY <2>1, <2>4, <3>1, <3>2, <3>3 DEF Recovers, Admitted
  <2>7. CASE q.m[a] = m[a] /\ u.m[a] # m[a]
    <3>1. MayMark(m[a]) /\ u.m[a] = Marked(m[a])
      BY <2>2, <2>7 DEF Marks
    <3>2. u.m[a] \in Records
      BY <2>5, <3>1, SoundMarked DEF Sound
    <3>3. /\ u.m[a].state = "failed" /\ u.m[a].original
          /\ u.m[a].marker.at = u.m[a].fails /\ u.m[a].fails \in Nat
      BY <2>5, <3>1, <3>2 DEF MayMark, Marked, Records
    <3>4. x.m[a] = u.m[a]
      BY <2>3, <3>3 DEF Reviews, ResolverFailed
    <3>5. p.m[a] = u.m[a]
      BY <2>4, <3>3, <3>4 DEF Recovers, Interrupted
    <3> QED BY <3>5, <2>2, <2>7 DEF Admitted
  <2>8. CASE q.m[a] = m[a] /\ u.m[a] = m[a] /\ x.m[a] # m[a]
    <3>1. ResolverFailed(m[a]) /\ x.m[a] = Reviewed(m[a])
      BY <2>3, <2>8 DEF Reviews
    <3>2. x.m[a].state = "review"
      BY <2>5, <3>1 DEF Reviewed, Records
    <3>3. p.m[a] = x.m[a]
      BY <2>4, <3>2 DEF Recovers, Interrupted
    <3> QED BY <2>3, <2>8, <3>3 DEF Admitted
  <2>9. CASE q.m[a] = m[a] /\ u.m[a] = m[a] /\ x.m[a] = m[a]
    BY <2>4, <2>9 DEF Admitted
  <2> QED BY <2>6, <2>7, <2>8, <2>9
<1>4. \A a \in Assets : p.m[a] \in Records
  BY <1>3, SoundAdmitted DEF SoundManifest, Sound
<1>5. p.m = [a \in Assets |-> p.m[a]]
  BY <1>1, ResolverRetriesMap
<1> QED BY <1>3, <1>4, <1>5

LEMMA SoundAdmissions ==
  ASSUME NEW m, SoundManifest(m), NEW p \in Admissions(m)
  PROVE  SoundManifest(p.m)
BY AdmissionsAdmit, SoundAdmitted DEF SoundManifest
-----------------------------------------------------------------------------
(* The steps of work on a record.                                           *)

Worked(r, s) ==
    /\ r.state \in Running \union {"new"}
    /\ s \in Records
    /\ s.kind # "none" => s.fails > 0
    /\ s.retry = r.retry /\ s.marker = r.marker /\ s.adjusted = r.adjusted
    /\ s.original \in {r.original, TRUE}
    /\ \/ s.state \in Running \union {"closed", "review"} /\ s.fails = r.fails
       \/ s.state = "failed" /\ s.fails = r.fails + 1

Resolved(r) == [r EXCEPT !.state = "nas", !.adjusted = TRUE]
SourceResolved(r, s) == Current(r) /\ s \in {Fail(r, "adjusted"), Resolved(r)}

LEMMA FailType ==
  ASSUME NEW r \in Records, NEW k \in Kinds
  PROVE  Fail(r, k) \in Records
<1>1. r.fails + 1 \in Nat /\ "failed" \in States /\ k \in Kinds \union {"none"}
  BY DEF Records, States
<1>2. Fail(r, k) = [r EXCEPT !.state = "failed", !.kind = k, !.fails = r.fails + 1]
  BY DEF Fail, Records
<1> QED BY <1>1, <1>2 DEF Records

LEMMA WorkedFail ==
  ASSUME NEW r, Sound(r), r.state \in Running, NEW k \in Kinds
  PROVE  Worked(r, Fail(r, k))
<1>1. r \in Records
  BY DEF Sound
<1>2. Fail(r, k) = [r EXCEPT !.state = "failed", !.kind = k, !.fails = r.fails + 1]
  BY <1>1 DEF Fail, Records
<1>3. Fail(r, k) \in Records
  BY <1>1, FailType
<1> QED BY <1>1, <1>2, <1>3 DEF Worked, Records

LEMMA SoundWorked ==
  ASSUME NEW r, Sound(r), NEW s, Worked(r, s)
  PROVE  Sound(s)
<1>1. /\ r \in Records /\ s \in Records
      /\ s.retry = r.retry /\ s.marker = r.marker
      /\ r.original => s.original
  BY DEF Sound, Worked
<1>2. s.marker # NoMarker => s.original /\ (s.adjusted \/ s.state \in {"failed", "review"})
  BY DEF Sound, Worked, Running
<1>3. ASSUME s.retry.version # 0
      PROVE  /\ r.state \in Running
             /\ r.marker = NoMarker => r.fails = r.retry.at
  BY <1>1, <1>3 DEF Sound, Worked
<1>4. ASSUME s.retry.version # 0
      PROVE  /\ s.original /\ s.retry.at > 0 /\ s.state # "new"
             /\ s.retry.version = 2 => s.retry.cumulative <= s.fails
             /\ s.retry.version = 3 => s.retry.at - s.retry.start + 1 = s.retry.cumulative
  <2>1. /\ r.original /\ r.retry.at > 0
        /\ r.retry.version = 2 => r.retry.cumulative <= r.fails
        /\ r.retry.version = 3 => r.retry.at - r.retry.start + 1 = r.retry.cumulative
    BY <1>1, <1>4 DEF Sound
  <2>2. s.fails >= r.fails /\ s.state # "new"
    BY <1>1 DEF Worked, Running, Records
  <2>3. r.retry.cumulative \in Nat /\ r.fails \in Nat /\ s.fails \in Nat
    BY <1>1 DEF Records
  <2> QED BY <1>1, <2>1, <2>2, <2>3
<1>5. ASSUME s.retry.version # 0, s.marker = NoMarker
      PROVE  /\ s.state \in Running => s.fails = s.retry.at
             /\ s.state = "failed" => s.fails = s.retry.at + 1
  <2>1. r.fails = s.retry.at
    BY <1>1, <1>3, <1>5
  <2>2. /\ s.state \in Running => s.fails = r.fails
        /\ s.state = "failed" => s.fails = r.fails + 1
    BY DEF Worked, Running
  <2> QED BY <2>1, <2>2
<1>6. /\ s.kind # "none" => s.fails > 0
      /\ s.retry.version = 0 => s.retry = NoRetry
  BY <1>1 DEF Sound, Worked
<1> QED BY <1>1, <1>2, <1>4, <1>5, <1>6 DEF Sound

LEMMA SoundSourceResolved ==
  ASSUME NEW r, Sound(r), NEW s, SourceResolved(r, s)
  PROVE  Sound(s)
<1>1. r \in Records /\ r.state = "failed" /\ r.marker # NoMarker /\ r.original
  BY DEF Sound, SourceResolved, Current, MarkerUsable, NoMarker
<1>2. CASE s = Resolved(r)
  BY <1>1, <1>2 DEF Resolved, Sound, Records, States
<1>3. CASE s = Fail(r, "adjusted")
  <2>1. s = [r EXCEPT !.state = "failed", !.kind = "adjusted", !.fails = r.fails + 1]
    BY <1>1, <1>3 DEF Fail, Records
  <2>2. s \in Records
    BY <1>1, <1>3, FailType DEF Kinds
  <2> QED BY <1>1, <2>1, <2>2 DEF Sound, Records
<1> QED BY <1>2, <1>3 DEF SourceResolved

-----------------------------------------------------------------------------
(* What they mean for the promise.                                          *)

PromiseStep(r, s) == Promise(s) = Promise(r) \/ Bounded!Step(Promise(r), Promise(s))
Forward(r, s) == Promise(s) = Promise(r) \/ Bounded!Progress(Promise(r), Promise(s))

LEMMA PhaseType ==
  ASSUME NEW r \in Records
  PROVE  /\ r.state \in Running \union {"new"} => Phase(r) = "working"
         /\ r.state = "failed" => Phase(r) = "failed"
         /\ r.state \in {"closed", "review"} => Phase(r) = "over"
         /\ Phase(r) \in {"working", "failed", "over"}
<1>1. r.state \in Running \union {"new", "failed", "closed", "review"}
  BY DEF Records, States, Running
<1>2. CASE r.state \in Running \union {"new"}
  BY <1>2 DEF Phase, Running
<1>3. CASE r.state = "failed"
  BY <1>3 DEF Phase, Running
<1>4. CASE r.state \in {"closed", "review"}
  BY <1>4 DEF Phase, Running
<1> QED BY <1>1, <1>2, <1>3, <1>4 DEF Running

LEMMA TriesType ==
  ASSUME NEW r \in Records
  PROVE  Tries(r) \in 0 .. MaxAdjusted
BY DEF Tries, Records, MaxAdjusted

LEMMA PromiseType ==
  ASSUME NEW r \in Records
  PROVE  Promise(r) \in Bounded!Records
<1>1. /\ r.original \in BOOLEAN /\ r.adjusted \in BOOLEAN
      /\ r.retry.cumulative \in 0 .. MaxCumulative
  BY DEF Records
<1> QED BY <1>1, PhaseType, TriesType DEF Promise, Bounded!Records

LEMMA PromiseFields ==
  ASSUME NEW r \in Records
  PROVE  /\ Promise(r) \in Bounded!Records
         /\ Promise(r).state = Phase(r) /\ Promise(r).matched = r.original
         /\ Promise(r).replaced = r.adjusted /\ Promise(r).paid = r.retry.cumulative
         /\ Promise(r).tries = Tries(r)
BY PromiseType DEF Promise

LEMMA ForwardStep ==
  ASSUME NEW r, NEW s, Forward(r, s)
  PROVE  PromiseStep(r, s)
BY DEF Forward, PromiseStep, Bounded!Step

LEMMA ForwardTransitive ==
  ASSUME NEW r \in Records, NEW s \in Records, NEW t \in Records,
         Forward(r, s), Forward(s, t)
  PROVE  Forward(r, t)
<1> DEFINE x == Promise(r)
           y == Promise(s)
           z == Promise(t)
<1>1. x \in Bounded!Records /\ y \in Bounded!Records /\ z \in Bounded!Records
  BY PromiseType
<1>2. /\ y = x \/ Bounded!Progress(x, y)
      /\ z = y \/ Bounded!Progress(y, z)
  BY DEF Forward
<1>3. z = x \/ Bounded!Progress(x, z)
  <2> HIDE DEF x, y, z
  <2>1. CASE y = x \/ z = y
    BY <1>2, <2>1
  <2>2. CASE Bounded!Progress(x, y) /\ Bounded!Progress(y, z)
    <3>1. PICK st \in {"working", "failed", "over"}, m \in {x.matched, TRUE} :
            y = [x EXCEPT !.state = st, !.matched = m]
      BY <2>2 DEF Bounded!Progress
    <3>2. PICK su \in {"working", "failed", "over"}, n \in {y.matched, TRUE} :
            z = [y EXCEPT !.state = su, !.matched = n]
      BY <2>2 DEF Bounded!Progress
    <3>3. z = [x EXCEPT !.state = su, !.matched = n] /\ n \in {x.matched, TRUE}
      BY <1>1, <3>1, <3>2 DEF Bounded!Records
    <3> QED BY <2>2, <3>3 DEF Bounded!Progress
  <2> QED BY <1>2, <2>1, <2>2
<1> QED BY <1>3 DEF Forward

LEMMA WorkedForward ==
  ASSUME NEW r, Sound(r), NEW s, Worked(r, s)
  PROVE  Forward(r, s)
<1>1. r \in Records /\ s \in Records
  BY DEF Sound, Worked
<1>2. Tries(s) = Tries(r)
  <2>1. r.marker # NoMarker => r.adjusted
    BY DEF Sound, Worked, Running
  <2>2. r.marker = NoMarker => ~(r.marker.attempt > 0)
    BY DEF NoMarker
  <2> QED BY <2>1, <2>2 DEF Tries, Worked
<1>3. Promise(r).state = "working" /\ Promise(s).state \in {"working", "failed", "over"}
  BY <1>1, PhaseType DEF Promise, Worked
<1>4. Promise(s) = [Promise(r) EXCEPT !.state = Promise(s).state, !.matched = s.original]
  <2> DEFINE x == Promise(r)
             y == Promise(s)
  <2>1. x \in Bounded!Records /\ y \in Bounded!Records
    BY <1>1, PromiseFields
  <2>2. /\ y.matched = s.original /\ y.replaced = x.replaced
        /\ y.paid = x.paid /\ y.tries = x.tries
    BY <1>1, <1>2, PromiseFields DEF Worked
  <2> HIDE DEF x, y
  <2>3. y = [x EXCEPT !.state = y.state, !.matched = s.original]
    BY <2>1, <2>2 DEF Bounded!Records
  <2> QED BY <2>3 DEF x, y
<1>5. s.original \in {Promise(r).matched, TRUE}
  BY <1>1, PromiseFields DEF Worked
<1> QED BY <1>3, <1>4, <1>5 DEF Forward, Bounded!Progress

LEMMA SourceResolvedStep ==
  ASSUME NEW r, Sound(r), NEW s, SourceResolved(r, s)
  PROVE  PromiseStep(r, s)
<1>1. r \in Records /\ s \in Records
  BY SoundSourceResolved DEF Sound
<1>2. /\ r.state = "failed" /\ r.marker.attempt > 0 /\ r.original /\ ~r.adjusted
      /\ r.fails = r.marker.at
  BY DEF SourceResolved, Current, MarkerUsable
<1>3. Tries(r) = r.marker.attempt - 1 /\ Tries(r) < MaxAdjusted
  BY <1>1, <1>2 DEF Tries, Records, MaxAdjusted
<1>4. Phase(r) = "failed"
  BY <1>1, <1>2, PhaseType
<1>5. CASE s = Resolved(r)
  <2>1. /\ s.state = "nas" /\ s.adjusted = TRUE /\ s.original = r.original
        /\ s.marker = r.marker /\ s.retry = r.retry
    BY <1>1, <1>5 DEF Resolved, Records
  <2>2. Phase(s) = "working" /\ Tries(s) = Tries(r) + 1
    BY <1>1, <1>3, <2>1, PhaseType DEF Running, Tries, Records
  <2>3. Promise(s) = [Promise(r) EXCEPT !.tries = @ + 1, !.state = "working", !.replaced = TRUE]
    <3> DEFINE x == Promise(r)
               y == Promise(s)
    <3>1. x \in Bounded!Records /\ y \in Bounded!Records
      BY <1>1, PromiseFields
    <3>2. /\ y.state = "working" /\ y.matched = x.matched /\ y.replaced = TRUE
          /\ y.paid = x.paid /\ y.tries = x.tries + 1
      BY <1>1, <2>1, <2>2, PromiseFields
    <3> HIDE DEF x, y
    <3>3. y = [x EXCEPT !.tries = @ + 1, !.state = "working", !.replaced = TRUE]
      BY <3>1, <3>2 DEF Bounded!Records
    <3> QED BY <3>3 DEF x, y
  <2> QED BY <1>2, <1>3, <1>4, <2>3
          DEF PromiseStep, Bounded!Step, Bounded!ReplaceSource, Promise
<1>6. CASE s = Fail(r, "adjusted")
  <2>1. /\ s.state = "failed" /\ s.adjusted = r.adjusted /\ s.original = r.original
        /\ s.marker = r.marker /\ s.retry = r.retry /\ s.fails = r.fails + 1
    BY <1>1, <1>6 DEF Fail, Records
  <2>2. Phase(s) = "failed" /\ Tries(s) = Tries(r) + 1
    BY <1>1, <1>2, <1>3, <2>1, PhaseType DEF Tries, Records
  <2>3. Promise(s) = [Promise(r) EXCEPT !.tries = @ + 1]
    BY <1>4, <2>1, <2>2 DEF Promise
  <2> QED BY <1>2, <1>3, <1>4, <2>3
          DEF PromiseStep, Bounded!Step, Bounded!ReplaceSource, Promise
<1> QED BY <1>5, <1>6 DEF SourceResolved

LEMMA AdmittedStep ==
  ASSUME NEW r, Sound(r), NEW s, Admitted(r, s)
  PROVE  PromiseStep(r, s)
<1>1. r \in Records /\ s \in Records
  BY SoundAdmitted DEF Sound
<1>2. CASE s = r
  BY <1>2 DEF PromiseStep
<1>3. CASE r.state = "failed" /\ s = Reviewed(r)
  <2>1. /\ s.state = "review" /\ s.adjusted = r.adjusted /\ s.original = r.original
        /\ s.marker = r.marker /\ s.retry = r.retry /\ s.fails = r.fails
    BY <1>1, <1>3 DEF Reviewed, Records
  <2>2. Phase(r) = "failed" /\ Phase(s) = "over" /\ Tries(s) = Tries(r)
    BY <1>1, <1>3, <2>1, PhaseType DEF Tries
  <2>3. Promise(s) = [Promise(r) EXCEPT !.state = "over"]
    BY <2>1, <2>2 DEF Promise
  <2> QED BY <2>2, <2>3 DEF PromiseStep, Bounded!Step, Bounded!Review, Promise
<1>4. CASE MayRetry(r) /\ s = Retried(r)
  <2>1. /\ Phase(r) = "failed" /\ r.original /\ Tries(r) = 0
        /\ r.retry.cumulative < MaxCumulative
    BY <1>1, <1>4, PhaseType DEF MayRetry, Exhausted, Tries, NoMarker, Records,
                                 MaxCumulative
  <2>2. /\ s.state \in Running /\ s.original = r.original /\ s.adjusted = r.adjusted
        /\ s.marker = r.marker /\ s.fails = r.fails
        /\ s.retry.cumulative = r.retry.cumulative + 1
    BY <1>1, <1>4, PolicyTypes DEF MayRetry, Retried, Running, Records
  <2>3. Phase(s) = "working" /\ Tries(s) = Tries(r)
    BY <1>1, <2>2, PhaseType DEF Tries
  <2>4. Promise(s) = [Promise(r) EXCEPT !.state = "working", !.paid = @ + 1]
    <3> DEFINE x == Promise(r)
               y == Promise(s)
    <3>1. x \in Bounded!Records /\ y \in Bounded!Records
      BY <1>1, PromiseFields
    <3>2. /\ y.state = "working" /\ y.matched = x.matched /\ y.replaced = x.replaced
          /\ y.paid = x.paid + 1 /\ y.tries = x.tries
      BY <1>1, <2>2, <2>3, PromiseFields
    <3> HIDE DEF x, y
    <3>3. y = [x EXCEPT !.state = "working", !.paid = @ + 1]
      BY <3>1, <3>2 DEF Bounded!Records
    <3> QED BY <3>3 DEF x, y
  <2> QED BY <2>1, <2>4 DEF PromiseStep, Bounded!Step, Bounded!RetryFailure, Promise
<1>5. CASE MayMark(r) /\ s = Marked(r)
  <2>1. /\ s.marker = [attempt |-> r.marker.attempt + 1, at |-> r.fails]
        /\ s.state = r.state /\ s.original = r.original /\ s.adjusted = r.adjusted
        /\ s.fails = r.fails /\ s.retry = r.retry
    BY <1>1, <1>5 DEF Marked, Records
  <2>2. Tries(s) = r.marker.attempt
    BY <1>1, <1>5, <2>1 DEF Tries, MayMark, Records
  <2>3. Tries(r) = r.marker.attempt
    BY <1>1, <1>5 DEF Tries, MayMark, NoMarker, ResolverFailed, Records
  <2> QED BY <2>1, <2>2, <2>3 DEF Promise, Phase, PromiseStep
<1>6. CASE Interrupted(r) /\ s = Requeued(r)
  <2>1. /\ s.state = "failed" /\ s.adjusted = r.adjusted /\ s.original = r.original
        /\ s.marker = r.marker /\ s.retry = r.retry /\ s.fails = r.fails
    BY <1>1, <1>6 DEF Requeued, Records
  <2>2. Phase(r) = "working" /\ Phase(s) = "failed" /\ Tries(s) = Tries(r)
    BY <1>1, <1>6, <2>1, PhaseType DEF Interrupted, Running, Tries
  <2>3. Promise(s) = [Promise(r) EXCEPT !.state = "failed", !.matched = Promise(r).matched]
    <3> DEFINE x == Promise(r)
               y == Promise(s)
    <3>1. x \in Bounded!Records /\ y \in Bounded!Records
      BY <1>1, PromiseFields
    <3>2. /\ y.state = "failed" /\ y.matched = x.matched /\ y.replaced = x.replaced
          /\ y.paid = x.paid /\ y.tries = x.tries
      BY <1>1, <2>1, <2>2, PromiseFields
    <3> HIDE DEF x, y
    <3>3. y = [x EXCEPT !.state = "failed", !.matched = x.matched]
      BY <3>1, <3>2 DEF Bounded!Records
    <3> QED BY <3>3 DEF x, y
  <2> QED BY <2>2, <2>3 DEF PromiseStep, Bounded!Step, Bounded!Progress, Promise
<1>7. CASE Interrupted(r) /\ s = Recovered(Requeued(r))
  <2>1. Sound(Requeued(r)) /\ Requeued(r).state = "failed" /\ ~Requeued(r).original
    BY <1>7, SoundRequeued
  <2>2. s.state \in Running
    BY <1>7, <2>1, SoundRecovered
  <2>3. /\ s.original = r.original /\ s.adjusted = r.adjusted /\ s.marker = r.marker
        /\ s.fails = r.fails /\ s.retry = r.retry
    BY <1>1, <1>7 DEF Requeued, Recovered, Records
  <2>4. Phase(r) = "working" /\ Phase(s) = "working" /\ Tries(s) = Tries(r)
    BY <1>1, <1>7, <2>2, <2>3, PhaseType DEF Interrupted, Running, Tries
  <2> QED BY <2>3, <2>4 DEF Promise, PromiseStep
<1>8. CASE r.state = "failed" /\ ~r.original /\ s = Recovered(r)
  <2>1. s.state \in Running
    BY <1>8, SoundRecovered
  <2>2. /\ s.original = r.original /\ s.adjusted = r.adjusted /\ s.marker = r.marker
        /\ s.fails = r.fails /\ s.retry = r.retry
    BY <1>1, <1>8 DEF Recovered, Records
  <2>3. Phase(r) = "failed" /\ Phase(s) = "working" /\ Tries(s) = Tries(r)
    BY <1>1, <1>8, <2>1, <2>2, PhaseType DEF Tries
  <2>4. Promise(s) = [Promise(r) EXCEPT !.state = "working"]
    BY <2>2, <2>3 DEF Promise
  <2> QED BY <1>8, <2>3, <2>4 DEF PromiseStep, Bounded!Step, Bounded!MatchAgain, Promise
<1>9. ResolverFailed(r) => r.state = "failed"
  BY DEF ResolverFailed, MarkerUsable
<1> QED BY <1>2, <1>3, <1>4, <1>5, <1>6, <1>7, <1>8, <1>9
        DEF Admitted, Retries, Marks, Reviews, Recovers
-----------------------------------------------------------------------------
(* The invariant.                                                           *)

(* What is in memory is the store, or ahead of it by the admissions of a    *)
(* scan, or by work that has not been stored.                               *)
Memory ==
    /\ pc = "idle" => manifest = db
    /\ pc = "checkpoint" => \A a \in Assets : PromiseStep(db[a], manifest[a])
    /\ pc \notin {"idle", "checkpoint"} => \A a \in Assets : Forward(db[a], manifest[a])
    /\ rolling /\ pc \notin {"idle", "checkpoint", "discovered"} => manifest = db

Inv == TypeOK /\ SoundManifest(db) /\ SoundManifest(manifest) /\ Memory

(* Whatever is stored takes every asset at most one step of its promise.    *)
Commit == \A a \in Assets : PromiseStep(db[a], db'[a])

LEMMA SoundInitial ==
  ASSUME NEW r \in InitialRecords
  PROVE  /\ Sound(r)
         /\ Promise(r).tries = 0 /\ ~Promise(r).replaced
<1>1. /\ NoRetry \in [version : {0, 2, 3}, kind : Retryable \union {"none"},
                      category : 0 .. MaxCumulative, cumulative : 0 .. MaxCumulative,
                      start : Nat, at : Nat]
      /\ NoMarker \in [attempt : 0 .. MaxAdjusted, at : Nat] /\ NoMarker.attempt = 0
  BY PolicyTypes DEF NoRetry, NoMarker, MaxCumulative, MaxAdjusted
<1>2. /\ Fresh \in Records
      /\ Fresh.state = "new" /\ Fresh.kind = "none" /\ Fresh.adjusted = FALSE
      /\ Fresh.retry = NoRetry /\ Fresh.marker = NoMarker
  BY <1>1 DEF Fresh, Records, States
<1>3. /\ r \in Records /\ r.adjusted = FALSE /\ r.marker = NoMarker
      /\ r.kind # "none" => r.fails > 0
      /\ \/ r.retry = NoRetry
         \/ /\ r.state = "failed" /\ r.fails = 2 /\ r.original
            /\ r.retry.version = 2 /\ r.retry.cumulative = 1 /\ r.retry.at = 1
  <2>1. CASE r = Fresh
    BY <1>2, <2>1
  <2>2. CASE r = ConvertedOnly
    BY <1>2, <2>2 DEF ConvertedOnly, Records, States
  <2>3. ASSUME NEW k \in {"timeout", "output"}, r = OldRetry(k)
        PROVE  /\ r \in Records /\ r.adjusted = FALSE /\ r.marker = NoMarker
               /\ r.kind # "none" => r.fails > 0
               /\ r.state = "failed" /\ r.fails = 2 /\ r.original
               /\ r.retry.version = 2 /\ r.retry.cumulative = 1 /\ r.retry.at = 1
    <3> DEFINE proof == [version |-> 2, kind |-> "timeout", category |-> 1,
                         cumulative |-> 1, start |-> 0, at |-> 1]
    <3>1. /\ proof \in [version : {0, 2, 3}, kind : Retryable \union {"none"},
                        category : 0 .. MaxCumulative, cumulative : 0 .. MaxCumulative,
                        start : Nat, at : Nat]
          /\ proof.version = 2 /\ proof.cumulative = 1 /\ proof.at = 1
      BY PolicyTypes DEF MaxCumulative
    <3>2. /\ r = [Fresh EXCEPT !.state = "failed", !.kind = k, !.fails = 2,
                               !.original = TRUE, !.retry = proof]
          /\ k \in Kinds /\ "failed" \in States
      BY <2>3 DEF OldRetry, Kinds, States
    <3> HIDE DEF proof
    <3>3. r \in Records
      BY <1>2, <3>1, <3>2 DEF Records
    <3>4. /\ r.adjusted = Fresh.adjusted /\ r.marker = Fresh.marker /\ r.state = "failed"
          /\ r.fails = 2 /\ r.original = TRUE /\ r.retry = proof
      BY <1>2, <3>2 DEF Records
    <3> QED BY <1>2, <3>1, <3>3, <3>4
  <2>4. CASE r = OldPreview
    <3>1. /\ r = [Fresh EXCEPT !.state = "failed", !.kind = "untyped", !.fails = 1,
                               !.original = TRUE]
          /\ "untyped" \in Kinds /\ "failed" \in States
      BY <2>4 DEF OldPreview, Kinds, States
    <3>2. r \in Records
      BY <1>2, <3>1 DEF Records
    <3>3. /\ r.adjusted = Fresh.adjusted /\ r.marker = Fresh.marker
          /\ r.retry = Fresh.retry
      BY <1>2, <3>1 DEF Records
    <3>4. r.fails = 1
      BY <1>2, <3>1 DEF Records
    <3> QED BY <1>2, <3>2, <3>3, <3>4
  <2> QED BY <2>1, <2>2, <2>3, <2>4 DEF InitialRecords
<1>4. Sound(r)
  <2>1. NoRetry.version = 0
    BY DEF NoRetry
  <2> QED BY <1>3, <2>1 DEF Sound, Running
<1>5. Tries(r) = 0 /\ r.adjusted = FALSE
  BY <1>1, <1>3 DEF Tries
<1> QED BY <1>3, <1>4, <1>5, PromiseFields

LEMMA InvInit == Init => Inv
<1> SUFFICES ASSUME Init PROVE Inv
  OBVIOUS
<1>1. \A a \in Assets : Sound(db[a]) /\ db[a] \in Records
  BY SoundInitial, InitialAssumption DEF Init, Sound
<1>2. db \in [Assets -> Records]
  BY <1>1 DEF Init
<1>3. TypeOK
  BY <1>2, RetryAssumption DEF Init, TypeOK, MaxAge, Most
<1> QED BY <1>1, <1>2, <1>3 DEF Inv, SoundManifest, Memory, Init

LEMMA StartScanKeeps ==
  ASSUME Inv, StartScan
  PROVE  Inv' /\ Commit
<1>1. PICK p \in Admissions(db) :
        manifest' = p.m /\ pc' = IF p.m # db THEN "checkpoint" ELSE "select"
  BY DEF StartScan
<1>2. /\ p.m \in [Assets -> Records]
      /\ \A a \in Assets : Admitted(db[a], p.m[a])
  BY AdmissionsAdmit DEF Inv
<1>3. SoundManifest(p.m)
  BY SoundAdmissions DEF Inv
<1>4. \A a \in Assets : PromiseStep(db[a], p.m[a])
  BY <1>2, AdmittedStep DEF Inv, SoundManifest
<1>5. TypeOK'
  BY <1>1, <1>2, RetryAssumption DEF Inv, TypeOK, StartScan
<1>6. Memory' /\ Commit
  BY <1>1, <1>4 DEF StartScan, Memory, Commit, PromiseStep, Forward
<1> QED BY <1>1, <1>3, <1>5, <1>6 DEF Inv, StartScan, SoundManifest

(* From the store to memory a promise takes one step. *)
LEMMA MemoryIsAhead ==
  ASSUME Inv
  PROVE  \A a \in Assets : PromiseStep(db[a], manifest[a])
<1>1. CASE pc = "idle"
  BY <1>1 DEF Inv, Memory, PromiseStep
<1>2. CASE pc = "checkpoint"
  BY <1>2 DEF Inv, Memory
<1>3. CASE pc \notin {"idle", "checkpoint"}
  BY <1>3, ForwardStep DEF Inv, Memory
<1> QED BY <1>1, <1>2, <1>3

(* A checkpoint, whole or interrupted, and what ends a scan.                *)
LEMMA StoringKeeps ==
  ASSUME Inv, Checkpoint \/ CheckpointFails \/ EndScan \/ Interrupt
  PROVE  Inv' /\ Commit
<1>1. manifest' = db' /\ (db' = db \/ db' = manifest) /\ rolling' = rolling
  BY DEF Checkpoint, CheckpointFails, EndScan, Interrupt
<1>2. TypeOK'
  BY RetryAssumption DEF Inv, TypeOK, Checkpoint, CheckpointFails, EndScan, Interrupt, Fault
<1>3. Commit
  BY <1>1, MemoryIsAhead DEF Commit, PromiseStep
<1>4. Memory'
  BY <1>1 DEF Memory, PromiseStep, Forward
<1>5. SoundManifest(db)' /\ SoundManifest(manifest)'
  BY <1>1 DEF Inv, SoundManifest
<1> QED BY <1>2, <1>3, <1>4, <1>5 DEF Inv

(* The commands of an operator, between two scans.                          *)
LEMMA CommandsKeep ==
  ASSUME Inv, QuarantineFailed \/ ClassifyFailures
  PROVE  Inv' /\ Commit
<1>1. \A a \in Assets : Sound(db[a]) /\ db[a] \in Records
  BY DEF Inv, SoundManifest, Sound
<1>2. db' = [a \in Assets |-> db'[a]] /\ manifest' = db' /\ pc' = "idle"
  BY DEF QuarantineFailed, ClassifyFailures, ReviewedIn, Replaced
<1>3. ASSUME NEW a \in Assets PROVE Sound(db'[a]) /\ PromiseStep(db[a], db'[a])
  <2>1. CASE QuarantineFailed
    <3>1. db'[a] = db[a] \/ (db[a].state = "failed" /\ db'[a] = Reviewed(db[a]))
      BY <2>1, ReplacedValue DEF QuarantineFailed, ReviewedIn, Tainted
    <3>2. Admitted(db[a], db'[a])
      BY <3>1 DEF Admitted, Retries
    <3> QED BY <1>1, <3>2, SoundAdmitted, AdmittedStep
  <2>2. CASE ClassifyFailures
    <3>1. CASE a \notin Classifiable(db)
      BY <1>1, <2>2, <3>1, ReplacedValue DEF ClassifyFailures, PromiseStep
    <3>2. CASE a \in Classifiable(db)
      <4>1. db'[a] = [db[a] EXCEPT !.kind = "preview"]
        BY <2>2, <3>2, ReplacedValue DEF ClassifyFailures
      <4>2. db[a].kind = "untyped"
        BY <3>2 DEF Classifiable
      <4>3. /\ db'[a] \in Records /\ db'[a].kind = "preview"
            /\ db'[a].state = db[a].state /\ db'[a].fails = db[a].fails
            /\ db'[a].original = db[a].original /\ db'[a].adjusted = db[a].adjusted
            /\ db'[a].retry = db[a].retry /\ db'[a].marker = db[a].marker
        BY <1>1, <4>1 DEF Records, Kinds
      <4>4. Sound(db'[a])
        BY <1>1, <4>2, <4>3 DEF Sound
      <4>5. Promise(db'[a]) = Promise(db[a])
        BY <4>3 DEF Promise, Phase, Tries
      <4> QED BY <4>4, <4>5 DEF PromiseStep
    <3> QED BY <3>1, <3>2
  <2> QED BY <2>1, <2>2
<1>4. SoundManifest(db)' /\ SoundManifest(manifest)'
  BY <1>2, <1>3 DEF SoundManifest, Sound
<1>5. TypeOK'
  BY <1>2, <1>4 DEF Inv, TypeOK, SoundManifest, QuarantineFailed, ClassifyFailures
<1>6. Memory' /\ Commit
  BY <1>2, <1>3 DEF Memory, Commit, PromiseStep, Forward
<1> QED BY <1>4, <1>5, <1>6 DEF Inv

(* Steps that choose assets or let time pass.                               *)
LEMMA ChoosingKeeps ==
  ASSUME Inv,
         \/ Select \/ StagesDone \/ SkipDiscovery \/ Refresh \/ NextPass \/ Tick
         \/ \E a \in Assets : Pass(a) \/ OutputLost(a)
  PROVE  Inv' /\ Commit
<1>1. db' = db /\ manifest' = manifest /\ rolling' = rolling
  BY DEF Select, StagesDone, SkipDiscovery, Refresh, NextPass, Tick, Pass, OutputLost
<1>2. TypeOK'
  <2>1. CASE Tick
    BY <2>1, RetryAssumption DEF Inv, TypeOK, Tick, Least, MaxAge, Most
  <2>2. ASSUME NEW a \in Assets, Pass(a) \/ OutputLost(a) PROVE TypeOK'
    BY <2>2 DEF Inv, TypeOK, Pass, OutputLost
  <2>3. CASE Select \/ StagesDone \/ SkipDiscovery
    BY <2>3 DEF Inv, TypeOK, Select, StagesDone, SkipDiscovery
  <2>4. CASE Refresh \/ NextPass
    BY <2>4 DEF Inv, TypeOK, Refresh, NextPass
  <2> QED BY <2>1, <2>2, <2>3, <2>4
<1>3. \/ pc' = pc
      \/ pc \notin {"idle", "checkpoint", "discovered"} /\ pc' \notin {"idle", "checkpoint"}
  BY DEF Select, StagesDone, SkipDiscovery, Refresh, NextPass, Tick, Pass, OutputLost
<1>4. Memory'
  BY <1>1, <1>3 DEF Inv, Memory, PromiseStep, Forward
<1>5. Commit
  BY <1>1 DEF Commit, PromiseStep
<1> QED BY <1>1, <1>2, <1>4, <1>5 DEF Inv, SoundManifest

LEMMA DiscoverKeeps ==
  ASSUME Inv, Discover
  PROVE  Inv' /\ Commit
<1>1. PICK S \in SUBSET {a \in Assets : manifest[a].state = "new"} :
        manifest' = [a \in Assets |-> IF a \in S THEN [manifest[a] EXCEPT !.state = "nas"]
                                      ELSE manifest[a]]
  BY DEF Discover
<1>2. ASSUME NEW a \in Assets
      PROVE  Sound(manifest'[a]) /\ Forward(db[a], manifest'[a]) /\ manifest'[a] \in Records
  <2> DEFINE r == manifest[a]
             s == manifest'[a]
  <2>1. Sound(r) /\ r \in Records /\ db[a] \in Records /\ Forward(db[a], r)
    BY DEF Inv, SoundManifest, Memory, Discover
  <2>2. CASE a \notin S
    BY <1>1, <2>1, <2>2
  <2>3. CASE a \in S
    <3>1. r.state = "new" /\ s = [r EXCEPT !.state = "nas"]
      BY <1>1, <2>3
    <3> HIDE DEF r, s
    <3>2. /\ s \in Records /\ s.state = "nas" /\ s.kind = r.kind /\ s.fails = r.fails
          /\ s.retry = r.retry /\ s.marker = r.marker
          /\ s.adjusted = r.adjusted /\ s.original = r.original
      BY <2>1, <3>1 DEF Records, States
    <3>3. Worked(r, s)
      BY <2>1, <3>1, <3>2 DEF Worked, Sound, Running
    <3>4. Sound(s) /\ Forward(r, s)
      BY <2>1, <3>3, SoundWorked, WorkedForward
    <3>5. Forward(db[a], s)
      BY <2>1, <3>2, <3>4, ForwardTransitive
    <3> QED BY <3>2, <3>4, <3>5 DEF s
  <2> QED BY <2>2, <2>3
<1>3. manifest' \in [Assets -> Records]
  BY <1>1, <1>2
<1>4. TypeOK'
  BY <1>3 DEF Inv, TypeOK, Discover
<1>5. Memory' /\ Commit
  BY <1>2 DEF Memory, Commit, Discover, PromiseStep, Forward
<1> QED BY <1>2, <1>3, <1>4, <1>5 DEF Inv, SoundManifest, Discover

(* The result of a step of work, whoever has taken it up. *)
LEMMA StoreKeeps ==
  ASSUME Inv, NEW a \in Assets, NEW s, Working, Store(a, s),
         conversions' \in 0 .. MaxConversions,
         Worked(manifest[a], s) \/ (rolling /\ SourceResolved(manifest[a], s))
  PROVE  Inv' /\ Commit
<1> DEFINE r == manifest[a]
<1>1. /\ Sound(r) /\ r \in Records /\ db[a] \in Records
      /\ \A b \in Assets : Forward(db[b], manifest[b])
      /\ rolling => manifest = db
  BY DEF Inv, SoundManifest, Memory, Working
<1>2. Sound(s) /\ s \in Records
  BY <1>1, SoundWorked, SoundSourceResolved DEF Sound
<1>3. /\ manifest' = [manifest EXCEPT ![a] = s]
      /\ manifest' \in [Assets -> Records]
  BY <1>2 DEF Store, Inv, SoundManifest
<1>4. SoundManifest(manifest)'
  BY <1>2, <1>3 DEF Inv, SoundManifest
<1>5. /\ db' = db \/ db' = manifest'
      /\ rolling => db' = manifest'
      /\ rolling' = rolling
  BY <1>1 DEF Store
<1>6. SoundManifest(db)'
  BY <1>4, <1>5 DEF Inv, SoundManifest
<1>7. ASSUME ~rolling
      PROVE  \A b \in Assets : Forward(db[b], manifest'[b])
  <2>1. Forward(r, s)
    BY <1>1, <1>7, WorkedForward
  <2>2. Forward(db[a], s)
    BY <1>1, <1>2, <2>1, ForwardTransitive
  <2> QED BY <1>1, <1>3, <2>2 DEF Inv, SoundManifest
<1>8. Commit
  <2>1. CASE rolling
    <3>1. PromiseStep(r, s)
      BY <1>1, WorkedForward, ForwardStep, SourceResolvedStep
    <3> QED BY <1>1, <1>3, <1>5, <2>1, <3>1 DEF Commit, PromiseStep, Inv, SoundManifest
  <2>2. CASE ~rolling
    BY <1>5, <1>7, <2>2, ForwardStep DEF Commit, PromiseStep
  <2> QED BY <2>1, <2>2
<1>9. Memory'
  <2>1. pc' \in {"work", "progress"}
    BY DEF Store
  <2>2. \A b \in Assets : Forward(db'[b], manifest'[b])
    BY <1>5, <1>7 DEF Forward
  <2> QED BY <1>5, <2>1, <2>2 DEF Memory, Forward
<1>10. TypeOK'
  <2>1. age' \in [Assets -> 0 .. MaxAge]
    BY RetryAssumption DEF Inv, TypeOK, Store, MaxAge, Most
  <2> QED BY <1>3, <1>6, <2>1 DEF Inv, TypeOK, Store, SoundManifest
<1> QED BY <1>4, <1>6, <1>8, <1>9, <1>10 DEF Inv

LEMMA FailsStore ==
  ASSUME Inv, NEW a \in Assets, NEW K \in SUBSET Kinds, Fails(a, K),
         manifest[a].state \in Running
  PROVE  \E s : Store(a, s) /\ Worked(manifest[a], s)
<1>1. PICK k \in K : Store(a, Fail(manifest[a], k))
  BY DEF Fails
<1>2. Worked(manifest[a], Fail(manifest[a], k))
  BY WorkedFail DEF Inv, SoundManifest
<1> QED BY <1>1, <1>2

(* Steps that leave the proofs alone and the failures as they are. *)
LEMMA WorkedOn ==
  ASSUME NEW r, Sound(r), r.state \in Running,
         NEW st \in Running \union {"closed", "review"},
         NEW p \in {"nas", "conversion", "heic"}
  PROVE  /\ Worked(r, [r EXCEPT !.state = st])
         /\ Worked(r, [r EXCEPT !.state = st, !.reached = p])
         /\ Worked(r, [r EXCEPT !.original = TRUE])
<1>1. r \in Records /\ st \in States
  BY DEF Sound, States, Running
<1>2. ASSUME NEW s, s \in {[r EXCEPT !.state = st], [r EXCEPT !.state = st, !.reached = p],
                          [r EXCEPT !.original = TRUE]}
      PROVE  Worked(r, s)
  <2>1. /\ s \in Records /\ s.state \in Running \union {"closed", "review"}
        /\ s.kind = r.kind /\ s.fails = r.fails /\ s.retry = r.retry
        /\ s.marker = r.marker /\ s.adjusted = r.adjusted
        /\ s.original \in {r.original, TRUE}
    BY <1>1, <1>2 DEF Records
  <2> QED BY <2>1 DEF Worked, Sound
<1> QED BY <1>2

LEMMA WorkStores ==
  ASSUME Inv, NEW a \in Assets, Work(a)
  PROVE  /\ Working /\ conversions' \in 0 .. MaxConversions
         /\ \E s : /\ Store(a, s)
                   /\ \/ Worked(manifest[a], s)
                      \/ rolling /\ SourceResolved(manifest[a], s)
<1> DEFINE r == manifest[a]
<1>0. Sound(r) /\ r \in Records /\ conversions \in 0 .. MaxConversions /\ MaxConversions \in Nat
  BY RetryAssumption DEF Inv, TypeOK, SoundManifest
<1>1. Working /\ conversions' \in 0 .. MaxConversions
  BY <1>0 DEF Work, Resolve, Convert, Verify, Upload, Finish, ResolveAdjusted, Working
<1>2. CASE Resolve(a)
  <2>1. r.state \in Running
    BY <1>2 DEF Resolve, Unmatched, Running
  <2>2. CASE Store(a, [r EXCEPT !.original = TRUE])
    <3>1. Worked(r, [r EXCEPT !.original = TRUE])
      BY <1>0, <2>1, WorkedOn DEF Running
    <3> QED BY <1>1, <2>2, <3>1
  <2>3. CASE Fails(a, {"resolve"})
    BY <1>1, <2>1, <2>3, FailsStore DEF Kinds
  <2>4. ASSUME NEW st \in {"review", "closed"}, Store(a, [r EXCEPT !.state = st])
        PROVE  \E s : Store(a, s) /\ Worked(r, s)
    <3>1. Worked(r, [r EXCEPT !.state = st])
      BY <1>0, <2>1, WorkedOn DEF Running
    <3> QED BY <2>4, <3>1
  <2> QED BY <1>1, <1>2, <2>2, <2>3, <2>4 DEF Resolve
<1>3. CASE Convert(a)
  <2>1. r.state \in Running
    BY <1>3 DEF Convert, ConversionReady, Running
  <2>2. CASE Store(a, [r EXCEPT !.state = "converted", !.reached = "conversion"])
    <3>1. Worked(r, [r EXCEPT !.state = "converted", !.reached = "conversion"])
      BY <1>0, <2>1, WorkedOn DEF Running
    <3> QED BY <1>1, <2>2, <3>1
  <2>3. CASE Fails(a, {"output", "timeout", "other"}) \/ Fails(a, {"preview"})
    BY <1>1, <2>1, <2>3, FailsStore DEF Kinds
  <2> QED BY <1>3, <2>2, <2>3 DEF Convert
<1>4. CASE Verify(a)
  <2>1. r.state \in Running
    BY <1>4 DEF Verify, Running
  <2>2. CASE Store(a, [r EXCEPT !.state = "verified", !.reached = "heic"])
    <3>1. Worked(r, [r EXCEPT !.state = "verified", !.reached = "heic"])
      BY <1>0, <2>1, WorkedOn DEF Running
    <3> QED BY <1>1, <2>2, <3>1
  <2>3. CASE Fails(a, {"visual", "metadata", "content", "other"})
    BY <1>1, <2>1, <2>3, FailsStore DEF Kinds
  <2> QED BY <1>4, <2>2, <2>3 DEF Verify
<1>5. CASE Upload(a)
  <2>1. r.state \in Running
    BY <1>5 DEF Upload, Running
  <2>2. CASE Store(a, [r EXCEPT !.state = "uploaded"])
    <3>1. Worked(r, [r EXCEPT !.state = "uploaded"])
      BY <1>0, <2>1, WorkedOn DEF Running
    <3> QED BY <1>1, <2>2, <3>1
  <2>3. CASE Fails(a, {"other"})
    BY <1>1, <2>1, <2>3, FailsStore DEF Kinds
  <2> QED BY <1>5, <2>2, <2>3 DEF Upload
<1>6. CASE Finish(a)
  <2>1. r.state \in Running /\ Store(a, [r EXCEPT !.state = "closed"])
    BY <1>6 DEF Finish, Running
  <2>2. Worked(r, [r EXCEPT !.state = "closed"])
    BY <1>0, <2>1, WorkedOn DEF Running
  <2> QED BY <1>1, <2>1, <2>2
<1>7. CASE ResolveAdjusted(a)
  <2>1. rolling /\ Current(r)
    BY <1>7 DEF ResolveAdjusted
  <2>2. \/ Store(a, Resolved(r))
        \/ Store(a, Fail(r, "adjusted"))
    BY <1>7 DEF ResolveAdjusted, Resolved, Fails
  <2> QED BY <1>1, <2>1, <2>2 DEF SourceResolved
<1> QED BY <1>2, <1>3, <1>4, <1>5, <1>6, <1>7 DEF Work

LEMMA InvNext ==
  ASSUME Inv, [Next]_vars
  PROVE  Inv' /\ Commit
<1>1. ASSUME NEW a \in Assets, Work(a) PROVE Inv' /\ Commit
  BY <1>1, WorkStores, StoreKeeps
<1>2. CASE UNCHANGED vars
  BY <1>2 DEF vars, Inv, TypeOK, SoundManifest, Memory, Commit, PromiseStep, Forward
<1> QED BY <1>1, <1>2, StartScanKeeps, StoringKeeps, CommandsKeep, ChoosingKeeps,
           DiscoverKeeps
        DEF Next, Monitor
-----------------------------------------------------------------------------
(* What the runs check, for every value of the constants.                   *)

LEMMA Invariance == Spec => []Inv
<1>1. Inv /\ [Next]_vars => Inv'
  BY InvNext
<1> QED BY InvInit, <1>1, PTL DEF Spec

(* Every record the scans and their admissions write is one of Records, and *)
(* the budgets stay within their limits (run_monitor_once).                 *)
THEOREM TypeCorrect == Spec => []TypeOK
<1>1. Inv => TypeOK
  BY DEF Inv
<1> QED BY Invariance, <1>1, PTL

(* No failed record is left with a retry proof that failed_retry_attempt    *)
(* calls malformed: whichever step is interrupted, the proof of the last    *)
(* retry fits the one failure that follows it.                              *)
THEOREM LineagesReadable == Spec => []LineageIsReadable
<1>1. Inv => LineageIsReadable
  <2> SUFFICES ASSUME Inv, NEW a \in Assets, db[a].state = "failed",
                      db[a].marker = NoMarker
               PROVE  Readable(db[a])
    BY DEF LineageIsReadable
  <2>1. Sound(db[a]) /\ db[a] \in Records
    BY DEF Inv, SoundManifest
  <2> QED BY <2>1 DEF Sound, Readable, Records
<1> QED BY Invariance, <1>1, PTL

(* A record that waits for an adjusted source leaves its failure only with  *)
(* one (run_rolling_adjusted_source_resolution), or for review.             *)
THEOREM MarkersKept == Spec => []MarkedNeedsAdjusted
<1>1. Inv => MarkedNeedsAdjusted
  BY DEF Inv, SoundManifest, Sound, MarkedNeedsAdjusted
<1> QED BY Invariance, <1>1, PTL

(* The attempts that are durable are paid once and never given back,        *)
(* whatever the admissions of later scans, crashes and restarts do:         *)
(* RetryAdmission implements BoundedRetries.                                *)
THEOREM Implementation == Spec => ImplementsBoundedRetries
<1> DEFINE promises == [a \in Assets |-> Promise(db[a])]
<1>1. Inv => promises \in [Assets -> Bounded!Records]
  BY PromiseType DEF Inv, SoundManifest
<1>2. Init => Bounded!Init
  <2> SUFFICES ASSUME Init PROVE Bounded!Init
    OBVIOUS
  <2>1. \A a \in Assets : promises[a].tries = 0 /\ ~promises[a].replaced
    BY SoundInitial, InitialAssumption DEF Init
  <2> QED BY <1>1, <2>1, InvInit DEF Bounded!Init
<1>3. Inv /\ [Next]_vars => [Bounded!Next]_promises
  <2> SUFFICES ASSUME Inv, [Next]_vars PROVE Bounded!Next
    OBVIOUS
  <2>1. promises' \in [Assets -> Bounded!Records]
    BY InvNext, PromiseType DEF Inv, SoundManifest
  <2>2. \A a \in Assets : \/ promises'[a] = promises[a]
                          \/ Bounded!Step(promises[a], promises'[a])
    BY InvNext DEF Commit, PromiseStep
  <2> QED BY <2>1, <2>2 DEF Bounded!Next
<1> QED BY Invariance, <1>2, <1>3, PTL DEF Spec, ImplementsBoundedRetries, Bounded!Spec
-----------------------------------------------------------------------------
(* No failure is forgotten.  That a failed asset leaves its failure in the *)
(* end needs fairness; that some policy is responsible for it does not.    *)

(* The admissions, or the resolver of adjusted sources, have the asset.    *)
Foreseen(a) ==
    LET r == db[a] IN
    \/ a \in Content(db) \union Considered(db) \union FirstMarks(db)
    \/ Current(r) \/ ResolverFailed(r)
    \/ r.kind = "resolve" /\ ~r.original

FailuresAreForeseen ==
    \A a \in Assets : db[a].state = "failed" => Foreseen(a) \/ Undecided(a)

(* How far a record has come fits its state and the kind of its failure.   *)
Ordered(r) ==
    /\ r.state \in {"new", "nas"} => r.reached = "nas"
    /\ r.state = "converted" => r.reached = "conversion"
    /\ r.state = "verified" => r.reached = "heic"
    /\ r.state = "failed" =>
          /\ r.kind # "none"
          /\ r.kind \in {"output", "timeout", "preview"} => r.reached = "nas"
          /\ r.kind \in {"visual", "metadata"} => r.reached = "conversion"
          /\ r.kind = "resolve" => ~r.original
          /\ r.kind = "adjusted" => r.marker # NoMarker
          /\ r.marker # NoMarker /\ ~r.adjusted => Current(r) \/ ResolverFailed(r)

AllOrdered == \A a \in Assets : Ordered(db[a]) /\ Ordered(manifest[a])

LEMMA OrderedRetried ==
  ASSUME NEW r, Sound(r), Ordered(r), MayRetry(r)
  PROVE  Ordered(Retried(r))
<1> DEFINE s == Retried(r)
<1>1. /\ s.state = RetryState[r.kind] /\ s.reached = r.reached
  BY DEF Sound, Retried, Records
<1>2. /\ r.kind \in {"visual", "metadata"} => RetryState[r.kind] = "converted"
      /\ r.kind \in {"output", "timeout"} => RetryState[r.kind] = "nas"
      /\ r.kind \in {"visual", "metadata", "output", "timeout"}
  BY PolicyTypes DEF MayRetry, RetryState
<1>3. /\ s.state = "converted" => s.reached = "conversion"
      /\ s.state = "nas" => s.reached = "nas"
      /\ s.state \in {"converted", "nas"}
  BY <1>1, <1>2 DEF Ordered, MayRetry
<1> HIDE DEF s
<1> QED BY <1>3 DEF Ordered, s

LEMMA OrderedMarked ==
  ASSUME NEW r, Sound(r), Ordered(r), MayMark(r)
  PROVE  Ordered(Marked(r))
<1> DEFINE s == Marked(r)
<1>1. r \in Records /\ r.marker.attempt \in Nat
  BY DEF Sound, Records
<1>2. /\ s.state = r.state /\ s.kind = r.kind /\ s.fails = r.fails /\ s.reached = r.reached
      /\ s.original = r.original /\ s.adjusted = r.adjusted
      /\ s.marker = [attempt |-> r.marker.attempt + 1, at |-> r.fails]
  BY <1>1 DEF Marked, Records
<1>3. s.marker.attempt > 0 /\ s.marker.at = s.fails /\ s.marker # NoMarker
  BY <1>1, <1>2 DEF NoMarker
<1> HIDE DEF s
<1>4. Current(s)
  BY <1>2, <1>3 DEF MayMark, Current, MarkerUsable
<1> QED BY <1>2, <1>3, <1>4 DEF Ordered, MayMark, s

LEMMA OrderedAdmitted ==
  ASSUME NEW r, Sound(r), Ordered(r), NEW s, Admitted(r, s)
  PROVE  Ordered(s)
<1>0. r \in Records
  BY DEF Sound
<1>1. ASSUME s = Reviewed(r) PROVE Ordered(s)
  BY <1>0, <1>1 DEF Reviewed, Ordered, Records
<1>2. ASSUME NEW t, t \in Records, s = Recovered(t) PROVE Ordered(s)
  <2>1. /\ t.reached \in {"nas", "conversion", "heic"} /\ s.reached = t.reached
        /\ s.state = CASE t.reached = "heic" -> "verified"
                       [] t.reached = "conversion" -> "converted"
                       [] t.reached = "nas" -> "nas"
    BY <1>2 DEF Recovered, Records
  <2> QED BY <2>1 DEF Ordered
<1>3. ASSUME Interrupted(r), s = Requeued(r) PROVE Ordered(s)
  <2>1. /\ s.state = "failed" /\ s.kind = "resolve" /\ ~s.original /\ s.marker = NoMarker
    BY <1>0, <1>3 DEF Interrupted, Requeued, Records, Sound
  <2> QED BY <2>1 DEF Ordered
<1>4. ASSUME Interrupted(r), s = Recovered(Requeued(r)) PROVE Ordered(s)
  BY <1>2, <1>4, SoundRequeued DEF Sound
<1> QED BY <1>0, <1>1, <1>2, <1>3, <1>4, OrderedRetried, OrderedMarked
        DEF Admitted, Retries, Marks, Reviews, Recovers

(* A failure in a stage that has come as far as that kind of failure does. *)
LEMMA OrderedFail ==
  ASSUME NEW r, Sound(r), NEW k \in Kinds,
         k \in {"output", "timeout", "preview"} => r.reached = "nas",
         k \in {"visual", "metadata"} => r.reached = "conversion",
         k = "resolve" => ~r.original,
         IF k = "adjusted" THEN Current(r) ELSE r.state \in Running
  PROVE  Ordered(Fail(r, k))
<1> DEFINE s == Fail(r, k)
<1>0. r \in Records /\ r.fails \in Nat
  BY DEF Sound, Records
<1>1. /\ s.state = "failed" /\ s.kind = k /\ s.fails = r.fails + 1
      /\ s.reached = r.reached /\ s.original = r.original /\ s.adjusted = r.adjusted
      /\ s.marker = r.marker
  BY <1>0 DEF Fail, Records
<1>2. k # "none"
  BY DEF Kinds
<1> HIDE DEF s
<1>3. CASE k = "adjusted"
  <2>1. ResolverFailed(s) /\ s.marker # NoMarker
    BY <1>0, <1>1, <1>3 DEF Current, ResolverFailed, MarkerUsable, NoMarker
  <2> QED BY <1>1, <1>3, <2>1 DEF Ordered, s
<1>4. CASE k # "adjusted"
  <2>1. s.marker # NoMarker => s.adjusted
    BY <1>1, <1>4 DEF Sound, Running
  <2> QED BY <1>1, <1>2, <1>4, <2>1 DEF Ordered, s
<1> QED BY <1>3, <1>4

(* A step of work leaves an ordered record. *)
LEMMA WorkOrders ==
  ASSUME Inv, AllOrdered, NEW a \in Assets, Work(a)
  PROVE  \E s : Store(a, s) /\ Ordered(s)
<1> DEFINE r == manifest[a]
<1>0. Sound(r) /\ Ordered(r) /\ r \in Records
  BY DEF Inv, SoundManifest, AllOrdered, Sound
<1>1. ASSUME NEW K \in SUBSET Kinds, Fails(a, K), \A k \in K : Ordered(Fail(r, k))
      PROVE  \E s : Store(a, s) /\ Ordered(s)
  BY <1>1 DEF Fails
<1>2. CASE Resolve(a)
  <2>1. r.state \in {"nas", "converted", "verified"} /\ ~r.original
    BY <1>2 DEF Resolve, Unmatched
  <2>2. Ordered(Fail(r, "resolve"))
    BY <1>0, <2>1, OrderedFail DEF Running, Kinds
  <2>3. Ordered([r EXCEPT !.original = TRUE])
    BY <1>0, <2>1 DEF Ordered, Records
  <2>4. \A st \in {"review", "closed"} : Ordered([r EXCEPT !.state = st])
    BY <1>0 DEF Ordered, Records
  <2>5. Fails(a, {"resolve"}) => \E s : Store(a, s) /\ Ordered(s)
    BY <1>1, <2>2 DEF Kinds
  <2> QED BY <1>2, <2>3, <2>4, <2>5 DEF Resolve
<1>3. CASE Convert(a)
  <2>1. r.state = "nas" /\ r.reached = "nas"
    BY <1>0, <1>3 DEF Convert, ConversionReady, Ordered
  <2>2. \A k \in {"output", "timeout", "other", "preview"} : Ordered(Fail(r, k))
    BY <1>0, <2>1, OrderedFail DEF Running, Kinds
  <2>3. Ordered([r EXCEPT !.state = "converted", !.reached = "conversion"])
    BY <1>0 DEF Ordered, Records
  <2>4. Fails(a, {"output", "timeout", "other"}) \/ Fails(a, {"preview"}) =>
            \E s : Store(a, s) /\ Ordered(s)
    BY <1>1, <2>2 DEF Kinds
  <2> QED BY <1>3, <2>3, <2>4 DEF Convert
<1>4. CASE Verify(a)
  <2>1. r.state = "converted" /\ r.reached = "conversion"
    BY <1>0, <1>4 DEF Verify, Ordered
  <2>2. \A k \in {"visual", "metadata", "content", "other"} : Ordered(Fail(r, k))
    BY <1>0, <2>1, OrderedFail DEF Running, Kinds
  <2>3. Ordered([r EXCEPT !.state = "verified", !.reached = "heic"])
    BY <1>0 DEF Ordered, Records
  <2>4. Fails(a, {"visual", "metadata", "content", "other"}) =>
            \E s : Store(a, s) /\ Ordered(s)
    BY <1>1, <2>2 DEF Kinds
  <2> QED BY <1>4, <2>3, <2>4 DEF Verify
<1>5. CASE Upload(a)
  <2>1. r.state = "verified"
    BY <1>5 DEF Upload
  <2>2. Ordered(Fail(r, "other"))
    BY <1>0, <2>1, OrderedFail DEF Running, Kinds
  <2>3. Ordered([r EXCEPT !.state = "uploaded"])
    BY <1>0 DEF Ordered, Records
  <2>4. Fails(a, {"other"}) => \E s : Store(a, s) /\ Ordered(s)
    BY <1>1, <2>2 DEF Kinds
  <2> QED BY <1>5, <2>3, <2>4 DEF Upload
<1>6. CASE Finish(a)
  <2>1. Ordered([r EXCEPT !.state = "closed"])
    BY <1>0 DEF Ordered, Records
  <2> QED BY <1>6, <2>1 DEF Finish
<1>7. CASE ResolveAdjusted(a)
  <2>1. Current(r) /\ r.reached = "nas"
    BY <1>7 DEF ResolveAdjusted, Current, MarkerUsable
  <2>2. Ordered(Fail(r, "adjusted"))
    BY <1>0, <2>1, OrderedFail DEF Kinds
  <2>3. Ordered([r EXCEPT !.state = "nas", !.adjusted = TRUE])
    BY <1>0, <2>1 DEF Ordered, Records
  <2>4. Fails(a, {"adjusted"}) => \E s : Store(a, s) /\ Ordered(s)
    BY <1>1, <2>2 DEF Kinds
  <2> QED BY <1>7, <2>3, <2>4 DEF ResolveAdjusted
<1> QED BY <1>2, <1>3, <1>4, <1>5, <1>6, <1>7 DEF Work

LEMMA OrderedInitial ==
  ASSUME NEW r \in InitialRecords
  PROVE  Ordered(r)
<1> USE DEF Fresh
<1>1. CASE r = Fresh
  BY <1>1 DEF Ordered
<1>2. CASE r = ConvertedOnly
  BY <1>2 DEF Ordered, ConvertedOnly
<1>3. ASSUME NEW k \in {"timeout", "output"}, r = OldRetry(k) PROVE Ordered(r)
  <2>1. /\ r.state = "failed" /\ r.kind = k /\ r.reached = "nas" /\ r.marker = NoMarker
    BY <1>3 DEF OldRetry
  <2> QED BY <2>1 DEF Ordered
<1>4. CASE r = OldPreview
  BY <1>4 DEF Ordered, OldPreview
<1> QED BY <1>1, <1>2, <1>3, <1>4 DEF InitialRecords

LEMMA OrderedStep ==
  ASSUME Inv, AllOrdered, [Next]_vars
  PROVE  AllOrdered'
<1>0. \A a \in Assets : /\ Sound(db[a]) /\ db[a] \in Records /\ Ordered(db[a])
                        /\ Sound(manifest[a]) /\ manifest[a] \in Records /\ Ordered(manifest[a])
  BY DEF Inv, SoundManifest, AllOrdered
<1>1. CASE StartScan
  <2>1. PICK p \in Admissions(db) : manifest' = p.m
    BY <1>1 DEF StartScan
  <2>2. \A a \in Assets : Admitted(db[a], p.m[a])
    BY AdmissionsAdmit DEF Inv
  <2> QED BY <1>0, <1>1, <2>1, <2>2, OrderedAdmitted DEF AllOrdered, StartScan
<1>2. CASE Checkpoint \/ CheckpointFails \/ EndScan \/ Interrupt
  <2>1. \/ manifest' = db' /\ db' \in {db, manifest}
        \/ UNCHANGED <<db, manifest>>
    BY <1>2 DEF Checkpoint, CheckpointFails, EndScan, Interrupt
  <2> QED BY <1>0, <2>1 DEF AllOrdered
<1>3. CASE \/ Select \/ StagesDone \/ SkipDiscovery \/ Refresh \/ NextPass \/ Tick
           \/ \E a \in Assets : Pass(a) \/ OutputLost(a)
           \/ UNCHANGED vars
  BY <1>0, <1>3
     DEF AllOrdered, Select, StagesDone, SkipDiscovery, Refresh, NextPass, Tick, Pass,
         OutputLost, vars
<1>4. CASE QuarantineFailed
  <2>1. \A a \in Assets : \/ db'[a] = db[a]
                          \/ db[a].state = "failed" /\ db'[a] = Reviewed(db[a])
    BY <1>4, ReplacedValue DEF QuarantineFailed, ReviewedIn, Tainted
  <2>2. \A a \in Assets : Ordered(db'[a])
    BY <1>0, <2>1, OrderedAdmitted DEF Admitted, Retries
  <2> QED BY <1>4, <2>2 DEF QuarantineFailed, AllOrdered
<1>5. CASE ClassifyFailures
  <2>1. ASSUME NEW a \in Assets PROVE Ordered(db'[a])
    <3>1. CASE a \notin Classifiable(db)
      BY <1>0, <1>5, <3>1, ReplacedValue DEF ClassifyFailures
    <3>2. CASE a \in Classifiable(db)
      <4>1. db'[a] = [db[a] EXCEPT !.kind = "preview"]
        BY <1>5, <3>2, ReplacedValue DEF ClassifyFailures
      <4>2. /\ db'[a].state = "failed" /\ db'[a].kind = "preview"
            /\ db'[a].reached = "nas" /\ db'[a].marker = NoMarker
        BY <1>0, <3>2, <4>1 DEF Classifiable, Records
      <4> QED BY <4>2 DEF Ordered
    <3> QED BY <3>1, <3>2
  <2> QED BY <1>5, <2>1 DEF ClassifyFailures, AllOrdered
<1>6. CASE Discover
  <2>1. PICK S \in SUBSET {a \in Assets : manifest[a].state = "new"} :
          manifest' = [a \in Assets |-> IF a \in S THEN [manifest[a] EXCEPT !.state = "nas"]
                                        ELSE manifest[a]]
    BY <1>6 DEF Discover
  <2>2. ASSUME NEW a \in S PROVE Ordered([manifest[a] EXCEPT !.state = "nas"])
    BY <1>0, <2>2 DEF Ordered, Records
  <2> QED BY <1>0, <1>6, <2>1, <2>2 DEF Discover, AllOrdered
<1>7. ASSUME NEW a \in Assets, Work(a) PROVE AllOrdered'
  <2>1. PICK s : Store(a, s) /\ Ordered(s)
    BY <1>7, WorkOrders
  <2>2. \A b \in Assets : manifest'[b] = IF b = a THEN s ELSE manifest[b]
    BY <2>1 DEF Store, Inv, SoundManifest
  <2>3. \A b \in Assets : db'[b] \in {db[b], manifest'[b]}
    BY <2>1, <2>2 DEF Store, Inv, SoundManifest
  <2> QED BY <1>0, <2>1, <2>2, <2>3 DEF AllOrdered
<1> QED BY <1>1, <1>2, <1>3, <1>4, <1>5, <1>6, <1>7 DEF Next, Monitor

(* Every failed asset has a policy: it is retried, gets its marker, waits  *)
(* for a resolver or goes to review (admit_scan_retry_policies), but for   *)
(* the failures that are named as left to an operator.  Those that two     *)
(* policies exclude for each other's sake do not fall between them.        *)
THEOREM NoFailureForgotten == Spec => []FailuresAreForeseen
<1>1. Init => AllOrdered
  BY OrderedInitial, InitialAssumption DEF Init, AllOrdered
<1>2. Inv /\ AllOrdered /\ [Next]_vars => AllOrdered'
  BY OrderedStep
<1>3. Inv /\ AllOrdered => FailuresAreForeseen
  <2> SUFFICES ASSUME Inv, AllOrdered, NEW a \in Assets, db[a].state = "failed",
                      ~Undecided(a)
               PROVE  Foreseen(a)
    BY DEF FailuresAreForeseen
  <2> DEFINE r == db[a]
  <2>1. Sound(r) /\ Ordered(r) /\ r \in Records
    BY DEF Inv, SoundManifest, AllOrdered
  <2>2. /\ r.kind \in Kinds \ {"other", "untyped"} /\ ~r.adjusted
        /\ r.original \/ r.kind \in {"resolve", "content"}
    BY <2>1 DEF Undecided, Ordered, Records
  <2>3. CASE r.kind = "content"
    BY <2>3 DEF Foreseen, Content
  <2>4. CASE r.kind = "resolve"
    BY <2>1, <2>4 DEF Foreseen, Ordered
  <2>5. CASE r.marker # NoMarker
    BY <2>1, <2>2, <2>5 DEF Foreseen, Ordered
  <2>6. CASE r.marker = NoMarker /\ r.kind = "preview"
    BY <2>1, <2>2, <2>6 DEF Foreseen, FirstMarks, Ordered
  <2>7. CASE r.marker = NoMarker /\ r.kind \in Retryable
    <3>1. Readable(r)
      BY <2>1, <2>7 DEF Sound, Readable, Records
    <3>2. r.original /\ r.reached # "heic"
      BY <2>1, <2>2, <2>7, PolicyTypes DEF Ordered
    <3> QED BY <2>7, <3>1, <3>2 DEF Foreseen, Considered
  <2>8. r.kind = "adjusted" => r.marker # NoMarker
    BY <2>1 DEF Ordered
  <2> QED BY <2>2, <2>3, <2>4, <2>5, <2>6, <2>7, <2>8, PolicyTypes DEF Kinds
<1> QED BY Invariance, <1>1, <1>2, <1>3, PTL DEF Spec

-----------------------------------------------------------------------------
(* The budget.  Each admission keeps its count at or above the records that *)
(* occupy a slot, and spends only what remains.                             *)

Counted(p) == p.occupied \in Nat /\ Occupied(p.m) <= p.occupied
SpendsOnlyTheRest(p, q) == q.occupied <= Most(MaxLifecycle, p.occupied)

LEMMA SubsetOfAssets ==
  ASSUME NEW S, S \subseteq Assets
  PROVE  IsFiniteSet(S) /\ Cardinality(S) \in Nat
BY FS_Subset, FS_CardinalityType, RetryAssumption

LEMMA OccupiedType ==
  ASSUME NEW m
  PROVE  Occupied(m) \in Nat
BY SubsetOfAssets DEF Occupied

LEMMA OccupiedGrows ==
  ASSUME NEW m, NEW n, NEW S \in SUBSET Assets,
         \A a \in Assets : Occupies(n[a]) => Occupies(m[a]) \/ a \in S
  PROVE  Occupied(n) <= Occupied(m) + Cardinality(S)
<1> DEFINE M == {a \in Assets : Occupies(m[a])}
           N == {a \in Assets : Occupies(n[a])}
<1>1. N \subseteq M \union S /\ M \subseteq Assets
  OBVIOUS
<1>2. Occupied(m) = Cardinality(M) /\ Occupied(n) = Cardinality(N)
  BY DEF Occupied
<1> HIDE DEF M, N
<1>3. /\ IsFiniteSet(M) /\ IsFiniteSet(S) /\ IsFiniteSet(M \union S)
      /\ Cardinality(M) \in Nat /\ Cardinality(S) \in Nat /\ Cardinality(M \cap S) \in Nat
  BY <1>1, SubsetOfAssets
<1>4. Cardinality(N) <= Cardinality(M \union S)
  BY <1>1, <1>3, FS_Subset
<1>5. Cardinality(M \union S) = Cardinality(M) + Cardinality(S) - Cardinality(M \cap S)
  BY <1>3, FS_Union
<1>6. Cardinality(N) \in Nat /\ Cardinality(M \union S) \in Nat
  BY <1>1, <1>3, FS_Subset, FS_CardinalityType
<1> QED BY <1>2, <1>3, <1>4, <1>5, <1>6

LEMMA OccupiedShrinks ==
  ASSUME NEW m, NEW n, NEW S \in SUBSET Assets,
         \A a \in S : Occupies(m[a]),
         \A a \in Assets : Occupies(n[a]) => Occupies(m[a]) /\ a \notin S
  PROVE  Occupied(n) + Cardinality(S) <= Occupied(m)
<1> DEFINE M == {a \in Assets : Occupies(m[a])}
           N == {a \in Assets : Occupies(n[a])}
<1>1. N \subseteq M \ S /\ S \subseteq M /\ M \subseteq Assets
  OBVIOUS
<1>2. Occupied(m) = Cardinality(M) /\ Occupied(n) = Cardinality(N)
  BY DEF Occupied
<1> HIDE DEF M, N
<1>3. /\ IsFiniteSet(M) /\ IsFiniteSet(M \ S) /\ M \cap S = S
      /\ Cardinality(M) \in Nat /\ Cardinality(S) \in Nat
  BY <1>1, SubsetOfAssets
<1>4. Cardinality(N) <= Cardinality(M \ S)
  BY <1>1, <1>3, FS_Subset
<1>5. Cardinality(M \ S) = Cardinality(M) - Cardinality(S)
  BY <1>3, FS_Difference
<1>6. Cardinality(N) \in Nat
  BY <1>1, <1>3, FS_Subset, FS_CardinalityType
<1> QED BY <1>2, <1>3, <1>4, <1>5, <1>6

LEMMA FirstOfIsSmall ==
  ASSUME NEW S \in SUBSET Assets, NEW n \in Nat, NEW rank, NEW T \in FirstOf(S, n, rank)
  PROVE  T \in SUBSET S /\ Cardinality(T) \in Nat /\ Cardinality(T) <= n
<1>1. T \subseteq S /\ Cardinality(T) = Least(n, Cardinality(S))
  BY DEF FirstOf
<1>2. Cardinality(S) \in Nat /\ Cardinality(T) \in Nat
  BY <1>1, SubsetOfAssets
<1> QED BY <1>1, <1>2 DEF Least

LEMMA RemainingType ==
  ASSUME NEW p, p.occupied \in Nat
  PROVE  /\ Remaining(p) \in Nat
         /\ \A k \in Nat : /\ Least(Remaining(p), k) \in Nat /\ Least(k, Remaining(p)) \in Nat
                           /\ Least(Remaining(p), k) <= Remaining(p)
                           /\ Least(k, Remaining(p)) <= Remaining(p)
         /\ \A k \in Nat : k <= Remaining(p) => p.occupied + k <= Most(MaxLifecycle, p.occupied)
BY RetryAssumption DEF Remaining, Least, Most

LEMMA ReleasedCount ==
  ASSUME NEW p, p.occupied \in Nat, NEW k \in Nat, NEW j \in Nat, j + k <= p.occupied
  PROVE  /\ Released(p, k) \in Nat /\ j <= Released(p, k) /\ Released(p, k) <= p.occupied
BY DEF Released

LEMMA FailedRetriesSpend ==
  ASSUME NEW q, q.m \in [Assets -> Records], Counted(q), NEW p \in FailedRetries(q)
  PROVE  Counted(p) /\ SpendsOnlyTheRest(q, p)
<1> DEFINE n == ReviewedIn(q.m, Content(q.m))
           k == Least(Remaining(q), MaxAdmissions)
<1>1. PICK S \in Oldest(RetryReady(n), k) :
        p = [m |-> WithRetries(n, S), occupied |-> q.occupied + Cardinality(S)]
  BY DEF FailedRetries
<1>2. RetryReady(n) \subseteq Assets /\ Spent(n) \subseteq Assets
  BY DEF RetryReady, Spent, Considered
<1>3. k \in Nat /\ k <= Remaining(q)
  BY RemainingType, RetryAssumption DEF Counted
<1>4. \A a \in Assets : n[a] = IF a \in Content(q.m) THEN Reviewed(q.m[a]) ELSE q.m[a]
  BY ReplacedValue DEF ReviewedIn
<1> HIDE DEF n, k
<1>5. S \in SUBSET Assets /\ Cardinality(S) \in Nat /\ Cardinality(S) <= k
  BY <1>1, <1>2, <1>3, FirstOfIsSmall DEF Oldest
<1>6. \A a \in Assets : p.m[a] = IF a \in S THEN Retried(n[a])
                              ELSE IF a \in Spent(n) THEN Reviewed(n[a]) ELSE n[a]
  BY <1>1, ReplacedValue DEF WithRetries
<1>7. ASSUME NEW r \in Records PROVE Reviewed(r) \in Records /\ ~Occupies(Reviewed(r))
  BY <1>7 DEF Reviewed, Records, States, Occupies, Running, Current, ResolverFailed, MarkerUsable
<1>8. ASSUME NEW a \in Assets, Occupies(p.m[a]), a \notin S PROVE Occupies(q.m[a])
  <2>1. q.m[a] \in Records
    OBVIOUS
  <2>2. n[a] \in Records
    BY <1>4, <1>7, <2>1
  <2> QED BY <1>4, <1>6, <1>7, <1>8, <2>1, <2>2
<1>9. Occupied(p.m) <= Occupied(q.m) + Cardinality(S)
  BY <1>5, <1>8, OccupiedGrows
<1>10. p.occupied = q.occupied + Cardinality(S)
  BY <1>1
<1>11. q.occupied + Cardinality(S) <= Most(MaxLifecycle, q.occupied)
  <2>1. Cardinality(S) <= Remaining(q)
    BY <1>3, <1>5, RemainingType DEF Counted
  <2> QED BY <1>5, <2>1, RemainingType DEF Counted
<1> QED BY <1>5, <1>9, <1>10, <1>11, OccupiedType DEF Counted, SpendsOnlyTheRest

LEMMA AdjustedSourcesSpend ==
  ASSUME NEW p, p.m \in [Assets -> Records], Counted(p), NEW q \in AdjustedSources(p)
  PROVE  Counted(q) /\ SpendsOnlyTheRest(p, q)
<1> DEFINE k == Least(MaxAdmissions, Remaining(p))
<1>1. PICK F \in Oldest(FirstMarks(p.m), k) :
        \E R \in Oldest(NextMarks(p.m), MaxAdmissions) :
        \E S \in Oldest(F \union R, MaxAdmissions) :
           q = [m |-> MarkedIn(p.m, S), occupied |-> p.occupied + Cardinality(S \intersect F)]
  BY AdjustedSourcesPick
<1>2. PICK R \in Oldest(NextMarks(p.m), MaxAdmissions) :
        \E S \in Oldest(F \union R, MaxAdmissions) :
           q = [m |-> MarkedIn(p.m, S), occupied |-> p.occupied + Cardinality(S \intersect F)]
  BY <1>1
<1>3. PICK S \in Oldest(F \union R, MaxAdmissions) :
        q = [m |-> MarkedIn(p.m, S), occupied |-> p.occupied + Cardinality(S \intersect F)]
  BY <1>2
<1>4. k \in Nat /\ k <= Remaining(p)
  BY RemainingType, RetryAssumption DEF Counted
<1>5. FirstMarks(p.m) \subseteq Assets
  BY DEF FirstMarks
<1> HIDE DEF k
<1>6. F \in SUBSET Assets /\ Cardinality(F) \in Nat /\ Cardinality(F) <= k
  BY <1>1, <1>4, <1>5, FirstOfIsSmall DEF Oldest
<1>7. R \subseteq NextMarks(p.m) /\ S \subseteq F \union R
  BY <1>2, <1>3, FirstOfSubset DEF Oldest
<1>8. \A a \in Assets : q.m[a] = IF a \in S THEN Marked(p.m[a]) ELSE p.m[a]
  BY <1>3, ReplacedValue DEF MarkedIn
<1>9. \A a \in Assets : Occupies(q.m[a]) => Occupies(p.m[a]) \/ a \in S \intersect F
  BY <1>7, <1>8 DEF NextMarks, Occupies
<1>10. /\ Cardinality(S \intersect F) \in Nat
       /\ Cardinality(S \intersect F) <= Cardinality(F)
  BY <1>6, SubsetOfAssets, FS_Subset
<1>11. Occupied(q.m) <= Occupied(p.m) + Cardinality(S \intersect F)
  BY <1>6, <1>9, OccupiedGrows
<1>12. p.occupied + Cardinality(S \intersect F) <= Most(MaxLifecycle, p.occupied)
  <2>1. Cardinality(S \intersect F) <= Remaining(p)
    BY <1>4, <1>6, <1>10, RemainingType DEF Counted
  <2> QED BY <1>10, <2>1, RemainingType DEF Counted
<1>13. q.occupied = p.occupied + Cardinality(S \intersect F)
  BY <1>3
<1> QED BY <1>10, <1>11, <1>12, <1>13, OccupiedType DEF Counted, SpendsOnlyTheRest

LEMMA ExhaustedMarkersSpend ==
  ASSUME NEW p, p.m \in [Assets -> Records], Counted(p)
  PROVE  Counted(ExhaustedMarkers(p)) /\ SpendsOnlyTheRest(p, ExhaustedMarkers(p))
<1> DEFINE S == {a \in Assets : ResolverFailed(p.m[a]) /\ p.m[a].marker.attempt >= MaxAdjusted}
           q == ExhaustedMarkers(p)
<1>1. q = [m |-> ReviewedIn(p.m, S), occupied |-> Released(p, Cardinality(S))]
  BY DEF ExhaustedMarkers
<1>2. S \in SUBSET Assets /\ \A a \in S : Occupies(p.m[a])
  BY DEF Occupies
<1> HIDE DEF S, q
<1>3. \A a \in Assets : q.m[a] = IF a \in S THEN Reviewed(p.m[a]) ELSE p.m[a]
  BY <1>1, ReplacedValue DEF ReviewedIn
<1>4. \A a \in Assets : ~Occupies(Reviewed(p.m[a]))
  BY DEF Reviewed, Records, Occupies, Running, Current, ResolverFailed, MarkerUsable
<1>5. \A a \in Assets : Occupies(q.m[a]) => Occupies(p.m[a]) /\ a \notin S
  BY <1>3, <1>4
<1>6. Occupied(q.m) + Cardinality(S) <= Occupied(p.m)
  BY <1>2, <1>5, OccupiedShrinks
<1>7. /\ Cardinality(S) \in Nat /\ Occupied(q.m) \in Nat /\ Occupied(p.m) \in Nat
      /\ Occupied(q.m) + Cardinality(S) <= p.occupied
  BY <1>2, <1>6, SubsetOfAssets, OccupiedType DEF Counted
<1>8. q.occupied = Released(p, Cardinality(S))
  BY <1>1
<1>9. q.occupied \in Nat /\ Occupied(q.m) <= q.occupied /\ q.occupied <= p.occupied
  BY <1>7, <1>8, ReleasedCount DEF Counted
<1> QED BY <1>9, RetryAssumption DEF Counted, SpendsOnlyTheRest, Most, q

LEMMA ResolverRetriesSpend ==
  ASSUME NEW p, p.m \in [Assets -> Records], Counted(p), NEW q \in ResolverRetries(p)
  PROVE  Counted(q) /\ SpendsOnlyTheRest(p, q)
<1> DEFINE I == InterruptedIn(p.m)
           n == RequeuedIn(p.m, I)
           free == [m |-> n, occupied |-> Released(p, Cardinality(I))]
           k == Least(Remaining(free), MaxResolverRetries)
<1>1. PICK T \in Oldest(ResolverReady(n), k) :
        q = [m |-> RecoveredIn(n, T), occupied |-> free.occupied + Cardinality(T)]
  BY DEF ResolverRetries
<1>2. /\ I \in SUBSET Assets
      /\ \A a \in I : /\ p.m[a].state \in {"nas", "converted", "verified"}
                      /\ ~p.m[a].original
  BY DEF InterruptedIn
<1>3. \A a \in Assets : n[a] = IF a \in I THEN Requeued(p.m[a]) ELSE p.m[a]
  BY ReplacedValue DEF RequeuedIn
<1>4. free.m = n /\ free.occupied = Released(p, Cardinality(I))
  OBVIOUS
<1> HIDE DEF I, n, free, k
<1>5. \A a \in I : Occupies(p.m[a]) /\ ~Occupies(Requeued(p.m[a]))
  BY <1>2 DEF Requeued, Records, Occupies, Running, Current, ResolverFailed, MarkerUsable
<1>6. \A a \in Assets : Occupies(n[a]) => Occupies(p.m[a]) /\ a \notin I
  BY <1>3, <1>5
<1>7. Occupied(n) + Cardinality(I) <= Occupied(p.m)
  BY <1>2, <1>5, <1>6, OccupiedShrinks
<1>8. /\ Cardinality(I) \in Nat /\ Occupied(n) \in Nat /\ Occupied(p.m) \in Nat
      /\ Occupied(n) + Cardinality(I) <= p.occupied
  BY <1>2, <1>7, SubsetOfAssets, OccupiedType DEF Counted
<1>9. free.occupied \in Nat /\ Occupied(n) <= free.occupied /\ free.occupied <= p.occupied
  BY <1>4, <1>8, ReleasedCount DEF Counted
<1>10. k \in Nat /\ k <= Remaining(free) /\ Remaining(free) \in Nat
  BY <1>9, RemainingType, RetryAssumption DEF k
<1>11. ResolverReady(n) \subseteq Assets
  BY DEF ResolverReady
<1>12. T \in SUBSET Assets /\ Cardinality(T) \in Nat /\ Cardinality(T) <= k
  BY <1>1, <1>10, <1>11, FirstOfIsSmall DEF Oldest
<1>13. \A a \in Assets : q.m[a] = IF a \in T THEN Recovered(n[a]) ELSE n[a]
  BY <1>1, ReplacedValue DEF RecoveredIn
<1>14. Occupied(q.m) <= Occupied(n) + Cardinality(T)
  BY <1>12, <1>13, OccupiedGrows
<1>15. q.occupied = free.occupied + Cardinality(T)
  BY <1>1
<1>16. free.occupied + Cardinality(T) <= Most(MaxLifecycle, free.occupied)
  <2>1. Cardinality(T) <= Remaining(free)
    BY <1>10, <1>12
  <2> QED BY <1>9, <1>12, <2>1, RemainingType
<1>17. q.occupied <= Most(MaxLifecycle, p.occupied) /\ q.occupied \in Nat
  BY <1>9, <1>12, <1>15, <1>16, RetryAssumption DEF Counted, Most
<1>18. Occupied(q.m) <= q.occupied
  BY <1>8, <1>9, <1>12, <1>14, <1>15, OccupiedType
<1> QED BY <1>17, <1>18 DEF Counted, SpendsOnlyTheRest

LEMMA AdmittedManifest ==
  ASSUME NEW m, SoundManifest(m), NEW n, n = [a \in Assets |-> n[a]],
         \A a \in Assets : Admitted(m[a], n[a])
  PROVE  SoundManifest(n)
<1>1. \A a \in Assets : Sound(n[a]) /\ n[a] \in Records
  BY SoundAdmitted DEF SoundManifest, Sound
<1> QED BY <1>1 DEF SoundManifest

LEMMA SpendsTransitive ==
  ASSUME NEW p, NEW q, NEW u, p.occupied \in Nat, q.occupied \in Nat, u.occupied \in Nat,
         SpendsOnlyTheRest(p, q), SpendsOnlyTheRest(q, u)
  PROVE  SpendsOnlyTheRest(p, u)
BY RetryAssumption DEF SpendsOnlyTheRest, Most

LEMMA AdmissionsSpend ==
  ASSUME NEW m, SoundManifest(m), NEW p \in Admissions(m)
  PROVE  Occupied(p.m) <= Most(MaxLifecycle, Occupied(m))
<1> DEFINE start == [m |-> m, occupied |-> Occupied(m)]
<1>0. PICK q \in FailedRetries(start) :
           \E u \in AdjustedSources(q) : p \in ResolverRetries(ExhaustedMarkers(u))
  BY DEF Admissions
<1>1. PICK u \in AdjustedSources(q) : p \in ResolverRetries(ExhaustedMarkers(u))
  BY <1>0
<1> DEFINE x == ExhaustedMarkers(u)
<1>2. start.m = m /\ start.occupied = Occupied(m) /\ Counted(start)
  BY OccupiedType DEF Counted
<1> HIDE DEF start
<1>3. Counted(q) /\ SpendsOnlyTheRest(start, q) /\ SoundManifest(q.m)
  <2>1. \A a \in Assets : Retries(m[a], q.m[a])
    BY <1>2, FailedRetriesAdmit DEF SoundManifest
  <2>2. q.m = [a \in Assets |-> q.m[a]]
    <3>1. PICK n, S : q = [m |-> WithRetries(n, S), occupied |-> start.occupied + Cardinality(S)]
      BY DEF FailedRetries
    <3>2. q.m = WithRetries(n, S)
      BY <3>1
    <3> QED BY <3>2 DEF WithRetries, Replaced
  <2>3. SoundManifest(q.m)
    BY <2>1, <2>2, AdmittedManifest DEF Admitted
  <2> QED BY <1>2, <2>3, FailedRetriesSpend DEF SoundManifest
<1>4. Counted(u) /\ SpendsOnlyTheRest(q, u) /\ SoundManifest(u.m)
  <2>1. \A a \in Assets : Marks(q.m[a], u.m[a])
    BY AdjustedSourcesMark
  <2>2. u.m = [a \in Assets |-> u.m[a]]
    <3>1. PICK F : \E R : \E S :
            u = [m |-> MarkedIn(q.m, S),
                 occupied |-> q.occupied + Cardinality(S \intersect F)]
      BY AdjustedSourcesPick
    <3>2. PICK S : u = [m |-> MarkedIn(q.m, S),
                        occupied |-> q.occupied + Cardinality(S \intersect F)]
      BY <3>1
    <3>3. u.m = MarkedIn(q.m, S)
      BY <3>2
    <3> QED BY <3>3 DEF MarkedIn, Replaced
  <2>3. SoundManifest(u.m)
    BY <1>3, <2>1, <2>2, AdmittedManifest DEF Admitted
  <2> QED BY <1>3, <2>3, AdjustedSourcesSpend DEF SoundManifest
<1>5. Counted(x) /\ SpendsOnlyTheRest(u, x) /\ SoundManifest(x.m)
  <2>1. \A a \in Assets : Reviews(u.m[a], x.m[a])
    BY ExhaustedMarkersReview
  <2>2. x.m = [a \in Assets |-> x.m[a]]
    BY DEF ExhaustedMarkers, ReviewedIn, Replaced
  <2>3. SoundManifest(x.m)
    BY <1>4, <2>1, <2>2, AdmittedManifest DEF Admitted
  <2> QED BY <1>4, <2>3, ExhaustedMarkersSpend DEF SoundManifest
<1>6. Counted(p) /\ SpendsOnlyTheRest(x, p)
  BY <1>1, <1>5, ResolverRetriesSpend DEF SoundManifest
<1> HIDE DEF x
<1>7. SpendsOnlyTheRest(start, p)
  BY <1>2, <1>3, <1>4, <1>5, <1>6, SpendsTransitive DEF Counted
<1> QED BY <1>2, <1>6, <1>7, OccupiedType, RetryAssumption
        DEF Counted, SpendsOnlyTheRest, Most

(* Retries, replacements and new matches of one scan never admit more       *)
(* together than max_lifecycle_per_scan leaves, whatever was found before   *)
(* (admit_scan_retry_policies).                                             *)
THEOREM BudgetIsKept == Spec => AdmissionFitsBudget
<1>1. ASSUME Inv, StartScan
      PROVE  Occupied(manifest') <= Most(MaxLifecycle, Occupied(db))
  <2>1. PICK p \in Admissions(db) : manifest' = p.m
    BY <1>1 DEF StartScan
  <2> QED BY <1>1, <2>1, AdmissionsSpend DEF Inv
<1>2. Inv => [StartScan => Occupied(manifest') <= Most(MaxLifecycle, Occupied(db))]_vars
  BY <1>1
<1> QED BY Invariance, <1>2, PTL DEF AdmissionFitsBudget
=============================================================================
