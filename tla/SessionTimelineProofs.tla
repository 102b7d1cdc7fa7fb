------------------------ MODULE SessionTimelineProofs ------------------------
(* Proofs about SessionTimeline, for any files, rates, widths and bounds: the *)
(* session's clock is its wall clock without the pauses, each file's offset   *)
(* is its place on that clock and stays it, its duration is what was recorded *)
(* and ends with the session's clock, and its verdict follows from its frames.*)
EXTENDS SessionTimeline, WellFoundedInduction, TLAPS

-----------------------------------------------------------------------------
(* Sums.  They are defined by recursion, which holds because a least          *)
(* counterexample would not be one.                                           *)

LEMMA LeastNumber ==
    ASSUME NEW T \in SUBSET Nat, T # {} PROVE \E m \in T : \A n \in T : m <= n
<1> DEFINE R == {p \in Nat \X Nat : p[1] < p[2]}
<1>1. IsWellFoundedOn(R, Nat) BY NatLessThanWellFounded DEF OpToRel
<1> HIDE DEF R
<1>2. PICK m \in T : \A n \in T : ~ (<<n, m>> \in R) BY <1>1, WFMin
<1>3. \A n \in T : ~(n < m) BY <1>2 DEF R
<1>4. QED BY <1>3

SumsTo(g, t, k) == g = [i \in 0..k |-> IF i = 0 THEN 0 ELSE g[i - 1] + t[i]]

LEMMA SumsToIs ==
    ASSUME NEW g, NEW t, NEW k \in Nat, SumsTo(g, t, k)
    PROVE  g[0] = 0 /\ \A i \in 1..k : g[i] = g[i - 1] + t[i]
<1>1. \A i \in 0..k : g[i] = IF i = 0 THEN 0 ELSE g[i - 1] + t[i] BY DEF SumsTo
<1>2. QED BY <1>1

LEMMA SumExists == ASSUME NEW t, NEW k \in Nat PROVE \E g : SumsTo(g, t, k)
<1> DEFINE T == {n \in Nat : ~\E g : SumsTo(g, t, n)}
<1>1. T = {}
  <2> SUFFICES ASSUME T # {} PROVE FALSE OBVIOUS
  <2>1. T \in SUBSET Nat OBVIOUS
  <2>2. \A n \in Nat : n \notin T => \E g : SumsTo(g, t, n) OBVIOUS
  <2>3. \A n \in T : ~\E g : SumsTo(g, t, n) OBVIOUS
  <2> HIDE DEF T
  <2>4. PICK m \in T : \A n \in T : m <= n BY <2>1, LeastNumber
  <2>5. m \in Nat BY <2>1
  <2>6. CASE m = 0
    <3> DEFINE g == [i \in 0..m |-> 0]
    <3>1. \A i \in 0..m : i = 0 BY <2>6
    <3>2. SumsTo(g, t, m) BY <3>1 DEF SumsTo
    <3>3. QED BY <2>3, <3>2
  <2>7. CASE m # 0
    <3>1. m - 1 \in Nat /\ m - 1 \notin T BY <2>4, <2>5, <2>7
    <3>2. PICK g : SumsTo(g, t, m - 1) BY <2>2, <3>1
    <3> DEFINE h == [i \in 0..m |-> IF i = m THEN g[m - 1] + t[m] ELSE g[i]]
    <3>3. g[0] = 0 /\ \A i \in 1..m - 1 : g[i] = g[i - 1] + t[i] BY <3>1, <3>2, SumsToIs
    <3>4. h[0] = 0 /\ \A i \in 0..m - 1 : h[i] = g[i] BY <2>5, <2>7, <3>3
    <3>5. h[m] = h[m - 1] + t[m] BY <2>5, <2>7
    <3>6. h = [i \in 0..m |-> h[i]] OBVIOUS
    <3> HIDE DEF h
    <3>7. \A i \in 1..m : i = m \/ (i \in 1..m - 1 /\ i - 1 \in 0..m - 1) BY <2>5
    <3>8. \A i \in 1..m : h[i] = h[i - 1] + t[i] BY <3>3, <3>4, <3>5, <3>7
    <3>9. \A i \in 0..m : h[i] = IF i = 0 THEN 0 ELSE h[i - 1] + t[i] BY <3>4, <3>8
    <3>10. SumsTo(h, t, m) BY <3>6, <3>9 DEF SumsTo
    <3>11. QED BY <2>3, <3>10
  <2>8. QED BY <2>6, <2>7
<1>2. QED BY <1>1

SameTerms(t, u, n) == \A i \in 1..n : t[i] = u[i]

\* Two sums of the same terms are the same.
LEMMA SumsAgree ==
    ASSUME NEW t, NEW u, NEW n \in Nat, NEW m \in Nat, NEW g, NEW h, SumsTo(g, t, n), SumsTo(h, u, m),
           NEW k \in Nat, k <= n, k <= m, SameTerms(t, u, k)
    PROVE  g[k] = h[k]
<1> DEFINE T == {i \in 0..k : g[i] # h[i]}
<1>0. /\ g[0] = 0 /\ \A i \in 1..n : g[i] = g[i - 1] + t[i]
      /\ h[0] = 0 /\ \A i \in 1..m : h[i] = h[i - 1] + u[i]
  BY SumsToIs
<1>1. T = {}
  <2> SUFFICES ASSUME T # {} PROVE FALSE OBVIOUS
  <2>1. T \in SUBSET Nat /\ \A i \in T : i \in 0..k /\ g[i] # h[i] OBVIOUS
  <2>2. \A i \in 0..k : i \notin T => g[i] = h[i] OBVIOUS
  <2> HIDE DEF T
  <2>3. PICK j \in T : \A i \in T : j <= i BY <2>1, LeastNumber
  <2>4. j # 0 BY <1>0, <2>1
  <2>5. j \in 1..k /\ j - 1 \in 0..k /\ j - 1 \notin T BY <2>1, <2>3, <2>4
  <2>6. g[j - 1] = h[j - 1] BY <2>2, <2>5
  <2>7. j \in 1..n /\ j \in 1..m BY <2>5
  <2>8. QED BY <1>0, <2>1, <2>5, <2>6, <2>7 DEF SameTerms
<1>2. QED BY <1>1

LEMMA TotalIs ==
    ASSUME NEW t, NEW n \in Nat PROVE \E g : SumsTo(g, t, n) /\ Total(t, n) = g[n]
<1>1. Total(t, n) = (CHOOSE g : SumsTo(g, t, n))[n] BY DEF Total, SumsTo
<1>2. QED BY <1>1, SumExists

LEMMA TotalNext ==
    ASSUME NEW t, NEW n \in Nat
    PROVE  Total(t, 0) = 0 /\ Total(t, n + 1) = Total(t, n) + t[n + 1]
<1>1. PICK z : SumsTo(z, t, 0) /\ Total(t, 0) = z[0] BY TotalIs
<1>2. Total(t, 0) = 0 BY <1>1, SumsToIs
<1>3. n + 1 \in Nat OBVIOUS
<1>4. PICK g : SumsTo(g, t, n) /\ Total(t, n) = g[n] BY TotalIs
<1>5. PICK h : SumsTo(h, t, n + 1) /\ Total(t, n + 1) = h[n + 1] BY <1>3, TotalIs
<1>6. h[n + 1] = h[(n + 1) - 1] + t[n + 1] BY <1>3, <1>5, SumsToIs
<1>7. (n + 1) - 1 = n OBVIOUS
<1>8. g[n] = h[n]
  <2>1. SameTerms(t, t, n) BY DEF SameTerms
  <2>2. QED BY <1>3, <1>4, <1>5, <2>1, SumsAgree
<1>9. QED BY <1>2, <1>4, <1>5, <1>6, <1>7, <1>8

LEMMA TotalSame ==
    ASSUME NEW t, NEW u, NEW n \in Nat, SameTerms(t, u, n) PROVE Total(t, n) = Total(u, n)
<1>1. PICK g : SumsTo(g, t, n) /\ Total(t, n) = g[n] BY TotalIs
<1>2. PICK h : SumsTo(h, u, n) /\ Total(u, n) = h[n] BY TotalIs
<1>3. QED BY <1>1, <1>2, SumsAgree

LEMMA TotalNat ==
    ASSUME NEW t, NEW n \in Nat, \A i \in 1..n : t[i] \in Nat PROVE Total(t, n) \in Nat
<1> DEFINE T == {i \in 0..n : Total(t, i) \notin Nat}
<1>1. T = {}
  <2> SUFFICES ASSUME T # {} PROVE FALSE OBVIOUS
  <2>1. T \in SUBSET Nat /\ \A i \in T : i \in 0..n /\ Total(t, i) \notin Nat OBVIOUS
  <2>2. \A i \in 0..n : i \notin T => Total(t, i) \in Nat OBVIOUS
  <2> HIDE DEF T
  <2>3. PICK j \in T : \A i \in T : j <= i BY <2>1, LeastNumber
  <2>4. j # 0 BY <2>1, TotalNext
  <2>5. j - 1 \in Nat /\ j \in 1..n /\ j - 1 \in 0..n /\ j - 1 \notin T BY <2>1, <2>3, <2>4
  <2>6. (j - 1) + 1 = j BY <2>5
  <2>7. Total(t, j) = Total(t, j - 1) + t[j] BY <2>5, <2>6, TotalNext
  <2>8. Total(t, j - 1) \in Nat BY <2>2, <2>5
  <2>9. QED BY <2>1, <2>5, <2>7, <2>8
<1>2. QED BY <1>1

-----------------------------------------------------------------------------
(* Pauses: what a sequence of spans comes to at a time of the clock.         *)

Tick == 0..MaxTime
Span == [start : Tick, end : Tick]
Term(span, wall) ==
    Larger(0, Smaller(IF span.end = 0 THEN wall ELSE span.end, wall) - span.start)
Terms(p, wall) == [i \in 1..Len(p) |-> Term(p[i], wall)]
PausedIn(p, wall) == Total(Terms(p, wall), Len(p))

LEMMA PausedBeforeIs ==
    ASSUME ses.pauses \in Seq(Span), NEW wall PROVE PausedBefore(wall) = PausedIn(ses.pauses, wall)
<1>1. DOMAIN ses.pauses = 1..Len(ses.pauses) OBVIOUS
<1>2. QED BY <1>1 DEF PausedBefore, PausedIn, Terms, Term

LEMMA TermsAre ==
    ASSUME NEW p \in Seq(Span), NEW wall \in Nat
    PROVE  \A i \in 1..Len(p) :
              /\ Terms(p, wall)[i] = Term(p[i], wall) /\ Term(p[i], wall) \in Nat
              /\ p[i].start \in Nat /\ p[i].end \in Nat
<1>1. MaxTime \in Nat BY TimelineAssumption
<1>2. \A i \in 1..Len(p) : p[i].start \in Nat /\ p[i].end \in Nat
  <2>1. \A i \in 1..Len(p) : p[i] \in Span OBVIOUS
  <2>2. \A e \in Span : e.start \in Nat /\ e.end \in Nat BY <1>1 DEF Span, Tick
  <2>3. QED BY <2>1, <2>2
<1>3. \A i \in 1..Len(p) : Term(p[i], wall) \in Nat BY <1>2 DEF Term, Larger, Smaller
<1>4. QED BY <1>2, <1>3 DEF Terms

LEMMA PausedIsNat ==
    ASSUME NEW p \in Seq(Span), NEW wall \in Nat
    PROVE  PausedIn(p, wall) \in Nat /\ PausedIn(<<>>, wall) = 0
<1>1. PausedIn(p, wall) \in Nat
  <2>1. Len(p) \in Nat /\ \A i \in 1..Len(p) : Terms(p, wall)[i] \in Nat BY TermsAre
  <2>2. QED BY <2>1, TotalNat DEF PausedIn
<1>2. PausedIn(<<>>, wall) = 0
  <2>1. Len(<<>>) = 0 OBVIOUS
  <2>2. QED BY <2>1, TotalNext DEF PausedIn
<1>3. QED BY <1>1, <1>2

Agreeing(p, w, q, v, n) == \A i \in 1..n : Term(p[i], w) = Term(q[i], v)

\* Another sequence with the same terms up to n, where its last differs.
LEMMA PausedWithLast ==
    ASSUME NEW p \in Seq(Span), NEW q \in Seq(Span), NEW w \in Nat, NEW v \in Nat, NEW n \in Nat,
           n <= Len(p), Len(q) = n + 1, Agreeing(p, w, q, v, n)
    PROVE  /\ PausedIn(q, v) = Total(Terms(p, w), n) + Term(q[n + 1], v)
           /\ Len(p) = n => Total(Terms(p, w), n) = PausedIn(p, w)
           /\ Len(p) = n + 1 => PausedIn(p, w) = Total(Terms(p, w), n) + Term(p[n + 1], w)
<1>1. n + 1 \in 1..Len(q) /\ (Len(p) = n + 1 => n + 1 \in 1..Len(p)) OBVIOUS
<1>2. \A i \in 1..n : i \in 1..Len(p) /\ i \in 1..Len(q) OBVIOUS
<1>3. SameTerms(Terms(p, w), Terms(q, v), n)
  <2>1. \A i \in 1..n : Terms(p, w)[i] = Term(p[i], w) BY <1>2, TermsAre
  <2>2. \A i \in 1..n : Terms(q, v)[i] = Term(q[i], v) BY <1>2, TermsAre
  <2>3. QED BY <2>1, <2>2 DEF SameTerms, Agreeing
<1>4. Total(Terms(q, v), n) = Total(Terms(p, w), n) BY <1>3, TotalSame
<1>5. Total(Terms(q, v), n + 1) = Total(Terms(q, v), n) + Terms(q, v)[n + 1]
      /\ Total(Terms(p, w), n + 1) = Total(Terms(p, w), n) + Terms(p, w)[n + 1]
  BY TotalNext
<1>6. Terms(q, v)[n + 1] = Term(q[n + 1], v) BY <1>1, TermsAre
<1>7. Len(p) = n + 1 => Terms(p, w)[n + 1] = Term(p[n + 1], w) BY <1>1, TermsAre
<1>8. QED BY <1>4, <1>5, <1>6, <1>7 DEF PausedIn

LEMMA PausedSame ==
    ASSUME NEW p \in Seq(Span), NEW q \in Seq(Span), NEW w \in Nat, NEW v \in Nat,
           Len(p) = Len(q), Agreeing(p, w, q, v, Len(p))
    PROVE  PausedIn(p, w) = PausedIn(q, v)
<1>1. SameTerms(Terms(p, w), Terms(q, v), Len(p))
  <2>1. \A i \in 1..Len(p) : Terms(p, w)[i] = Term(p[i], w) BY TermsAre
  <2>2. \A i \in 1..Len(p) : Terms(q, v)[i] = Term(q[i], v) BY TermsAre
  <2>3. QED BY <2>1, <2>2 DEF SameTerms, Agreeing
<1>2. QED BY <1>1, TotalSame DEF PausedIn

\* A pause that begins or ends does not change the past.
LEMMA PauseBegins ==
    ASSUME NEW p \in Seq(Span), NEW t \in Tick, NEW w \in Nat, w <= t
    PROVE  /\ Append(p, [start |-> t, end |-> 0]) \in Seq(Span)
           /\ PausedIn(Append(p, [start |-> t, end |-> 0]), w) = PausedIn(p, w)
<1> DEFINE s == [start |-> t, end |-> 0]
           q == Append(p, s)
<1>0. MaxTime \in Nat /\ t \in Nat BY TimelineAssumption DEF Tick
<1>1. s \in Span BY <1>0 DEF Span, Tick
<1>2. q \in Seq(Span) /\ Len(q) = Len(p) + 1 /\ q[Len(p) + 1] = s
      /\ \A i \in 1..Len(p) : q[i] = p[i]
  BY <1>1
<1>3. Term(s, w) = 0 BY <1>0 DEF Term, Larger, Smaller
<1> HIDE DEF q, s
<1>4. PausedIn(q, w) = PausedIn(p, w) + Term(s, w)
  <2>1. Len(p) \in Nat OBVIOUS
  <2>2. Agreeing(p, w, q, w, Len(p)) BY <1>2 DEF Agreeing
  <2>3. Len(p) <= Len(p) OBVIOUS
  <2>4. PausedIn(q, w) = Total(Terms(p, w), Len(p)) + Term(q[Len(p) + 1], w)
    BY <1>2, <2>1, <2>2, <2>3, PausedWithLast
  <2>5. QED BY <1>2, <2>4 DEF PausedIn
<1>5. PausedIn(p, w) \in Nat BY PausedIsNat
<1>6. QED BY <1>2, <1>3, <1>4, <1>5 DEF q, s

LEMMA PauseEnds ==
    ASSUME NEW p \in Seq(Span), NEW t \in Tick, t > 0, NEW w \in Nat, w <= t,
           Len(p) > 0, p[Len(p)].end = 0
    PROVE  /\ [p EXCEPT ![Len(p)].end = t] \in Seq(Span)
           /\ Len([p EXCEPT ![Len(p)].end = t]) = Len(p)
           /\ PausedIn([p EXCEPT ![Len(p)].end = t], w) = PausedIn(p, w)
<1> DEFINE n == Len(p)
           q == [p EXCEPT ![n].end = t]
<1>0. n \in 1..n /\ p[n] \in Span /\ t \in Nat BY TimelineAssumption DEF Tick
<1>1. q = [p EXCEPT ![n] = [p[n] EXCEPT !.end = t]] OBVIOUS
<1>2. [p[n] EXCEPT !.end = t] \in Span /\ [p[n] EXCEPT !.end = t].start = p[n].start
      /\ [p[n] EXCEPT !.end = t].end = t
  BY <1>0 DEF Span
<1>3. q \in Seq(Span) /\ Len(q) = n BY <1>0, <1>1, <1>2
<1>4. q[n] = [p[n] EXCEPT !.end = t] /\ \A i \in 1..n : i # n => q[i] = p[i] BY <1>0, <1>1
<1>5. Term(p[n], w) = Term(q[n], w) BY <1>0, <1>2, <1>4 DEF Term, Larger, Smaller
<1> HIDE DEF q
<1>6. Agreeing(p, w, q, w, Len(p)) BY <1>4, <1>5 DEF Agreeing
<1>7. PausedIn(q, w) = PausedIn(p, w) BY <1>3, <1>6, PausedSame
<1>8. QED BY <1>3, <1>7 DEF q

\* A tick counts when the last pause goes on.
LEMMA PausedNext ==
    ASSUME NEW p \in Seq(Span), NEW w \in Nat, NEW paused \in BOOLEAN, paused => Len(p) > 0,
           \A i \in 1..Len(p) : /\ p[i].start <= w /\ p[i].end <= w
                                /\ p[i].end = 0 <=> paused /\ i = Len(p)
    PROVE  PausedIn(p, w + 1) = PausedIn(p, w) + IF paused THEN 1 ELSE 0
<1>1. w + 1 \in Nat /\ PausedIn(p, w) \in Nat BY PausedIsNat
<1>2. \A i \in 1..Len(p) : p[i].end # 0 => Term(p[i], w) = Term(p[i], w + 1)
  <2> SUFFICES ASSUME NEW i \in 1..Len(p), p[i].end # 0 PROVE Term(p[i], w) = Term(p[i], w + 1)
    OBVIOUS
  <2>1. p[i].start \in Nat /\ p[i].end \in Nat /\ p[i].end <= w BY TermsAre
  <2>2. QED BY <2>1 DEF Term, Larger, Smaller
<1>3. CASE ~paused
  <2>1. Agreeing(p, w, p, w + 1, Len(p)) BY <1>2, <1>3 DEF Agreeing
  <2>2. PausedIn(p, w) = PausedIn(p, w + 1) BY <1>1, <2>1, PausedSame
  <2>3. QED BY <1>1, <1>3, <2>2
<1>4. CASE paused
  <2> DEFINE n == Len(p) - 1
  <2>1. n \in Nat /\ n <= Len(p) /\ Len(p) = n + 1 /\ n + 1 \in 1..Len(p) BY <1>4
  <2>2. \A i \in 1..n : i \in 1..Len(p) /\ i # Len(p)
    <3> HIDE DEF n
    <3>1. QED BY <2>1
  <2>3. \A i \in 1..n : Term(p[i], w) = Term(p[i], w + 1) BY <1>2, <2>2
  <2>4. Term(p[n + 1], w + 1) = Term(p[n + 1], w) + 1
    <3>1. p[n + 1].start \in Nat /\ p[n + 1].end = 0 /\ p[n + 1].start <= w
      BY <1>4, <2>1, TermsAre
    <3>2. QED BY <3>1, SMTT(60) DEF Term, Larger, Smaller
  <2>5. Term(p[n + 1], w) \in Nat BY <2>1, TermsAre
  <2> HIDE DEF n
  <2>6. /\ PausedIn(p, w + 1) = Total(Terms(p, w), n) + Term(p[n + 1], w + 1)
        /\ PausedIn(p, w) = Total(Terms(p, w), n) + Term(p[n + 1], w)
    <3>1. Agreeing(p, w, p, w + 1, n) BY <2>3 DEF Agreeing
    <3>2. QED BY <1>1, <2>1, <3>1, PausedWithLast
  <2>7. Total(Terms(p, w), n) \in Nat
    <3>1. \A i \in 1..n : Terms(p, w)[i] \in Nat BY <2>2, TermsAre
    <3>2. QED BY <2>1, <3>1, TotalNat
  <2>8. QED BY <1>4, <2>4, <2>5, <2>6, <2>7
<1>5. QED BY <1>3, <1>4

-----------------------------------------------------------------------------
(* The invariant.                                                            *)

SessionType == [active : BOOLEAN, paused : BOOLEAN, resumable : BOOLEAN, epoch : Tick,
                pauses : Seq(Span), duration : Tick]
ListedType == [offset : Tick, duration : Tick, status : {"none", "failed", "aborted", "complete"}]
FileType == [phase : {"new", "open", "closed"}, kind : Kind, out : {"off", "on", "paused"},
             started : BOOLEAN, failed : BOOLEAN, startNs : Tick, offset : Tick, first : Tick,
             stopNs : Tick, paused : BOOLEAN, pauseStart : Tick, pausedNs : Tick, frames : Nat,
             listed : ListedType, ran : Nat, slack : Nat, place : Nat, refused : BOOLEAN]
TodoType == [starting : SUBSET File, fresh : BOOLEAN, pausing : SUBSET File,
             held : File \cup {NoFile}, closing : SUBSET File, ending : BOOLEAN,
             resumable : BOOLEAN]

Typed == /\ now \in 1..MaxTime /\ live \in Tick
         /\ ses \in SessionType /\ file \in [File -> FileType] /\ todo \in TodoType

\* A handler works on the session's own files, one at a time, and leaves none open
\* when the session ends.
WorkInv ==
    /\ OpenFiles # {} \/ todo # NoWork => ses.active
    /\ ses.paused => ses.active
    /\ todo.starting # {} => /\ todo.pausing = {} /\ todo.held = NoFile /\ ~todo.ending
                             /\ ~ses.paused
    /\ \A f \in todo.starting : file[f].phase = "new"
    /\ todo.pausing \cup todo.closing \subseteq OpenFiles
    /\ todo.held \in OpenFiles \cup {NoFile} /\ todo.held \notin todo.pausing
    /\ todo.ending => ~ses.paused /\ OpenFiles \subseteq todo.closing
    /\ (todo.pausing \cup {todo.held}) \cap Shared = {}
    /\ todo.fresh => \A f \in todo.starting : file[f].slack = live

\* What of the first s ticks of the clock was the session's and not paused.
LiveAt(s) == s - ses.epoch - PausedBefore(s)

\* A pause that goes on is the last.
PausesInv ==
    /\ Len(ses.pauses) <= MaxPauses
    /\ ses.paused => Len(ses.pauses) > 0
    /\ \A i \in 1..Len(ses.pauses) :
          /\ ses.pauses[i].start <= now /\ ses.pauses[i].end <= now
          /\ ses.pauses[i].end = 0 <=> ses.paused /\ i = Len(ses.pauses)
    /\ ses.epoch = 0 => ses.pauses = <<>>

\* The session's clock ran in step or stood still, at every tick so far.
LiveInv ==
    /\ ses.epoch = 0 => live = 0
    /\ ses.epoch # 0 => ses.epoch <= now /\ LiveAt(now) = live
    /\ ses.epoch # 0 =>
          \A s \in ses.epoch..now - 1 : LiveAt(s + 1) \in {LiveAt(s), LiveAt(s) + 1}

ClockInv ==
    /\ PausesInv /\ LiveInv
    /\ ses.active \/ ses.resumable => ses.epoch # 0
    /\ ses.epoch = 0 => ses.duration = 0
    /\ ~ses.active /\ ~ses.resumable => ses.duration = live

\* What a file's recorder makes of its clock, with the pause it is in.
BeganAt(r) == IF r.kind = "shared" /\ r.first # 0 THEN r.first ELSE r.startNs
EndsAt(r, t) == IF r.stopNs # 0 THEN r.stopNs ELSE t
InPause(r, t) == IF r.paused THEN EndsAt(r, t) - r.pauseStart ELSE 0
Length(r, t) == EndsAt(r, t) - BeganAt(r) - r.pausedNs - InPause(r, t)

Near(a, b, slack) == b - slack <= a /\ a <= b + slack

\* The recorder of a file, whose output is what the recorder says unless it is
\* just being told.
RecorderInv(f) ==
    LET r == file[f] IN
    IF r.phase # "open" THEN r.out = "off" /\ ~r.started /\ (r.phase = "new" => r.kind = "own")
    ELSE
    /\ r.startNs \in 1..now /\ StartOffset(r) + ses.epoch <= now /\ r.first <= now
    /\ r.first # 0 => r.kind = "shared"
    /\ r.startNs + r.pausedNs <= now
    /\ r.started \/ todo.held = f =>
          r.startNs + r.pausedNs <= IF r.paused THEN r.pauseStart ELSE EndsAt(r, now)
    /\ r.paused => r.pauseStart <= now
    /\ r.kind = "shared" => ~r.paused /\ r.pausedNs = 0 /\ (r.first = 0 => r.ran = 0)
    /\ r.started => r.stopNs = 0 /\ ~r.failed /\ r.out # "off"
    /\ ~r.started => r.failed /\ r.out = "off" /\ r.stopNs \in r.startNs..now /\ r.first <= r.stopNs
    /\ r.started /\ todo.held # f => (r.paused <=> r.out = "paused")
    /\ todo.held = f => /\ r.paused <=> ~ses.paused
                        /\ r.started => (r.paused <=> r.out = "on")
                        /\ r.paused /\ r.failed => r.pauseStart <= r.stopNs
    /\ ses.paused /\ r.started /\ r.kind # "shared" /\ ~r.refused /\ ~r.paused =>
          f \in todo.pausing \/ todo.held = f

\* Its place, and its length while it grows and afterwards.
PlaceInv(f) == file[f].phase # "new" => Near(OffsetOf(f), file[f].place, file[f].slack)

Sound(f, d) ==
    LET r == file[f] IN
    /\ \/ Near(d, r.ran, r.slack)
       \/ r.failed /\ r.slack > 0 /\ d = 0
       \/ r.kind = "shared" /\ r.first = 0
    /\ r.kind # "shared" /\ ~r.refused => OffsetOf(f) + d <= live + r.slack

LengthInv(f) ==
    LET r == file[f]
        v == Length(r, now)
        late == IF r.failed THEN now - r.stopNs ELSE 0
    IN
    /\ r.phase = "closed" => Sound(f, r.listed.duration)
    /\ r.phase = "open" /\ r.failed /\ todo.held # f => Sound(f, Duration(r))
    /\ r.phase = "open" /\ (~r.failed \/ todo.held = f) =>
          /\ (r.kind = "shared" /\ r.first = 0) \/ Near(v, r.ran, r.slack - late)
          /\ r.kind # "shared" /\ ~r.refused => OffsetOf(f) + v + late <= live + r.slack

\* Its record.
VerdictInv(f) ==
    LET r == file[f] IN
    /\ r.phase # "closed" => r.listed.status = "none"
    /\ r.phase = "closed" =>
          /\ r.listed.status \in {"aborted", "complete"} =>
                ~r.failed /\ (r.listed.status = "aborted"
                                 <=> Shortfall(r.frames, r.listed.duration, Rate[r.kind]))
          /\ r.kind = "shared" /\ r.first = 0 => r.ran = 0

FileInv(f) == RecorderInv(f) /\ PlaceInv(f) /\ LengthInv(f) /\ VerdictInv(f)

TimelineInv == Typed /\ WorkInv /\ ClockInv /\ \A f \in File : FileInv(f)

-----------------------------------------------------------------------------
(* What the clocks say.                                                      *)

LEMMA Modulo == ASSUME NEW x \in Tick PROVE x % 2^Width = x
<1>1. 2^Width \in Nat /\ MaxTime \in Nat /\ MaxTime < 2^Width BY TimelineAssumption
<1> DEFINE w == 2^Width
<1>2. w \in Nat /\ MaxTime < w BY <1>1
<1> HIDE DEF w
<1>3. x % w = x BY <1>1, <1>2 DEF Tick
<1>4. QED BY <1>3 DEF w

LEMMA MinusIs ==
    ASSUME NEW a \in Tick, NEW b \in Tick, b <= a PROVE Minus(a, b) = a - b /\ a - b \in Tick
<1>1. MaxTime \in Nat BY TimelineAssumption
<1>2. a - b \in Tick BY <1>1 DEF Tick
<1>3. QED BY <1>2, Modulo DEF Minus

\* The difference of a time and an earlier one, the wrong way round.
LEMMA MinusWraps ==
    ASSUME NEW a \in Tick, NEW b \in Tick, a < b, NEW x \in Tick
    PROVE  (x + Minus(a, b)) % 2^Width = IF x >= b - a THEN x - (b - a) ELSE 2^Width + x - (b - a)
<1> DEFINE w == 2^Width
<1>1. w \in Nat /\ MaxTime \in Nat /\ MaxTime < w BY TimelineAssumption
<1>2. Minus(a, b) = (a - b) % w BY DEF Minus
<1> HIDE DEF w
<1>3. (a - b) % w = w - (b - a) BY <1>1 DEF Tick
<1>4. (x + (w - (b - a))) % w = IF x >= b - a THEN x - (b - a) ELSE w + x - (b - a)
  <2> DEFINE d == b - a
  <2>1. d \in 1..MaxTime BY <1>1 DEF Tick
  <2> HIDE DEF d
  <2>2. (x + (w - d)) % w = IF x >= d THEN x - d ELSE w + x - d BY <1>1, <2>1 DEF Tick
  <2>3. QED BY <2>2 DEF d
<1>5. QED BY <1>2, <1>3, <1>4 DEF w

LEMMA StartOffsetIs ==
    ASSUME Typed, NEW r \in FileType PROVE StartOffset(r) \in Tick
<1>1. MaxTime \in Nat /\ ses.epoch \in Tick /\ r.first \in Tick /\ r.offset \in Tick
  BY TimelineAssumption DEF Typed, SessionType, FileType
<1>2. QED BY <1>1 DEF StartOffset, Larger, Tick

LEMMA PausedBeforeNat ==
    ASSUME Typed, NEW wall \in Nat
    PROVE  PausedBefore(wall) = PausedIn(ses.pauses, wall) /\ PausedBefore(wall) \in Nat
<1>1. ses.pauses \in Seq(Span) BY DEF Typed, SessionType
<1>2. QED BY <1>1, PausedBeforeIs, PausedIsNat

LEMMA OffsetForIs ==
    ASSUME Typed, NEW r \in FileType
    PROVE  /\ OffsetFor(r) = Larger(0, StartOffset(r) - PausedBefore(ses.epoch + StartOffset(r)))
           /\ OffsetFor(r) \in Tick
<1> DEFINE o == StartOffset(r)
           q == PausedBefore(ses.epoch + o)
<1>1. o \in Tick /\ MaxTime \in Nat BY StartOffsetIs, TimelineAssumption
<1>2. ses.epoch + o \in Nat BY <1>1 DEF Typed, SessionType, Tick
<1>3. q \in Nat BY <1>2, PausedBeforeNat
<1>4. OffsetFor(r) = Minus(o, Smaller(o, q)) BY DEF OffsetFor
<1> HIDE DEF o, q
<1>5. Smaller(o, q) \in Tick /\ Smaller(o, q) <= o BY <1>1, <1>3 DEF Smaller, Tick
<1>6. OffsetFor(r) = o - Smaller(o, q) /\ OffsetFor(r) \in Tick BY <1>1, <1>4, <1>5, MinusIs
<1>7. o - Smaller(o, q) = Larger(0, o - q) BY <1>1, <1>3 DEF Smaller, Larger, Tick
<1>8. QED BY <1>6, <1>7 DEF o, q

LEMMA DurationIs ==
    ASSUME now \in 1..MaxTime, NEW r \in FileType, r.startNs > 0
    PROVE  /\ Duration(r) \in Tick
           /\ BeganAt(r) + r.pausedNs <= (IF r.paused THEN r.pauseStart ELSE EndsAt(r, now))
                 /\ (r.paused => r.pauseStart <= EndsAt(r, now))
              => Duration(r) = Length(r, now) /\ Length(r, now) >= 0
<1> DEFINE b == BeganAt(r)
           e == EndsAt(r, now)
           p == InPause(r, now)
           z == (r.pausedNs + IF r.paused THEN Minus(e, r.pauseStart) ELSE 0) % 2^Width
<1>1. b \in Tick /\ b > 0 /\ e \in Tick /\ r.pausedNs \in Tick /\ r.pauseStart \in Tick
      /\ MaxTime \in Nat /\ r.paused \in BOOLEAN /\ 2^Width \in Nat /\ MaxTime < 2^Width
  BY TimelineAssumption DEF BeganAt, EndsAt, FileType, Tick
<1>2. Duration(r) = IF b = 0 \/ e <= b \/ z >= e - b THEN 0 ELSE e - b - z
  BY DEF Duration, BeganAt, EndsAt
<1>3. z \in Nat
  <2> DEFINE w == 2^Width
  <2>1. w \in Nat /\ w > 0 BY <1>1
  <2> HIDE DEF w
  <2>2. \A x \in Int : x % w \in Nat BY <2>1
  <2>3. Minus(e, r.pauseStart) \in Nat BY <1>1, <2>2 DEF Minus, w, Tick
  <2>4. QED BY <1>1, <2>2, <2>3 DEF w, Tick
<1>4. Duration(r) \in Tick
  <2> HIDE DEF b, e, z
  <2>1. QED BY <1>1, <1>2, <1>3 DEF Tick
<1>5. ASSUME b + r.pausedNs <= (IF r.paused THEN r.pauseStart ELSE e),
             r.paused => r.pauseStart <= e
      PROVE  Duration(r) = Length(r, now) /\ Length(r, now) >= 0
  <2>1. z = r.pausedNs + p
    <3>1. CASE r.paused
      <4>1. Minus(e, r.pauseStart) = e - r.pauseStart BY <1>1, <1>5, <3>1, MinusIs
      <4>2. p = e - r.pauseStart BY <3>1 DEF InPause
      <4> HIDE DEF b, e, p
      <4>3. r.pausedNs + (e - r.pauseStart) \in Tick BY <1>1, <1>5, <3>1 DEF Tick
      <4>4. QED BY <3>1, <4>1, <4>2, <4>3, Modulo
    <3>2. CASE ~r.paused
      <4>1. r.pausedNs + 0 = r.pausedNs /\ p = 0 BY <1>1, <3>2 DEF InPause, Tick
      <4>2. QED BY <1>1, <3>2, <4>1, Modulo
    <3>3. QED BY <1>1, <3>1, <3>2
  <2>2. p \in Nat /\ b + r.pausedNs + p <= e
    BY <1>1, <1>5 DEF InPause, Tick
  <2>3. Length(r, now) = e - b - r.pausedNs - p BY DEF Length
  <2> HIDE DEF b, e, p, z
  <2>4. QED BY <1>1, <1>2, <2>1, <2>2, <2>3 DEF Tick
<1>6. QED BY <1>4, <1>5

-----------------------------------------------------------------------------
(* The session's clock from step to step.                                    *)

\* What the pauses so far took from a time of the past stays.
PastStays == ses'.epoch = ses.epoch /\ \A s \in 0..now : PausedBefore(s)' = PausedBefore(s)

LEMMA PausedAll ==
    Typed => \A w \in Nat : PausedBefore(w) = PausedIn(ses.pauses, w) /\ PausedBefore(w) \in Nat
BY PausedBeforeNat

LEMMA PausedNow ==
    ASSUME Typed, Typed'
    PROVE  \A w \in Nat : /\ PausedBefore(w) = PausedIn(ses.pauses, w)
                          /\ PausedBefore(w)' = PausedIn(ses'.pauses, w)
                          /\ PausedBefore(w) \in Nat /\ PausedBefore(w)' \in Nat
<1>1. (Typed => \A w \in Nat : PausedBefore(w) = PausedIn(ses.pauses, w) /\ PausedBefore(w) \in Nat)'
  BY PausedAll, PTL
<1>2. QED BY <1>1, PausedAll

LEMMA SamePauses ==
    ASSUME Typed, Typed', ses'.pauses = ses.pauses, ses'.epoch = ses.epoch PROVE PastStays
<1>1. \A s \in 0..now : s \in Nat BY TimelineAssumption DEF Typed
<1>2. QED BY <1>1, PausedNow DEF PastStays

LEMMA LiveStays ==
    ASSUME Typed, Typed', LiveInv, PastStays, now' = now, live' = live PROVE LiveInv'
<1>1. now \in Nat /\ ses.epoch \in Nat /\ ses'.epoch = ses.epoch
  BY TimelineAssumption DEF Typed, SessionType, Tick, PastStays
<1>2. \A s \in 0..now : LiveAt(s)' = LiveAt(s) BY DEF LiveAt, PastStays
<1>3. LiveAt(now)' = LiveAt(now) BY <1>1, <1>2 DEF LiveAt
<1>4. \A s \in ses.epoch..now - 1 : s \in 0..now /\ s + 1 \in 0..now BY <1>1
<1>5. \A s \in ses.epoch..now - 1 : LiveAt(s)' = LiveAt(s) /\ LiveAt(s + 1)' = LiveAt(s + 1)
  BY <1>2, <1>4
<1>6. QED BY <1>1, <1>3, <1>5 DEF LiveInv

\* A pause begins, or the last one ends, at this tick.
PauseStarts == /\ ~ses.paused /\ ses'.paused /\ Len(ses.pauses) < MaxPauses /\ ses.epoch # 0
               /\ ses'.pauses = Append(ses.pauses, [start |-> now, end |-> 0])
PauseStops == /\ ses.paused /\ ~ses'.paused
              /\ ses'.pauses = [ses.pauses EXCEPT ![Len(ses.pauses)].end = now]

LEMMA PauseKeepsPast ==
    ASSUME Typed, Typed', PausesInv, now' = now, ses'.epoch = ses.epoch, PauseStarts \/ PauseStops
    PROVE  PastStays /\ PausesInv'
<1> DEFINE p == ses.pauses
           q == ses'.pauses
<1>0. p \in Seq(Span) /\ q \in Seq(Span) /\ now \in Tick /\ now > 0 /\ Len(p) \in Nat
      /\ ses.paused \in BOOLEAN /\ ses'.paused \in BOOLEAN /\ MaxPauses \in Nat
  BY TimelineAssumption DEF Typed, SessionType, Tick
<1>1. \A w \in 0..now : w \in Nat /\ w <= now BY <1>0 DEF Tick
<1>2. CASE PauseStarts
  <2> DEFINE s == [start |-> now, end |-> 0]
  <2>1. q = Append(p, s) BY <1>2 DEF PauseStarts
  <2>2. \A w \in 0..now : PausedIn(q, w) = PausedIn(p, w) BY <1>0, <1>1, <2>1, PauseBegins
  <2>3. Len(q) = Len(p) + 1 /\ q[Len(p) + 1] = s /\ \A i \in 1..Len(p) : q[i] = p[i]
    BY <1>0, <2>1, PauseBegins
  <2> HIDE DEF p, q
  <2>4. Len(q) <= MaxPauses /\ Len(q) > 0 /\ \A i \in 1..Len(q) : i \in 1..Len(p) \/ i = Len(p) + 1
    BY <1>0, <1>2, <2>3 DEF PauseStarts, p
  <2>5. \A i \in 1..Len(q) : q[i].start <= now /\ q[i].end <= now /\ (q[i].end = 0 <=> i = Len(q))
    <3> SUFFICES ASSUME NEW i \in 1..Len(q)
                 PROVE  q[i].start <= now /\ q[i].end <= now /\ (q[i].end = 0 <=> i = Len(q))
      OBVIOUS
    <3>1. CASE i = Len(p) + 1 BY <1>0, <2>3, <3>1 DEF Tick
    <3>2. CASE i \in 1..Len(p)
      <4>1. q[i] = p[i] /\ i # Len(q) BY <1>0, <2>3, <3>2
      <4>2. p[i].start <= now /\ p[i].end <= now /\ p[i].end # 0
        BY <1>2, <3>2 DEF PausesInv, PauseStarts, p
      <4>3. QED BY <4>1, <4>2
    <3>3. QED BY <2>4, <3>1, <3>2
  <2>6. PausesInv' BY <1>2, <2>4, <2>5 DEF PausesInv, PauseStarts, q
  <2>7. PastStays BY <1>1, <2>2, PausedNow DEF PastStays, p, q
  <2>8. QED BY <2>6, <2>7
<1>3. CASE PauseStops
  <2>1. q = [p EXCEPT ![Len(p)].end = now] BY <1>3 DEF PauseStops
  <2>2. Len(p) > 0 /\ Len(p) \in 1..Len(p) /\ p[Len(p)].end = 0 BY <1>0, <1>3 DEF PausesInv, PauseStops
  <2>3. Len(q) = Len(p) /\ \A w \in 0..now : PausedIn(q, w) = PausedIn(p, w)
    BY <1>0, <1>1, <2>1, <2>2, PauseEnds
  <2>4. p[Len(p)] \in Span BY <1>0, <2>2
  <2>5. q[Len(p)].end = now /\ q[Len(p)].start = p[Len(p)].start
        /\ \A i \in 1..Len(p) : i # Len(p) => q[i] = p[i]
    BY <1>0, <2>1, <2>2, <2>4 DEF Span
  <2> HIDE DEF p, q
  <2>6. \A i \in 1..Len(p) : p[i].start <= now /\ p[i].end <= now /\ (p[i].end = 0 <=> i = Len(p))
    BY <1>3 DEF PausesInv, PauseStops, p
  <2>7. \A i \in 1..Len(q) : q[i].start <= now /\ q[i].end <= now /\ q[i].end # 0
    <3> SUFFICES ASSUME NEW i \in 1..Len(q)
                 PROVE  q[i].start <= now /\ q[i].end <= now /\ q[i].end # 0
      OBVIOUS
    <3>1. CASE i = Len(p) BY <1>0, <2>2, <2>5, <2>6, <3>1 DEF Tick
    <3>2. CASE i # Len(p) BY <2>3, <2>5, <2>6, <3>2
    <3>3. QED BY <3>1, <3>2
  <2>8. PausesInv'
    <3>1. Len(p) <= MaxPauses BY DEF PausesInv, p
    <3>2. ses.epoch # 0
      <4>1. ses.epoch = 0 => Len(p) = 0 BY DEF PausesInv, p
      <4>2. QED BY <1>0, <2>2, <4>1
    <3>3. QED BY <1>3, <2>3, <2>7, <3>1, <3>2 DEF PausesInv, PauseStops, q
  <2>9. PastStays BY <1>1, <2>3, PausedNow DEF PastStays, p, q
  <2>10. QED BY <2>8, <2>9
<1>4. QED BY <1>2, <1>3

LEMMA TickKeepsClock ==
    ASSUME Typed, Typed', PausesInv, LiveInv, now' = now + 1, ses' = ses,
           live' = IF ses.epoch # 0 /\ ~ses.paused THEN live + 1 ELSE live
    PROVE  PausesInv' /\ LiveInv' /\ PastStays
<1>0. now \in Nat /\ ses.epoch \in Nat /\ live \in Nat /\ ses.pauses \in Seq(Span) /\ ses.paused \in BOOLEAN
  BY TimelineAssumption DEF Typed, SessionType, Tick
<1>1. PastStays BY SamePauses
<1>2. PausesInv'
  <2>1. \A i \in 1..Len(ses.pauses) : ses.pauses[i].start \in Nat /\ ses.pauses[i].end \in Nat
    BY <1>0, TermsAre
  <2>2. QED BY <1>0, <2>1 DEF PausesInv
<1>3. now + 1 \in Nat BY <1>0
<1>4. PausedBefore(now + 1) = PausedBefore(now) + IF ses.paused THEN 1 ELSE 0
  <2>1. PausedIn(ses.pauses, now + 1) = PausedIn(ses.pauses, now) + IF ses.paused THEN 1 ELSE 0
    <3>1. ses.paused => Len(ses.pauses) > 0 BY DEF PausesInv
    <3>2. \A i \in 1..Len(ses.pauses) :
             /\ ses.pauses[i].start <= now /\ ses.pauses[i].end <= now
             /\ ses.pauses[i].end = 0 <=> ses.paused /\ i = Len(ses.pauses)
      BY DEF PausesInv
    <3>3. QED BY <1>0, <3>1, <3>2, PausedNext
  <2>2. QED BY <1>0, <1>3, <2>1, PausedBeforeNat
<1>5. PausedBefore(now) \in Nat BY <1>0, PausedBeforeNat
<1>6. LiveAt(now + 1) = LiveAt(now) + IF ses.paused THEN 0 ELSE 1 BY <1>0, <1>4, <1>5, SMTT(60) DEF LiveAt
<1>7. \A w \in Nat : PausedBefore(w)' = PausedBefore(w)
  BY PausedNow
<1>8. \A w \in Nat : LiveAt(w)' = LiveAt(w) BY <1>7 DEF LiveAt
<1>9. LiveAt(now)' = LiveAt(now + 1)
  <2>1. PausedBefore(now)' = PausedBefore(now + 1)
    <3>1. (\A w \in Nat : PausedBefore(w) = PausedIn(ses.pauses, w))' BY PausedNow
    <3>2. PausedBefore(now)' = PausedIn(ses.pauses, now + 1) BY <1>3, <3>1
    <3>3. QED BY <1>3, <3>2, PausedNow
  <2>2. QED BY <2>1 DEF LiveAt
<1>10. LiveInv'
  <2>1. CASE ses.epoch = 0 BY <2>1 DEF LiveInv
  <2>2. CASE ses.epoch # 0
    <3>1. LiveAt(now) = live /\ ses.epoch <= now BY <2>2 DEF LiveInv
    <3>2. LiveAt(now + 1) = live' BY <1>0, <1>6, <2>2, <3>1
    <3>3. \A s \in ses.epoch..now : s \in Nat /\ s + 1 \in Nat /\ (s = now \/ s \in ses.epoch..now - 1)
      BY <1>0
    <3>4. \A s \in ses.epoch..now : LiveAt(s + 1) \in {LiveAt(s), LiveAt(s) + 1}
      <4>1. LiveAt(now + 1) \in {LiveAt(now), LiveAt(now) + 1}
        BY <1>0, <1>6, <3>1
      <4>2. QED BY <2>2, <3>3, <4>1 DEF LiveInv
    <3>5. \A s \in ses.epoch..now : (LiveAt(s + 1) \in {LiveAt(s), LiveAt(s) + 1})'
      BY <1>8, <3>3, <3>4
    <3>6. now' - 1 = now BY <1>0
    <3>7. QED BY <1>0, <1>9, <2>2, <3>1, <3>2, <3>5, <3>6 DEF LiveInv
  <2>3. QED BY <2>1, <2>2
<1>11. QED BY <1>1, <1>2, <1>10

-----------------------------------------------------------------------------
(* Types, the handlers' work and the session's clock, step by step.          *)

LEMMA EmptyTypes == NewFile \in FileType /\ NoWork \in TodoType
<1>1. 0 \in Tick BY TimelineAssumption DEF Tick
<1>2. QED BY <1>1 DEF NewFile, FileType, ListedType, NoWork, TodoType, Kind

\* Where the session and its clock are left alone, but for a session that ends.
LEMMA ClockStays ==
    ASSUME Typed, Typed', ClockInv, now' = now, live' = live, ses' = ses PROVE PastStays /\ ClockInv'
<1>1. PastStays BY SamePauses
<1>2. LiveInv' BY <1>1, LiveStays DEF ClockInv
<1>3. PausesInv' BY DEF ClockInv, PausesInv
<1>4. QED BY <1>1, <1>2, <1>3 DEF ClockInv

LEMMA StartKeeps ==
    ASSUME TimelineInv, NEW S \in SUBSET File, Start(S) PROVE Typed' /\ WorkInv' /\ ClockInv'
<1>0. /\ Typed /\ WorkInv /\ ClockInv /\ ses.active = FALSE /\ ses.paused = FALSE /\ todo = NoWork
      /\ MaxTime \in Nat /\ 0 \in Tick /\ now \in Tick /\ now > 0
  BY TimelineAssumption DEF TimelineInv, WorkInv, Start, Idle, Typed, SessionType, Tick
<1>1. ses' \in SessionType
  <2>1. ses \in SessionType BY <1>0 DEF Typed
  <2>2. <<>> \in Seq(Span) OBVIOUS
  <2>3. CASE ses.resumable BY <1>0, <2>1, <2>2, <2>3 DEF Start, SessionType
  <2>4. CASE ~ses.resumable BY <1>0, <2>1, <2>2, <2>4 DEF Start, SessionType
  <2>5. QED BY <2>3, <2>4
<1>2. file' \in [File -> FileType] BY <1>0, EmptyTypes DEF Start, Typed
<1>3. todo' \in TodoType BY EmptyTypes DEF Start, TodoType, NoWork
<1>4. Typed' BY <1>0, <1>1, <1>2, <1>3 DEF Typed, Start
<1>5. OpenFiles = {} BY <1>0 DEF WorkInv
<1>6. \A f \in File : file'[f].phase # "open" /\ (f \in S => file'[f] = NewFile)
  <2>1. \A f \in File : file'[f] = IF ses.resumable /\ f \notin S THEN file[f] ELSE NewFile BY DEF Start
  <2>2. NewFile.phase = "new" BY DEF NewFile
  <2>3. QED BY <1>5, <2>1, <2>2 DEF OpenFiles
<1>7. ses'.active /\ ses'.paused = FALSE
  <2>1. ses \in SessionType BY <1>0 DEF Typed
  <2>2. QED BY <1>0, <2>1 DEF Start, SessionType
<1>8. WorkInv'
  <2>1. /\ todo'.starting = S /\ todo'.fresh = (S # {} /\ ~ses.resumable) /\ todo'.pausing = {}
        /\ todo'.held = NoFile /\ todo'.closing = {} /\ todo'.ending = FALSE
    BY DEF Start, NoWork
  <2>2. OpenFiles' = {} BY <1>6 DEF OpenFiles
  <2>3. \A f \in S : file'[f].phase = "new" /\ file'[f].slack = 0 BY <1>6 DEF NewFile
  <2>4. ~ses.resumable => live' = 0 BY DEF Start
  <2>5. Shared' \subseteq File /\ NoFile \notin File BY TimelineAssumption DEF Shared
  <2>6. QED BY <1>7, <2>1, <2>2, <2>3, <2>4, <2>5 DEF WorkInv
<1>9. ClockInv'
  <2>0. ses \in SessionType /\ ses.active = FALSE BY <1>0 DEF Typed
  <2>1. CASE ses.resumable
    <3>1. /\ ses'.pauses = ses.pauses /\ ses'.epoch = ses.epoch /\ ses'.paused = ses.paused
          /\ ses'.duration = 0 /\ live' = live /\ now' = now /\ ses.epoch # 0
      BY <1>0, <2>0, <2>1 DEF Start, SessionType, ClockInv
    <3>2. LiveInv' BY <1>0, <1>4, <3>1, SamePauses, LiveStays DEF ClockInv
    <3>3. PausesInv' BY <1>0, <3>1 DEF ClockInv, PausesInv
    <3>4. QED BY <1>7, <3>1, <3>2, <3>3 DEF ClockInv
  <2>2. CASE ~ses.resumable
    <3>1. ses'.pauses = <<>> /\ ses'.epoch = now /\ ses'.duration = 0 /\ live' = 0 /\ now' = now
      BY <2>0, <2>2 DEF Start, SessionType
    <3>2. PausesInv'
      <4>1. Len(<<>>) = 0 /\ MaxPauses \in Nat /\ 1..0 = {} BY TimelineAssumption
      <4>2. QED BY <1>0, <1>7, <3>1, <4>1 DEF PausesInv
    <3>3. PausedBefore(now)' = 0
      <4>1. now \in Nat BY <1>0 DEF Tick
      <4>2. PausedIn(<<>>, now) = 0
        <5>1. <<>> \in Seq(Span) OBVIOUS
        <5>2. QED BY <4>1, <5>1, PausedIsNat
      <4>3. (\A w \in Nat : PausedBefore(w) = PausedIn(ses.pauses, w))' BY <1>0, <1>4, PausedNow
      <4>4. QED BY <3>1, <4>1, <4>2, <4>3
    <3>4. LiveInv'
      <4>1. LiveAt(now)' = 0 BY <1>0, <3>1, <3>3 DEF LiveAt, Tick
      <4>2. now..now - 1 = {} BY <1>0 DEF Tick
      <4>3. QED BY <1>0, <3>1, <4>1, <4>2 DEF LiveInv, Tick
    <3>5. QED BY <1>0, <1>7, <3>1, <3>2, <3>4 DEF ClockInv
  <2>3. QED BY <2>1, <2>2
<1>10. QED BY <1>4, <1>8, <1>9

LEMMA ClosedIs ==
    ASSUME Typed, NEW f \in OpenFiles, RecorderInv(f)
    PROVE  LET r == file[f] IN
           /\ Closed(f) \in FileType
           /\ Closed(f).phase = "closed" /\ Closed(f).out = "off" /\ Closed(f).started = FALSE
           /\ Closed(f).kind = r.kind /\ Closed(f).failed = r.failed /\ Closed(f).first = r.first
           /\ Closed(f).frames = r.frames /\ Closed(f).ran = r.ran /\ Closed(f).slack = r.slack
           /\ Closed(f).place = r.place /\ Closed(f).refused = r.refused
           /\ Closed(f).listed.offset = OffsetFor(r) /\ Closed(f).listed.duration = Duration(r)
           /\ r.failed => Closed(f).listed.status = "failed"
           /\ ~r.failed /\ Shortfall(r.frames, Duration(r), Rate[r.kind])
                => Closed(f).listed.status = "aborted"
           /\ ~r.failed /\ ~Shortfall(r.frames, Duration(r), Rate[r.kind])
                => Closed(f).listed.status = "complete"
<1> DEFINE r == file[f]
           o == OffsetFor(r)
           d == Duration(r)
           short == Shortfall(r.frames, d, Rate[r.kind])
           status == CASE r.failed -> "failed"
                       [] ~r.failed /\ short -> "aborted"
                       [] OTHER -> "complete"
<1>1. r \in FileType /\ now \in 1..MaxTime BY DEF Typed, OpenFiles
<1>2. r.startNs \in 1..now BY DEF RecorderInv, OpenFiles
<1>3. o \in Tick BY <1>1, OffsetForIs
<1>4. d \in Tick BY <1>1, <1>2, DurationIs
<1>5. Closed(f) = [NewFile EXCEPT !.phase = "closed", !.kind = r.kind,
                        !.listed = [offset |-> o, duration |-> d, status |-> status],
                        !.failed = r.failed, !.first = r.first, !.frames = r.frames,
                        !.ran = r.ran, !.slack = r.slack, !.place = r.place,
                        !.refused = r.refused]
  BY DEF Closed
<1>6. r.failed \in BOOLEAN BY <1>1 DEF FileType
<1>7. /\ r.failed => status = "failed"
      /\ ~r.failed /\ short => status = "aborted"
      /\ ~r.failed /\ ~short => status = "complete"
  <2> HIDE DEF short
  <2>1. QED BY <1>6
<1> HIDE DEF o, d, short, status
<1>8. status \in {"none", "failed", "aborted", "complete"} BY <1>6, <1>7
<1>9. [offset |-> o, duration |-> d, status |-> status] \in ListedType BY <1>3, <1>4, <1>8 DEF ListedType
<1>10. Closed(f) \in FileType BY <1>1, <1>5, <1>9, EmptyTypes, ZenonT(60) DEF FileType
<1>11. /\ Closed(f).phase = "closed" /\ Closed(f).out = "off" /\ Closed(f).started = FALSE
       /\ Closed(f).kind = r.kind /\ Closed(f).failed = r.failed /\ Closed(f).first = r.first
       /\ Closed(f).frames = r.frames /\ Closed(f).ran = r.ran /\ Closed(f).slack = r.slack
       /\ Closed(f).place = r.place /\ Closed(f).refused = r.refused
       /\ Closed(f).listed.offset = o /\ Closed(f).listed.duration = d
       /\ Closed(f).listed.status = status
  BY <1>5 DEF NewFile
<1>12. QED BY <1>7, <1>10, <1>11 DEF o, d, short

\* What an open file starts as.
LEMMA OpenedIs ==
    ASSUME Typed, NEW f \in File, NEW kind \in Kind, NEW fresh \in BOOLEAN, Opened(f, kind, fresh),
           ses.epoch <= now, ses.epoch # 0
    PROVE  LET r == file'[f] IN
           /\ file' \in [File -> FileType] /\ \A g \in File \ {f} : file'[g] = file[g]
           /\ r.phase = "open" /\ r.kind = kind /\ r.out = "on" /\ r.started = TRUE
           /\ r.failed = FALSE /\ r.startNs = now /\ r.place = live /\ r.first = 0 /\ r.stopNs = 0
           /\ r.paused = FALSE /\ r.pausedNs = 0 /\ r.frames = 0 /\ r.ran = 0 /\ r.refused = FALSE
           /\ r.offset = IF fresh THEN 0 ELSE now - ses.epoch
           /\ r.slack = IF f \in todo.starting THEN file[f].slack ELSE 0
           /\ r.listed.status = "none"
<1> DEFINE o == IF fresh THEN 0 ELSE Minus(now, ses.epoch)
           sl == IF f \in todo.starting THEN file[f].slack ELSE 0
           n == [NewFile EXCEPT !.phase = "open", !.kind = kind, !.out = "on", !.started = TRUE,
                     !.startNs = now, !.offset = o, !.place = live, !.slack = sl]
<1>1. file' = [file EXCEPT ![f] = n] BY DEF Opened
<1>2. now \in Tick /\ ses.epoch \in Tick /\ live \in Nat /\ file \in [File -> FileType]
  BY TimelineAssumption DEF Typed, SessionType, Tick
<1>3. o = (IF fresh THEN 0 ELSE now - ses.epoch) /\ o \in Tick
  <2>1. Minus(now, ses.epoch) = now - ses.epoch /\ now - ses.epoch \in Tick BY <1>2, MinusIs
  <2>2. 0 \in Tick BY TimelineAssumption DEF Tick
  <2>3. QED BY <2>1, <2>2
<1>4. sl \in Nat BY <1>2 DEF FileType
<1> HIDE DEF o, sl
<1>5. n \in FileType BY <1>2, <1>3, <1>4, EmptyTypes DEF FileType
<1>6. file'[f] = n /\ file' \in [File -> FileType] /\ \A g \in File \ {f} : file'[g] = file[g]
  BY <1>1, <1>2, <1>5
<1>7. /\ n.phase = "open" /\ n.kind = kind /\ n.out = "on" /\ n.started = TRUE
      /\ n.failed = FALSE /\ n.startNs = now /\ n.place = live /\ n.first = 0 /\ n.stopNs = 0
      /\ n.paused = FALSE /\ n.pausedNs = 0 /\ n.frames = 0 /\ n.ran = 0 /\ n.refused = FALSE
      /\ n.offset = o /\ n.slack = sl /\ n.listed.status = "none"
  BY DEF NewFile
<1> HIDE DEF n
<1>8. QED BY <1>3, <1>6, <1>7 DEF sl

LEMMA Basics ==
    ASSUME TimelineInv
    PROVE  /\ now \in Nat /\ now \in Tick /\ now > 0 /\ live \in Nat /\ ses \in SessionType
           /\ file \in [File -> FileType] /\ todo \in TodoType /\ 0 \in Tick /\ MaxTime \in Nat
           /\ NoFile \notin File /\ ses.epoch \in Nat /\ ses.epoch \in Tick
           /\ \A t \in Tick : t \in Nat
           /\ ses.active => ses.epoch # 0 /\ ses.epoch <= now
BY TimelineAssumption DEF TimelineInv, Typed, SessionType, ClockInv, LiveInv, Tick

LEMMA StartFileKeeps ==
    ASSUME TimelineInv, NEW f \in File, NEW kind \in Kind, StartFile(f, kind)
    PROVE  Typed' /\ WorkInv' /\ ClockInv' /\ PastStays
<1>0. Typed /\ WorkInv /\ ClockInv /\ f \in todo.starting BY DEF TimelineInv, StartFile
<1>1. ses.active /\ todo.pausing = {} /\ todo.held = NoFile /\ todo.ending = FALSE /\ ses.paused = FALSE
      /\ todo.fresh \in BOOLEAN /\ file[f].phase = "new"
  <2>1. todo # NoWork BY <1>0 DEF NoWork
  <2>2. QED BY <1>0, <2>1, Basics DEF WorkInv, TodoType, SessionType
<1>2. /\ file' \in [File -> FileType] /\ \A g \in File \ {f} : file'[g] = file[g]
      /\ file'[f].phase = "open"
  <2>1. Opened(f, kind, todo.fresh) BY DEF StartFile
  <2>2. ses.epoch # 0 /\ ses.epoch <= now BY <1>1, Basics
  <2>3. QED BY <1>0, <1>1, <2>1, <2>2, OpenedIs
<1>3. now' = now /\ live' = live /\ ses' = ses BY DEF StartFile, Opened
<1>4. todo' = IF todo.starting = {f} THEN NoWork ELSE [todo EXCEPT !.starting = @ \ {f}]
  BY DEF StartFile
<1>5. todo' \in TodoType /\ todo'.starting = todo.starting \ {f} /\ todo'.pausing = {}
      /\ todo'.held = NoFile /\ todo'.ending = FALSE /\ (todo'.fresh => todo.fresh)
      /\ (todo'.closing = {} \/ todo'.closing = todo.closing)
  <2>1. CASE todo.starting = {f} BY <1>4, <2>1, EmptyTypes DEF NoWork
  <2>2. CASE todo.starting # {f} BY <1>1, <1>4, <2>2, Basics DEF TodoType
  <2>3. QED BY <2>1, <2>2
<1>6. Typed' BY <1>0, <1>2, <1>3, <1>5 DEF Typed
<1>7. WorkInv'
  <2>1. \A g \in todo.starting : g \in File BY Basics DEF TodoType
  <2>2. \A g \in todo'.starting : file'[g].phase = "new" /\ file'[g] = file[g]
    BY <1>0, <1>2, <1>5, <2>1 DEF WorkInv
  <2>3. OpenFiles \subseteq OpenFiles' BY <1>2 DEF OpenFiles
  <2>4. todo'.closing \subseteq OpenFiles' BY <1>0, <1>5, <2>3 DEF WorkInv
  <2>5. Shared' \subseteq File BY DEF Shared
  <2>6. todo'.fresh => \A g \in todo'.starting : file'[g].slack = live'
    BY <1>0, <1>3, <1>5, <2>2 DEF WorkInv
  <2>7. QED BY <1>1, <1>3, <1>5, <2>2, <2>4, <2>5, <2>6, Basics DEF WorkInv
<1>8. QED BY <1>0, <1>3, <1>6, <1>7, ClockStays

LEMMA JoinFileKeeps ==
    ASSUME TimelineInv, NEW f \in File, NEW kind \in Kind, JoinFile(f, kind)
    PROVE  Typed' /\ WorkInv' /\ ClockInv' /\ PastStays
<1>0. Typed /\ WorkInv /\ ClockInv /\ todo = NoWork /\ ses.active /\ f \notin OpenFiles
  BY DEF TimelineInv, JoinFile, Idle
<1>2. /\ file' \in [File -> FileType] /\ \A g \in File \ {f} : file'[g] = file[g]
      /\ file'[f].phase = "open" /\ file'[f].kind = kind
  BY <1>0, Basics, OpenedIs DEF JoinFile
<1>3. now' = now /\ live' = live /\ ses' = ses BY DEF JoinFile, Opened
<1>5. todo' \in TodoType /\ todo'.starting = {} /\ todo'.closing = {} /\ todo'.fresh = FALSE
      /\ todo'.held = NoFile /\ todo'.ending = FALSE
      /\ todo'.pausing = IF ses.paused /\ kind # "shared" THEN {f} ELSE {}
  BY <1>0, EmptyTypes DEF JoinFile, NoWork, TodoType
<1>6. Typed' BY <1>0, <1>2, <1>3, <1>5 DEF Typed
<1>7. WorkInv'
  <2>1. f \in OpenFiles' /\ (kind # "shared" => f \notin Shared') BY <1>2 DEF OpenFiles, Shared
  <2>2. NoFile \notin Shared' BY Basics DEF Shared
  <2>3. QED BY <1>0, <1>3, <1>5, <2>1, <2>2, Basics DEF WorkInv
<1>8. QED BY <1>0, <1>3, <1>6, <1>7, ClockStays

LEMMA PauseSessionKeeps ==
    ASSUME TimelineInv, PauseSession
    PROVE  Typed' /\ WorkInv' /\ ClockInv' /\ PastStays
<1>0. /\ Typed /\ WorkInv /\ ClockInv /\ todo = NoWork /\ ses.active
      /\ ses.paused \in BOOLEAN /\ ses.pauses \in Seq(Span)
      /\ (ses.paused \/ Len(ses.pauses) < MaxPauses)
  BY Basics DEF TimelineInv, PauseSession, Idle, SessionType
<1>1. now' = now /\ live' = live /\ file' = file BY DEF PauseSession
<1>2. /\ ses'.active = ses.active /\ ses'.paused = ~ses.paused /\ ses'.epoch = ses.epoch
      /\ ses'.resumable = ses.resumable /\ ses'.duration = ses.duration
      /\ ses'.pauses = IF ses.paused THEN [ses.pauses EXCEPT ![Len(ses.pauses)].end = now]
                       ELSE Append(ses.pauses, [start |-> now, end |-> 0])
  BY Basics DEF PauseSession, SessionType
<1>3. ses'.pauses \in Seq(Span)
  <2>1. CASE ses.paused
    <3>1. Len(ses.pauses) > 0 /\ Len(ses.pauses) \in 1..Len(ses.pauses)
          /\ ses.pauses[Len(ses.pauses)].end = 0
      BY <1>0, <2>1 DEF ClockInv, PausesInv
    <3>2. now <= now BY Basics
    <3>3. QED BY <1>0, <1>2, <2>1, <3>1, <3>2, Basics, PauseEnds
  <2>2. CASE ~ses.paused
    <3>1. now <= now BY Basics
    <3>2. QED BY <1>0, <1>2, <2>2, <3>1, Basics, PauseBegins
  <2>3. QED BY <2>1, <2>2
<1>4. ses' \in SessionType
  <2>1. ses' = [ses EXCEPT !.paused = ses'.paused, !.pauses = ses'.pauses]
    BY <1>2 DEF PauseSession
  <2>2. ses'.paused \in BOOLEAN BY <1>0, <1>2
  <2>3. QED BY <1>3, <2>1, <2>2, Basics DEF SessionType
<1>5. /\ todo' \in TodoType /\ todo'.pausing = OpenFiles \ Shared /\ todo'.starting = {}
      /\ todo'.closing = {} /\ todo'.fresh = FALSE /\ todo'.held = NoFile /\ todo'.ending = FALSE
  BY <1>0, EmptyTypes DEF PauseSession, NoWork, TodoType, OpenFiles
<1>6. Typed' BY <1>0, <1>1, <1>4, <1>5 DEF Typed
<1>7. PastStays /\ PausesInv'
  <2>1. PauseStarts \/ PauseStops
    BY <1>0, <1>2, Basics DEF PauseStarts, PauseStops
  <2>2. QED BY <1>0, <1>1, <1>2, <1>6, <2>1, PauseKeepsPast DEF ClockInv
<1>8. ClockInv'
  <2>1. LiveInv' BY <1>0, <1>1, <1>6, <1>7, LiveStays DEF ClockInv
  <2>2. QED BY <1>0, <1>1, <1>2, <1>7, <2>1 DEF ClockInv
<1>9. WorkInv'
  <2>1. OpenFiles' = OpenFiles /\ Shared' = Shared BY <1>1 DEF OpenFiles, Shared
  <2>2. NoFile \notin Shared /\ NoFile \notin OpenFiles BY Basics DEF Shared, OpenFiles
  <2>3. QED BY <1>0, <1>2, <1>5, <2>1, <2>2 DEF WorkInv
<1>10. QED BY <1>6, <1>7, <1>8, <1>9

LEMMA StopKeeps ==
    ASSUME TimelineInv, NEW resumable \in BOOLEAN, Stop(resumable)
    PROVE  Typed' /\ WorkInv' /\ ClockInv' /\ PastStays
<1>0. /\ Typed /\ WorkInv /\ ClockInv /\ todo = NoWork /\ ses.active
      /\ ses.paused \in BOOLEAN /\ ses.pauses \in Seq(Span)
  BY Basics DEF TimelineInv, Stop, Idle, SessionType
<1>1. now' = now /\ live' = live /\ file' = file BY DEF Stop
<1>5. /\ todo' \in TodoType /\ todo'.pausing \subseteq OpenFiles \ Shared /\ todo'.starting = {}
      /\ todo'.closing = OpenFiles /\ todo'.fresh = FALSE /\ todo'.held = NoFile /\ todo'.ending = TRUE
  BY <1>0, EmptyTypes DEF Stop, NoWork, TodoType, OpenFiles
<1>9. ses'.active /\ ses'.paused = FALSE => WorkInv'
  <2>1. OpenFiles' = OpenFiles /\ Shared' = Shared BY <1>1 DEF OpenFiles, Shared
  <2>2. NoFile \notin Shared /\ NoFile \notin OpenFiles BY Basics DEF Shared, OpenFiles
  <2>3. QED BY <1>0, <1>5, <2>1, <2>2 DEF WorkInv
<1>10. CASE ~ses.paused
  <2>1. ses' = ses BY <1>10 DEF Stop
  <2>2. Typed' BY <1>0, <1>1, <1>5, <2>1 DEF Typed
  <2>3. ses'.active /\ ses'.paused = FALSE BY <1>0, <1>10, <2>1
  <2>4. QED BY <1>0, <1>1, <1>9, <2>1, <2>2, <2>3, ClockStays
<1>11. CASE ses.paused
  <2>1. /\ ses'.active = ses.active /\ ses'.paused = FALSE /\ ses'.epoch = ses.epoch
        /\ ses'.resumable = ses.resumable /\ ses'.duration = ses.duration
        /\ ses'.pauses = [ses.pauses EXCEPT ![Len(ses.pauses)].end = now]
        /\ ses' = [ses EXCEPT !.paused = FALSE, !.pauses = ses'.pauses]
    BY <1>11, Basics DEF Stop, SessionType
  <2>2. ses'.pauses \in Seq(Span)
    <3>1. Len(ses.pauses) > 0 /\ Len(ses.pauses) \in 1..Len(ses.pauses)
          /\ ses.pauses[Len(ses.pauses)].end = 0
      BY <1>0, <1>11 DEF ClockInv, PausesInv
    <3>2. now <= now /\ now \in Tick /\ now > 0 /\ now \in Nat BY Basics
    <3>3. [ses.pauses EXCEPT ![Len(ses.pauses)].end = now] \in Seq(Span)
      BY <1>0, <3>1, <3>2, PauseEnds
    <3>4. QED BY <2>1, <3>3
  <2>3. ses' \in SessionType BY <2>1, <2>2, Basics DEF SessionType
  <2>4. Typed' BY <1>0, <1>1, <1>5, <2>3 DEF Typed
  <2>5. PastStays /\ PausesInv'
    <3>1. PauseStops BY <1>11, <2>1 DEF PauseStops
    <3>2. QED BY <1>0, <1>1, <2>1, <2>4, <3>1, PauseKeepsPast DEF ClockInv
  <2>6. LiveInv' BY <1>0, <1>1, <2>4, <2>5, LiveStays DEF ClockInv
  <2>7. ClockInv' BY <1>0, <1>1, <2>1, <2>5, <2>6 DEF ClockInv
  <2>8. QED BY <1>0, <1>9, <2>1, <2>4, <2>5, <2>7
<1>12. QED BY <1>10, <1>11

LEMMA EndSessionKeeps ==
    ASSUME TimelineInv, EndSession
    PROVE  Typed' /\ WorkInv' /\ ClockInv' /\ PastStays
<1>0. /\ Typed /\ WorkInv /\ ClockInv /\ todo.ending /\ todo.closing = {} /\ todo.pausing = {}
      /\ todo.held = NoFile
  BY DEF TimelineInv, EndSession
<1>1. now' = now /\ live' = live /\ file' = file /\ todo' = NoWork BY DEF EndSession
<1>2. /\ ses' = [ses EXCEPT !.active = FALSE, !.resumable = todo.resumable, !.duration = Elapsed(now)]
      /\ ses'.active = FALSE /\ ses'.resumable = todo.resumable /\ ses'.duration = Elapsed(now)
      /\ ses'.pauses = ses.pauses /\ ses'.epoch = ses.epoch /\ ses'.paused = ses.paused
  BY Basics DEF EndSession, SessionType
<1>3. ses.active /\ ses.paused = FALSE /\ OpenFiles = {}
  <2>1. todo # NoWork BY <1>0 DEF NoWork
  <2>2. QED BY <1>0, <2>1, Basics DEF WorkInv, SessionType
<1>4. Elapsed(now) = live
  <2>1. ses.epoch # 0 /\ ses.epoch <= now /\ LiveAt(now) = live BY <1>0, <1>3 DEF ClockInv, LiveInv
  <2>2. PausedBefore(now) \in Nat BY <1>0, Basics, PausedBeforeNat
  <2>3. Minus(now, ses.epoch) = now - ses.epoch /\ now - ses.epoch \in Tick BY <2>1, Basics, MinusIs
  <2>4. PausedBefore(now) <= now - ses.epoch /\ now - ses.epoch - PausedBefore(now) = live
    BY <2>1, <2>2, Basics DEF LiveAt
  <2>5. PausedBefore(now) \in Tick BY <2>2, <2>3, <2>4, Basics DEF Tick
  <2>6. QED BY <2>3, <2>4, <2>5, MinusIs DEF Elapsed
<1>5. Typed'
  <2>1. live \in Tick BY <1>0 DEF Typed
  <2>2. todo.resumable \in BOOLEAN BY Basics DEF TodoType
  <2>3. ses' \in SessionType BY <1>2, <1>4, <2>1, <2>2, Basics DEF SessionType
  <2>4. QED BY <1>0, <1>1, <2>3, EmptyTypes DEF Typed
<1>6. PastStays BY <1>0, <1>2, <1>5, SamePauses
<1>7. ClockInv'
  <2>1. LiveInv' BY <1>0, <1>1, <1>5, <1>6, LiveStays DEF ClockInv
  <2>2. PausesInv' BY <1>0, <1>1, <1>2 DEF ClockInv, PausesInv
  <2>3. ses.epoch # 0 BY <1>3, Basics
  <2>4. QED BY <1>1, <1>2, <1>4, <2>1, <2>2, <2>3 DEF ClockInv
<1>8. WorkInv'
  <2>1. OpenFiles' = {} /\ Shared' \subseteq File BY <1>1, <1>3 DEF OpenFiles, Shared
  <2>2. /\ todo'.starting = {} /\ todo'.pausing = {} /\ todo'.held = NoFile /\ todo'.closing = {}
        /\ todo'.ending = FALSE /\ todo'.fresh = FALSE
    BY <1>1 DEF NoWork
  <2>3. QED BY <1>1, <1>2, <1>3, <2>1, <2>2, Basics DEF WorkInv
<1>9. QED BY <1>5, <1>6, <1>7, <1>8

\* One file changes, and stays open, or closes.
SamePlaces(f) ==
    /\ \A g \in File \ {f} : file'[g] = file[g]
    /\ file'[f].phase = file[f].phase /\ file'[f].kind = file[f].kind
    /\ file'[f].offset = file[f].offset

LEMMA PauseOutputKeeps ==
    ASSUME TimelineInv, NEW f \in File, NEW ok \in BOOLEAN, PauseOutput(f, ok)
    PROVE  Typed' /\ WorkInv' /\ ClockInv' /\ PastStays /\ SamePlaces(f)
<1>0. /\ Typed /\ WorkInv /\ ClockInv /\ f \in todo.pausing /\ todo.held = NoFile
      /\ file[f] \in FileType
  BY Basics DEF TimelineInv, PauseOutput
<1>1. now' = now /\ live' = live /\ ses' = ses BY DEF PauseOutput
<1>2. file' \in [File -> FileType] /\ SamePlaces(f)
  <2>1. \/ file' = file
        \/ file' = [file EXCEPT ![f].out = IF ses.paused THEN "paused" ELSE "on"]
        \/ file' = [file EXCEPT ![f].refused = TRUE]
    BY DEF PauseOutput
  <2>2. CASE file' = file BY <2>2, Basics DEF SamePlaces
  <2>3. CASE file' = [file EXCEPT ![f].out = IF ses.paused THEN "paused" ELSE "on"]
    <3>1. [file[f] EXCEPT !.out = IF ses.paused THEN "paused" ELSE "on"] \in FileType
      BY <1>0 DEF FileType
    <3>2. QED BY <1>0, <2>3, <3>1, Basics DEF SamePlaces, FileType
  <2>4. CASE file' = [file EXCEPT ![f].refused = TRUE]
    <3>1. [file[f] EXCEPT !.refused = TRUE] \in FileType BY <1>0 DEF FileType
    <3>2. QED BY <1>0, <2>4, <3>1, Basics DEF SamePlaces, FileType
  <2>5. QED BY <2>1, <2>2, <2>3, <2>4
<1>3. /\ todo'.pausing = todo.pausing \ {f} /\ todo'.held \in {f, NoFile}
      /\ todo'.starting = todo.starting /\ todo'.closing = todo.closing
      /\ todo'.ending = todo.ending /\ todo'.fresh = todo.fresh /\ todo' \in TodoType
  BY <1>0, Basics DEF PauseOutput, TodoType
<1>4. Typed' BY <1>0, <1>1, <1>2, <1>3 DEF Typed
<1>5. WorkInv'
  <2>1. OpenFiles' = OpenFiles /\ Shared' = Shared BY <1>2 DEF SamePlaces, OpenFiles, Shared
  <2>2. ses.active /\ todo.starting = {} /\ f \in OpenFiles /\ f \notin Shared
    <3>1. todo # NoWork BY <1>0 DEF NoWork
    <3>2. QED BY <1>0, <3>1 DEF WorkInv
  <2>3. NoFile \notin Shared BY Basics DEF Shared
  <2>4. QED BY <1>0, <1>1, <1>3, <2>1, <2>2, <2>3 DEF WorkInv
<1>6. QED BY <1>0, <1>1, <1>2, <1>4, <1>5, ClockStays

LEMMA ReadClockKeeps ==
    ASSUME TimelineInv, ReadClock
    PROVE  Typed' /\ WorkInv' /\ ClockInv' /\ PastStays /\ SamePlaces(todo.held)
<1> DEFINE f == todo.held
           r == file[f]
<1>0. /\ Typed /\ WorkInv /\ ClockInv /\ f \in OpenFiles /\ f \in File /\ r \in FileType
      /\ RecorderInv(f) /\ ses.paused \in BOOLEAN
  <2>1. Typed /\ WorkInv /\ ClockInv /\ f \in OpenFiles BY DEF TimelineInv, ReadClock, WorkInv
  <2>2. f \in File BY <2>1 DEF OpenFiles
  <2>3. QED BY <2>1, <2>2, Basics DEF TimelineInv, FileInv, SessionType
<1>1. now' = now /\ live' = live /\ ses' = ses BY DEF ReadClock
<1>2. (r.pausedNs + Minus(now, r.pauseStart)) % 2^Width \in Tick \/ ses.paused
  <2> SUFFICES ASSUME ~ses.paused PROVE (r.pausedNs + Minus(now, r.pauseStart)) % 2^Width \in Tick
    OBVIOUS
  <2>1. /\ r.paused /\ r.pauseStart <= now /\ r.startNs + r.pausedNs <= r.pauseStart
        /\ r.pausedNs \in Tick /\ r.pauseStart \in Tick /\ r.startNs \in Nat
    BY <1>0, Basics DEF RecorderInv, OpenFiles, FileType
  <2>2. Minus(now, r.pauseStart) = now - r.pauseStart BY <2>1, Basics, MinusIs
  <2>3. r.pausedNs + (now - r.pauseStart) \in Tick BY <2>1, Basics DEF Tick
  <2>4. QED BY <2>2, <2>3, Modulo
<1>3. file' \in [File -> FileType] /\ SamePlaces(f)
  <2> DEFINE z == IF ses.paused THEN r.pausedNs ELSE (r.pausedNs + Minus(now, r.pauseStart)) % 2^Width
             n == [r EXCEPT !.paused = ses.paused, !.pauseStart = IF ses.paused THEN now ELSE @,
                            !.pausedNs = z]
  <2>1. file' = [file EXCEPT ![f] = n] BY <1>0, Basics DEF ReadClock
  <2>2. z \in Tick BY <1>0, <1>2 DEF FileType
  <2> HIDE DEF z
  <2>3. n \in FileType /\ n.phase = r.phase /\ n.kind = r.kind /\ n.offset = r.offset
    BY <1>0, <2>2, Basics DEF FileType
  <2> HIDE DEF n
  <2>4. QED BY <1>0, <2>1, <2>3, Basics DEF SamePlaces
<1>4. /\ todo'.pausing = todo.pausing /\ todo'.held = NoFile
      /\ todo'.starting = todo.starting /\ todo'.closing = todo.closing
      /\ todo'.ending = todo.ending /\ todo'.fresh = todo.fresh /\ todo' \in TodoType
  BY <1>0, Basics DEF ReadClock, TodoType
<1>5. Typed' BY <1>0, <1>1, <1>3, <1>4 DEF Typed
<1>6. WorkInv'
  <2>1. OpenFiles' = OpenFiles /\ Shared' = Shared BY <1>3 DEF SamePlaces, OpenFiles, Shared
  <2>2. ses.active /\ todo.starting = {}
    BY <1>0, Basics DEF WorkInv, OpenFiles
  <2>3. NoFile \notin Shared /\ NoFile \notin OpenFiles BY Basics DEF Shared, OpenFiles
  <2>4. QED BY <1>0, <1>1, <1>4, <2>1, <2>2, <2>3 DEF WorkInv
<1>7. QED BY <1>0, <1>1, <1>3, <1>5, <1>6, ClockStays

LEMMA FirstFrameKeeps ==
    ASSUME TimelineInv, NEW f \in File, NEW ago \in 0..1, FirstFrame(f, ago)
    PROVE  Typed' /\ WorkInv' /\ ClockInv' /\ PastStays /\ SamePlaces(f)
<1>0. Typed /\ WorkInv /\ ClockInv /\ f \in OpenFiles /\ file[f] \in FileType /\ ago < now
  BY Basics DEF TimelineInv, FirstFrame
<1>1. now' = now /\ live' = live /\ ses' = ses /\ todo' = todo BY DEF FirstFrame
<1>2. file' \in [File -> FileType] /\ SamePlaces(f)
  <2> DEFINE n == [file[f] EXCEPT !.first = now - ago, !.place = live, !.slack = @ + ago,
                                  !.ran = 0, !.frames = 0]
  <2>1. file' = [file EXCEPT ![f] = n] BY <1>0, Basics DEF FirstFrame
  <2>2. now - ago \in Tick /\ file[f].slack \in Nat /\ ago \in Nat BY <1>0, Basics DEF Tick, FileType
  <2>3. file[f].slack + ago \in Nat BY <2>2
  <2>4. n \in FileType /\ n.phase = file[f].phase /\ n.kind = file[f].kind
        /\ n.offset = file[f].offset
    BY <1>0, <2>2, <2>3, Basics DEF FileType
  <2> HIDE DEF n
  <2>5. QED BY <2>1, <2>4, Basics DEF SamePlaces
<1>3. Typed' BY <1>0, <1>1, <1>2 DEF Typed
<1>4. WorkInv'
  <2>1. OpenFiles' = OpenFiles /\ Shared' = Shared BY <1>2 DEF SamePlaces, OpenFiles, Shared
  <2>2. \A g \in todo.starting : g \in File /\ g # f
    BY <1>0, Basics DEF WorkInv, OpenFiles, TodoType
  <2>3. \A g \in todo.starting : file'[g] = file[g] BY <1>2, <2>2 DEF SamePlaces
  <2>4. QED BY <1>0, <1>1, <2>1, <2>3 DEF WorkInv
<1>5. QED BY <1>0, <1>1, <1>2, <1>3, <1>4, ClockStays

LEMMA OutputDiesKeeps ==
    ASSUME TimelineInv, NEW f \in File, OutputDies(f)
    PROVE  Typed' /\ WorkInv' /\ ClockInv' /\ PastStays /\ SamePlaces(f)
<1>0. Typed /\ WorkInv /\ ClockInv /\ f \in OpenFiles /\ file[f] \in FileType
  BY Basics DEF TimelineInv, OutputDies
<1>1. now' = now /\ live' = live /\ ses' = ses /\ todo' = todo BY DEF OutputDies
<1>2. file' \in [File -> FileType] /\ SamePlaces(f)
  <2> DEFINE n == [file[f] EXCEPT !.out = "off", !.started = FALSE, !.failed = TRUE, !.stopNs = now]
  <2>1. file' = [file EXCEPT ![f] = n] BY <1>0, Basics DEF OutputDies
  <2>2. n \in FileType /\ n.phase = file[f].phase /\ n.kind = file[f].kind
        /\ n.offset = file[f].offset
    BY <1>0, Basics DEF FileType
  <2> HIDE DEF n
  <2>3. QED BY <2>1, <2>2, Basics DEF SamePlaces
<1>3. Typed' BY <1>0, <1>1, <1>2 DEF Typed
<1>4. WorkInv'
  <2>1. OpenFiles' = OpenFiles /\ Shared' = Shared BY <1>2 DEF SamePlaces, OpenFiles, Shared
  <2>2. \A g \in todo.starting : g \in File /\ g # f
    BY <1>0, Basics DEF WorkInv, OpenFiles, TodoType
  <2>3. \A g \in todo.starting : file'[g] = file[g] BY <1>2, <2>2 DEF SamePlaces
  <2>4. QED BY <1>0, <1>1, <2>1, <2>3 DEF WorkInv
<1>5. QED BY <1>0, <1>1, <1>2, <1>3, <1>4, ClockStays

LEMMA ClosingKeeps ==
    ASSUME TimelineInv, NEW f \in File, Leave(f) \/ CloseFile(f)
    PROVE  Typed' /\ WorkInv' /\ ClockInv' /\ PastStays
<1>0. /\ Typed /\ WorkInv /\ ClockInv /\ f \in OpenFiles /\ todo.pausing = {} /\ todo.held = NoFile
      /\ RecorderInv(f)
  BY DEF TimelineInv, Leave, CloseFile, WorkInv, Idle, NoWork, FileInv
<1>1. /\ now' = now /\ live' = live /\ ses' = ses /\ file' = [file EXCEPT ![f] = Closed(f)]
  BY DEF Leave, CloseFile
<1>2. Closed(f) \in FileType /\ Closed(f).phase = "closed" BY <1>0, ClosedIs
<1>3. /\ file' \in [File -> FileType] /\ file'[f].phase = "closed"
      /\ \A g \in File \ {f} : file'[g] = file[g]
  BY <1>1, <1>2, Basics
<1>4. /\ todo'.pausing = {} /\ todo'.held = NoFile /\ todo'.starting = todo.starting
      /\ todo'.closing = todo.closing \ {f} /\ todo'.ending = todo.ending /\ todo'.fresh = todo.fresh
      /\ todo' \in TodoType /\ (todo' = NoWork => todo = NoWork \/ ses.active)
  <2>1. CASE Leave(f) BY <1>0, <2>1, Basics DEF Leave, Idle, NoWork
  <2>2. CASE CloseFile(f)
    <3>1. todo # NoWork BY <2>2 DEF CloseFile, NoWork
    <3>2. QED BY <1>0, <2>2, <3>1, Basics DEF CloseFile, TodoType, WorkInv
  <2>3. QED BY <2>1, <2>2
<1>5. Typed' BY <1>0, <1>1, <1>3, <1>4 DEF Typed
<1>6. WorkInv'
  <2>1. OpenFiles' = OpenFiles \ {f} BY <1>3 DEF OpenFiles
  <2>2. ses.active BY <1>0 DEF WorkInv
  <2>3. \A g \in todo.starting : g \in File /\ g # f
    BY <1>0, Basics DEF WorkInv, OpenFiles, TodoType
  <2>4. \A g \in todo.starting : file'[g] = file[g] BY <1>3, <2>3
  <2>5. NoFile \notin Shared' BY Basics DEF Shared
  <2>6. QED BY <1>0, <1>1, <1>4, <2>1, <2>2, <2>4, <2>5 DEF WorkInv
<1>7. QED BY <1>0, <1>1, <1>5, <1>6, ClockStays

\* What a tick makes of a file.
Ticked(f, L) ==
    LET r == file[f]
        s == file'[f]
    IN  /\ s.phase = r.phase /\ s.kind = r.kind /\ s.out = r.out /\ s.started = r.started
        /\ s.failed = r.failed /\ s.startNs = r.startNs /\ s.offset = r.offset /\ s.first = r.first
        /\ s.stopNs = r.stopNs /\ s.paused = r.paused /\ s.pauseStart = r.pauseStart
        /\ s.pausedNs = r.pausedNs /\ s.listed = r.listed /\ s.place = r.place
        /\ s.refused = r.refused
        /\ s.ran = r.ran + IF Recording(f) THEN 1 ELSE 0
        /\ s.slack = r.slack + IF f \in todo.starting \cup todo.pausing \cup {todo.held} THEN 1 ELSE 0
        /\ ~Recording(f) => s.frames = r.frames

LEMMA AdvanceKeeps ==
    ASSUME TimelineInv, NEW L \in SUBSET File, Advance(L)
    PROVE  /\ Typed' /\ WorkInv' /\ ClockInv' /\ PastStays /\ now' = now + 1 /\ ses' = ses
           /\ todo' = todo /\ live' = (IF ses.paused THEN live ELSE live + 1)
           /\ \A f \in File : Ticked(f, L)
<1>0. /\ Typed /\ WorkInv /\ ClockInv /\ ses.epoch # 0 /\ ses.epoch <= now /\ LiveAt(now) = live
      /\ ses.paused \in BOOLEAN
  <2>1. Typed /\ WorkInv /\ ClockInv /\ (ses.active \/ ses.resumable) BY DEF TimelineInv, Advance
  <2>2. QED BY <2>1, Basics DEF ClockInv, LiveInv, SessionType
<1>1. /\ now' = now + 1 /\ now < MaxTime /\ ses' = ses /\ todo' = todo
      /\ live' = (IF ses.epoch # 0 /\ ~ses.paused THEN live + 1 ELSE live)
  BY DEF Advance
<1>2. live' \in Tick
  <2>1. PausedBefore(now) \in Nat BY <1>0, Basics, PausedBeforeNat
  <2>2. live <= now - 1 BY <1>0, <2>1, Basics DEF LiveAt
  <2>3. QED BY <1>1, <2>2, Basics DEF Tick
<1>3. file' = [f \in File |->
           [file[f] EXCEPT
               !.ran = IF Recording(f) THEN @ + 1 ELSE @,
               !.frames = IF Recording(f) THEN @ + Rate[file[f].kind] - (IF f \in L THEN 1 ELSE 0) ELSE @,
               !.slack = IF f \in todo.starting \cup todo.pausing \cup {todo.held} THEN @ + 1 ELSE @]]
  BY DEF Advance
<1>4. ASSUME NEW f \in File PROVE file'[f] \in FileType /\ Ticked(f, L)
  <2> DEFINE r == file[f]
             ra == IF Recording(f) THEN r.ran + 1 ELSE r.ran
             fr == IF Recording(f) THEN r.frames + Rate[file[f].kind] - (IF f \in L THEN 1 ELSE 0)
                   ELSE r.frames
             sl == IF f \in todo.starting \cup todo.pausing \cup {todo.held} THEN r.slack + 1 ELSE r.slack
             n == [r EXCEPT !.ran = ra, !.frames = fr, !.slack = sl]
  <2>1. file'[f] = n BY <1>3
  <2>2. r \in FileType /\ r.kind \in Kind BY Basics DEF FileType
  <2>3. Rate[r.kind] \in Nat /\ Rate[r.kind] >= 1 BY <2>2, TimelineAssumption
  <2>4. ra \in Nat /\ fr \in Nat /\ sl \in Nat BY <2>2, <2>3 DEF FileType
  <2>5. /\ ra = r.ran + IF Recording(f) THEN 1 ELSE 0
        /\ sl = r.slack + IF f \in todo.starting \cup todo.pausing \cup {todo.held} THEN 1 ELSE 0
        /\ ~Recording(f) => fr = r.frames
    BY <2>2 DEF FileType
  <2> HIDE DEF ra, fr, sl
  <2>6. n \in FileType BY <2>2, <2>4 DEF FileType
  <2>7. /\ n.phase = r.phase /\ n.kind = r.kind /\ n.out = r.out /\ n.started = r.started
        /\ n.failed = r.failed /\ n.startNs = r.startNs /\ n.offset = r.offset /\ n.first = r.first
        /\ n.stopNs = r.stopNs /\ n.paused = r.paused /\ n.pauseStart = r.pauseStart
        /\ n.pausedNs = r.pausedNs /\ n.listed = r.listed /\ n.place = r.place
        /\ n.refused = r.refused /\ n.ran = ra /\ n.frames = fr /\ n.slack = sl
    BY <2>2 DEF FileType
  <2> HIDE DEF n
  <2>8. QED BY <2>1, <2>5, <2>6, <2>7 DEF Ticked
<1>5. file' \in [File -> FileType] BY <1>3, <1>4
<1>6. Typed' BY <1>0, <1>1, <1>2, <1>5, Basics DEF Typed
<1>7. PausesInv' /\ LiveInv' /\ PastStays
  BY <1>0, <1>1, <1>6, TickKeepsClock DEF ClockInv
<1>8. ClockInv'
  <2>1. ses.active \/ ses.resumable BY DEF Advance
  <2>2. QED BY <1>0, <1>1, <1>7, <2>1 DEF ClockInv
<1>9. WorkInv'
  <2>1. OpenFiles' = OpenFiles /\ Shared' = Shared BY <1>4 DEF Ticked, OpenFiles, Shared
  <2>2. \A g \in todo.starting :
           /\ g \in File /\ file'[g].phase = file[g].phase
           /\ file'[g].slack = file[g].slack + 1
    BY <1>4, Basics DEF Ticked, TodoType
  <2>3. todo.starting # {} => live' = live + 1 BY <1>0, <1>1 DEF WorkInv
  <2>4. QED BY <1>0, <1>1, <2>1, <2>2, <2>3 DEF WorkInv
<1>10. QED BY <1>0, <1>1, <1>4, <1>6, <1>7, <1>8, <1>9

-----------------------------------------------------------------------------
(* The files, step by step.                                                  *)

LEMMA FileNumbers ==
    ASSUME NEW r \in FileType
    PROVE  /\ {r.startNs, r.offset, r.first, r.stopNs, r.pauseStart, r.pausedNs, r.frames, r.ran,
               r.slack, r.place, r.listed.offset, r.listed.duration} \subseteq Nat
           /\ {r.startNs, r.offset, r.first, r.stopNs, r.pauseStart, r.pausedNs} \subseteq Tick
           /\ {r.started, r.failed, r.paused, r.refused} \subseteq BOOLEAN
           /\ r.listed.offset \in Tick /\ r.listed.duration \in Tick
           /\ r.phase \in {"new", "open", "closed"} /\ r.kind \in Kind /\ r.out \in {"off", "on", "paused"}
<1>1. Tick \subseteq Nat BY TimelineAssumption DEF Tick
<1>2. QED BY <1>1 DEF FileType, ListedType

\* Offsets as functions of the pauses.
PlacedAt(o) == Larger(0, o - PausedIn(ses.pauses, ses.epoch + o))
OffsetsRight ==
    \A f \in File : /\ StartOffset(file[f]) \in Tick /\ OffsetFor(file[f]) \in Tick
                    /\ OffsetFor(file[f]) = PlacedAt(StartOffset(file[f]))

LEMMA OffsetsAre == Typed => OffsetsRight
<1> SUFFICES ASSUME Typed, NEW f \in File
             PROVE  /\ StartOffset(file[f]) \in Tick /\ OffsetFor(file[f]) \in Tick
                    /\ OffsetFor(file[f]) = PlacedAt(StartOffset(file[f]))
  BY DEF OffsetsRight
<1> DEFINE o == StartOffset(file[f])
<1>1. file[f] \in FileType BY DEF Typed
<1>2. o \in Tick /\ OffsetFor(file[f]) \in Tick
      /\ OffsetFor(file[f]) = Larger(0, o - PausedBefore(ses.epoch + o))
  BY <1>1, StartOffsetIs, OffsetForIs
<1> HIDE DEF o
<1>3. ses.epoch + o \in Nat BY <1>2, TimelineAssumption, SMTT(60) DEF Typed, SessionType, Tick
<1>4. PausedBefore(ses.epoch + o) = PausedIn(ses.pauses, ses.epoch + o) BY <1>3, PausedBeforeNat
<1>5. QED BY <1>2, <1>4 DEF o, PlacedAt

LEMMA OffsetsNow == ASSUME Typed, Typed' PROVE OffsetsRight /\ OffsetsRight'
<1>1. (Typed => OffsetsRight)' BY OffsetsAre, PTL
<1>2. QED BY <1>1, OffsetsAre

\* The pauses to come do not move a file that is placed.
LEMMA OffsetKept ==
    ASSUME Typed, Typed', PastStays, NEW f \in File, StartOffset(file[f]) + ses.epoch <= now,
           file'[f].kind = file[f].kind, file'[f].first = file[f].first, file'[f].offset = file[f].offset
    PROVE  StartOffset(file[f])' = StartOffset(file[f]) /\ OffsetFor(file[f])' = OffsetFor(file[f])
<1> DEFINE o == StartOffset(file[f])
           w == ses.epoch + o
<1>1. ses'.epoch = ses.epoch BY DEF PastStays
<1>2. StartOffset(file[f])' = o BY <1>1 DEF StartOffset
<1>3. o \in Tick BY OffsetsNow DEF OffsetsRight
<1>4. w \in 0..now /\ w \in Nat
  <2>1. ses.epoch \in Tick /\ now \in Nat BY TimelineAssumption DEF Typed, SessionType
  <2> HIDE DEF o
  <2>2. QED BY <1>3, <2>1, TimelineAssumption DEF o, Tick
<1> HIDE DEF w
<1>5. PausedIn(ses'.pauses, w) = PausedIn(ses.pauses, w)
  <2>1. \A s \in 0..now : s \in Nat BY TimelineAssumption DEF Typed
  <2>2. \A s \in 0..now : PausedIn(ses'.pauses, s) = PausedIn(ses.pauses, s)
    BY <2>1, PausedNow DEF PastStays
  <2>3. QED BY <1>4, <2>2
<1>6. OffsetFor(file[f]) = Larger(0, o - PausedIn(ses.pauses, w))
  BY OffsetsNow DEF OffsetsRight, PlacedAt, w
<1>7. OffsetFor(file[f])' = Larger(0, o - PausedIn(ses'.pauses, w))
  BY <1>1, <1>2, OffsetsNow DEF OffsetsRight, PlacedAt, w, Larger
<1>8. QED BY <1>2, <1>5, <1>6, <1>7

\* A file that is not open is left as it is.
AtRest(f) ==
    LET r == file[f]
        s == file'[f]
    IN  /\ r.phase # "open" /\ s.phase = r.phase /\ s.kind = r.kind /\ s.out = r.out
        /\ s.started = r.started /\ s.failed = r.failed /\ s.first = r.first
        /\ s.listed = r.listed /\ s.refused = r.refused /\ s.place = r.place /\ s.frames = r.frames
        /\ r.phase = "closed" => s.ran = r.ran /\ s.slack = r.slack

LEMMA RestKeeps ==
    ASSUME Typed, Typed', NEW f \in File, FileInv(f), AtRest(f), live <= live' PROVE FileInv(f)'
<1>0. file[f] \in FileType /\ file'[f] \in FileType /\ live \in Nat /\ live' \in Nat
  BY TimelineAssumption DEF Typed, Tick
<1>1. RecorderInv(f)' BY DEF FileInv, RecorderInv, AtRest
<1>2. PlaceInv(f)' BY <1>0, FileNumbers DEF FileInv, PlaceInv, AtRest, Near, OffsetOf
<1>3. VerdictInv(f)' BY DEF FileInv, VerdictInv, AtRest
<1>4. LengthInv(f)'
  <2>1. CASE file[f].phase = "new" BY <2>1 DEF LengthInv, AtRest
  <2>2. CASE file[f].phase = "closed"
    <3>1. Sound(f, file[f].listed.duration) BY <2>2 DEF FileInv, LengthInv
    <3>2. Sound(f, file[f].listed.duration)'
      BY <1>0, <2>2, <3>1, FileNumbers DEF Sound, AtRest, OffsetOf, Near
    <3>3. QED BY <2>2, <3>2 DEF LengthInv, AtRest
  <2>3. QED BY <1>0, <2>1, <2>2, FileNumbers DEF AtRest
<1>5. QED BY <1>1, <1>2, <1>3, <1>4 DEF FileInv

\* An open file that a step leaves alone, while its recorder hears of every pause.
Untouched(f) ==
    /\ file'[f] = file[f] /\ now' = now /\ live' = live /\ PastStays
    /\ todo'.held = f <=> todo.held = f
    /\ todo.held = f => ses'.paused = ses.paused
    /\ ses'.paused /\ file[f].phase = "open" /\ file[f].kind # "shared"
          /\ file[f].started /\ ~file[f].paused =>
          f \in todo'.pausing \/ (ses.paused /\ f \notin todo.pausing)

LEMMA UntouchedKeeps ==
    ASSUME Typed, Typed', NEW f \in File, FileInv(f), Untouched(f) PROVE FileInv(f)'
<1>0. file[f] \in FileType /\ live \in Nat BY TimelineAssumption DEF Typed, Tick
<1>1. CASE file[f].phase # "open"
  <2>1. AtRest(f) BY <1>1 DEF AtRest, Untouched
  <2>2. live <= live' BY <1>0 DEF Untouched
  <2>3. QED BY <2>1, <2>2, RestKeeps
<1>2. CASE file[f].phase = "open"
  <2>1. StartOffset(file[f])' = StartOffset(file[f]) /\ OffsetFor(file[f])' = OffsetFor(file[f])
    <3>1. StartOffset(file[f]) + ses.epoch <= now BY <1>2 DEF FileInv, RecorderInv
    <3>2. QED BY <3>1, OffsetKept DEF Untouched
  <2>2. RecorderInv(f)'
    <3>1. RecorderInv(f) /\ file'[f] = file[f] /\ now' = now /\ ses'.epoch = ses.epoch
      BY DEF FileInv, Untouched, PastStays
    <3>2. QED BY <1>2, <2>1, <3>1 DEF RecorderInv, EndsAt, Untouched
  <2>3. OffsetOf(f)' = OffsetOf(f) BY <1>2, <2>1 DEF OffsetOf, Untouched
  <2>4. PlaceInv(f)' BY <2>3 DEF FileInv, PlaceInv, Untouched
  <2>5. Duration(file[f])' = Duration(file[f]) BY DEF Duration, Untouched
  <2>6. LengthInv(f)'
    <3>1. file'[f] = file[f] /\ now' = now /\ live' = live /\ (todo'.held = f <=> todo.held = f)
      BY DEF Untouched
    <3>2. Length(file[f], now)' = Length(file[f], now)
      BY <3>1 DEF Length, EndsAt, BeganAt, InPause
    <3>3. Sound(f, Duration(file[f])) => Sound(f, Duration(file[f]))'
      BY <2>3, <2>5, <3>1 DEF Sound
    <3>4. LengthInv(f) BY DEF FileInv
    <3>5. QED BY <1>2, <2>3, <3>1, <3>2, <3>3, <3>4 DEF LengthInv
  <2>7. VerdictInv(f)' BY <1>2 DEF FileInv, VerdictInv, Untouched
  <2>8. QED BY <2>2, <2>4, <2>6, <2>7 DEF FileInv
<1>3. QED BY <1>1, <1>2

LEMMA NewKeeps == ASSUME NEW f \in File, file'[f] = NewFile PROVE FileInv(f)'
<1>1. NewFile.phase = "new" /\ NewFile.out = "off" /\ NewFile.started = FALSE /\ NewFile.kind = "own"
      /\ NewFile.listed.status = "none"
  BY DEF NewFile
<1>2. QED BY <1>1 DEF FileInv, RecorderInv, PlaceInv, LengthInv, VerdictInv

LEMMA StartFiles ==
    ASSUME TimelineInv, NEW S \in SUBSET File, Start(S), NEW g \in File PROVE FileInv(g)'
<1>1. Typed /\ Typed' /\ FileInv(g) BY StartKeeps DEF TimelineInv
<1>2. file'[g] = IF ses.resumable /\ g \notin S THEN file[g] ELSE NewFile BY DEF Start
<1>3. CASE ses.resumable /\ g \notin S
  <2>1. live' = live /\ ses.active = FALSE BY <1>3, Basics DEF Start, SessionType
  <2>2. file[g].phase # "open" BY <2>1 DEF TimelineInv, WorkInv, OpenFiles
  <2>3. AtRest(g) BY <1>2, <1>3, <2>2 DEF AtRest
  <2>4. live <= live' BY <2>1, Basics
  <2>5. QED BY <1>1, <2>3, <2>4, RestKeeps
<1>4. CASE ~(ses.resumable /\ g \notin S)
  <2>1. file'[g] = NewFile BY <1>2, <1>4
  <2>2. QED BY <2>1, NewKeeps
<1>5. QED BY <1>3, <1>4

\* A file that begins is placed where the session's clock stands.
LEMMA OpenedFile ==
    ASSUME TimelineInv, Typed', PastStays, NEW f \in File, NEW kind \in Kind, NEW fresh \in BOOLEAN,
           Opened(f, kind, fresh), ses.active, todo'.held = NoFile,
           fresh => f \in todo.starting /\ file[f].slack = live,
           ses.paused /\ kind # "shared" => f \in todo'.pausing
    PROVE  FileInv(f)'
<1> DEFINE r == file'[f]
<1>0. /\ now \in Nat /\ now > 0 /\ live \in Nat /\ ses.epoch \in Nat /\ ses.epoch # 0 /\ ses.epoch <= now
      /\ Typed /\ f # NoFile /\ now' = now /\ live' = live /\ ses' = ses
  BY Basics DEF TimelineInv, Opened
<1>1. /\ r.phase = "open" /\ r.kind = kind /\ r.out = "on" /\ r.started = TRUE
      /\ r.failed = FALSE /\ r.startNs = now /\ r.place = live /\ r.first = 0 /\ r.stopNs = 0
      /\ r.paused = FALSE /\ r.pausedNs = 0 /\ r.frames = 0 /\ r.ran = 0 /\ r.refused = FALSE
      /\ r.offset = IF fresh THEN 0 ELSE now - ses.epoch
      /\ r.slack = IF f \in todo.starting THEN file[f].slack ELSE 0
      /\ r.listed.status = "none"
  BY <1>0, OpenedIs, ZenonT(60)
<1>2. r \in FileType /\ r.slack \in Nat
  <2>1. r \in FileType BY DEF Typed
  <2>2. QED BY <2>1 DEF FileType
<1>3. fresh => r.slack = live BY <1>1
<1>4. StartOffset(file[f])' = r.offset /\ r.offset \in Nat BY <1>0, <1>1 DEF StartOffset
<1>5. r.offset + ses.epoch <= now BY <1>0, <1>1
<1>6. OffsetFor(file[f])' = Larger(0, r.offset - PausedIn(ses.pauses, ses.epoch + r.offset))
  BY <1>0, <1>4, OffsetsNow DEF OffsetsRight, PlacedAt, Larger
<1>7. PausedIn(ses.pauses, ses.epoch + r.offset) \in Nat /\ PausedIn(ses.pauses, now) \in Nat
  <2>1. ses.epoch + r.offset \in Nat BY <1>0, <1>4
  <2>2. QED BY <1>0, <2>1, PausedNow
<1>8. now - ses.epoch - PausedIn(ses.pauses, now) = live
  <2>1. LiveAt(now) = live BY <1>0 DEF TimelineInv, ClockInv, LiveInv
  <2>2. QED BY <1>0, <2>1, PausedNow DEF LiveAt
<1>9. Near(OffsetFor(file[f])', r.place, r.slack) /\ OffsetFor(file[f])' <= live + r.slack
  <2>1. CASE fresh
    <3>1. r.offset = 0 BY <1>1, <2>1
    <3>2. OffsetFor(file[f])' = 0 BY <1>6, <1>7, <3>1 DEF Larger
    <3>3. QED BY <1>0, <1>1, <1>2, <1>3, <2>1, <3>2 DEF Near
  <2>2. CASE ~fresh
    <3>1. r.offset = now - ses.epoch /\ ses.epoch + r.offset = now BY <1>0, <1>1, <2>2
    <3>2. OffsetFor(file[f])' = live BY <1>0, <1>6, <1>7, <1>8, <3>1 DEF Larger
    <3>3. QED BY <1>0, <1>1, <1>2, <3>2 DEF Near
  <2>3. QED BY <2>1, <2>2
<1>10. RecorderInv(f)'
  BY <1>0, <1>1, <1>4, <1>5 DEF RecorderInv, EndsAt
<1>11. PlaceInv(f)' BY <1>1, <1>9 DEF PlaceInv, OffsetOf
<1>12. LengthInv(f)'
  <2>1. Length(file[f], now)' = 0 BY <1>0, <1>1 DEF Length, EndsAt, BeganAt, InPause
  <2>2. Near(0, r.ran, r.slack) BY <1>1, <1>2 DEF Near
  <2>3. OffsetFor(file[f])' \in Nat
    <3>1. OffsetFor(file[f])' \in Tick BY <1>0, OffsetsNow DEF OffsetsRight
    <3>2. QED BY <3>1, Basics
  <2>4. QED BY <1>0, <1>1, <1>2, <1>9, <2>1, <2>2, <2>3 DEF LengthInv, OffsetOf, Near
<1>13. VerdictInv(f)' BY <1>1 DEF VerdictInv
<1>14. QED BY <1>10, <1>11, <1>12, <1>13 DEF FileInv

LEMMA StartFileFiles ==
    ASSUME TimelineInv, NEW f \in File, NEW kind \in Kind, StartFile(f, kind), NEW g \in File
    PROVE  FileInv(g)'
<1>0. Typed /\ Typed' /\ PastStays /\ FileInv(g) BY StartFileKeeps DEF TimelineInv
<1>1. /\ Opened(f, kind, todo.fresh) /\ f \in todo.starting /\ todo # NoWork
      /\ todo' = IF todo.starting = {f} THEN NoWork ELSE [todo EXCEPT !.starting = @ \ {f}]
  BY DEF StartFile, NoWork
<1>2. /\ ses.active /\ todo.pausing = {} /\ todo.held = NoFile /\ ses.paused = FALSE
      /\ todo.fresh \in BOOLEAN /\ (todo.fresh => file[f].slack = live)
  BY <1>1, Basics DEF TimelineInv, WorkInv, TodoType, SessionType
<1>3. todo'.held = NoFile
  <2>1. CASE todo.starting = {f} BY <1>1, <2>1 DEF NoWork
  <2>2. CASE todo.starting # {f} BY <1>1, <1>2, <2>2, Basics DEF TodoType
  <2>3. QED BY <2>1, <2>2
<1>4. CASE g = f
  <2>1. FileInv(f)' BY <1>0, <1>1, <1>2, <1>3, OpenedFile
  <2>2. QED BY <1>4, <2>1
<1>5. CASE g # f
  <2>1. file'[g] = file[g] /\ now' = now /\ live' = live /\ ses' = ses
    BY <1>1, <1>5, Basics DEF Opened
  <2>2. Untouched(g) BY <1>0, <1>2, <1>3, <2>1 DEF Untouched
  <2>3. QED BY <1>0, <2>2, UntouchedKeeps
<1>6. QED BY <1>4, <1>5

LEMMA JoinFileFiles ==
    ASSUME TimelineInv, NEW f \in File, NEW kind \in Kind, JoinFile(f, kind), NEW g \in File
    PROVE  FileInv(g)'
<1>0. Typed /\ Typed' /\ PastStays /\ FileInv(g) BY JoinFileKeeps DEF TimelineInv
<1>1. /\ Opened(f, kind, FALSE) /\ ses.active /\ todo = NoWork
      /\ todo' = IF ses.paused /\ kind # "shared" THEN [todo EXCEPT !.pausing = {f}] ELSE todo
  BY DEF JoinFile, Idle
<1>2. /\ todo'.held = NoFile /\ todo.held = NoFile /\ todo.pausing = {}
      /\ (ses.paused /\ kind # "shared" => f \in todo'.pausing)
  BY <1>1 DEF NoWork
<1>3. CASE g = f
  <2>1. FileInv(f)' BY <1>0, <1>1, <1>2, OpenedFile
  <2>2. QED BY <1>3, <2>1
<1>4. CASE g # f
  <2>1. file'[g] = file[g] /\ now' = now /\ live' = live /\ ses' = ses
    BY <1>1, <1>4, Basics DEF Opened
  <2>2. Untouched(g) BY <1>0, <1>2, <2>1 DEF Untouched
  <2>3. QED BY <1>0, <2>2, UntouchedKeeps
<1>5. QED BY <1>3, <1>4

LEMMA SessionStepFiles ==
    ASSUME TimelineInv, NEW g \in File,
           PauseSession \/ (\E resumable \in BOOLEAN : Stop(resumable)) \/ EndSession
    PROVE  FileInv(g)'
<1>0. Typed /\ Typed' /\ PastStays /\ FileInv(g) /\ WorkInv
  BY PauseSessionKeeps, StopKeeps, EndSessionKeeps DEF TimelineInv
<1>1. CASE PauseSession
  <2>1. file' = file /\ now' = now /\ live' = live /\ todo = NoWork
        /\ todo' = [todo EXCEPT !.pausing = OpenFiles \ Shared]
    BY <1>1 DEF PauseSession, Idle
  <2>2. todo'.held = NoFile /\ todo.held = NoFile /\ todo'.pausing = OpenFiles \ Shared
    BY <2>1 DEF NoWork
  <2>3. g # NoFile BY Basics
  <2>4. Untouched(g) BY <1>0, <2>1, <2>2, <2>3 DEF Untouched, OpenFiles, Shared
  <2>5. QED BY <1>0, <2>4, UntouchedKeeps
<1>2. CASE \E resumable \in BOOLEAN : Stop(resumable)
  <2>0. PICK resumable \in BOOLEAN : Stop(resumable) BY <1>2
  <2>1. file' = file /\ now' = now /\ live' = live /\ todo = NoWork /\ todo'.held = todo.held
    BY <2>0 DEF Stop, Idle, NoWork
  <2>2. ses'.paused = FALSE /\ todo.held = NoFile
    BY <2>0, <2>1, Basics DEF Stop, SessionType, NoWork
  <2>3. g # NoFile BY Basics
  <2>4. Untouched(g) BY <1>0, <2>1, <2>2, <2>3 DEF Untouched
  <2>5. QED BY <1>0, <2>4, UntouchedKeeps
<1>3. CASE EndSession
  <2>1. file' = file /\ now' = now /\ live' = live /\ todo.held = NoFile /\ todo' = NoWork
        /\ todo.ending
    BY <1>3 DEF EndSession
  <2>2. ses'.paused = FALSE /\ todo'.held = NoFile
    BY <1>0, <1>3, <2>1, Basics DEF EndSession, SessionType, NoWork, WorkInv
  <2>3. g # NoFile BY Basics
  <2>4. Untouched(g) BY <1>0, <2>1, <2>2, <2>3 DEF Untouched
  <2>5. QED BY <1>0, <2>4, UntouchedKeeps
<1>4. QED BY <1>1, <1>2, <1>3

\* What a file's record would say of its clock stays.
SameTimes(f) ==
    LET r == file[f]
        s == file'[f]
    IN  /\ s.phase = r.phase /\ s.kind = r.kind /\ s.started = r.started /\ s.failed = r.failed
        /\ s.startNs = r.startNs /\ s.offset = r.offset /\ s.first = r.first /\ s.stopNs = r.stopNs
        /\ s.paused = r.paused /\ s.pauseStart = r.pauseStart /\ s.pausedNs = r.pausedNs
        /\ s.ran = r.ran /\ s.slack = r.slack /\ s.place = r.place /\ (r.refused => s.refused)
        /\ s.listed = r.listed

LEMMA SameTimesKeep ==
    ASSUME Typed, Typed', NEW f \in File, FileInv(f), SameTimes(f), file[f].phase = "open",
           PastStays, now' = now, live' = live, file[f].failed => (todo'.held = f <=> todo.held = f)
    PROVE  /\ PlaceInv(f)' /\ LengthInv(f)' /\ VerdictInv(f)'
           /\ StartOffset(file[f])' = StartOffset(file[f])
<1>1. StartOffset(file[f])' = StartOffset(file[f]) /\ OffsetFor(file[f])' = OffsetFor(file[f])
  <2>1. StartOffset(file[f]) + ses.epoch <= now BY DEF FileInv, RecorderInv
  <2>2. QED BY <2>1, OffsetKept DEF SameTimes
<1>2. OffsetOf(f)' = OffsetOf(f) BY <1>1 DEF OffsetOf, SameTimes
<1>3. PlaceInv(f)' BY <1>2 DEF FileInv, PlaceInv, SameTimes
<1>4. Duration(file[f])' = Duration(file[f]) BY DEF Duration, SameTimes
<1>5. Length(file[f], now)' = Length(file[f], now)
  BY DEF Length, EndsAt, BeganAt, InPause, SameTimes
<1>6. LengthInv(f)'
  <2>1. Sound(f, Duration(file[f])) => Sound(f, Duration(file[f]))'
    BY <1>2, <1>4 DEF Sound, SameTimes
  <2>2. LengthInv(f) BY DEF FileInv
  <2>3. file[f].failed \in BOOLEAN BY FileNumbers DEF Typed
  <2>4. QED BY <1>2, <1>5, <2>1, <2>2, <2>3 DEF LengthInv, SameTimes
<1>7. VerdictInv(f)' BY DEF FileInv, VerdictInv, SameTimes
<1>8. QED BY <1>1, <1>3, <1>6, <1>7

LEMMA PauseOutputFiles ==
    ASSUME TimelineInv, NEW f \in File, NEW ok \in BOOLEAN, PauseOutput(f, ok), NEW g \in File
    PROVE  FileInv(g)'
<1> DEFINE r == file[f]
           s == file'[f]
           concerned == r.started /\ r.paused # ses.paused
<1>0. /\ Typed /\ Typed' /\ PastStays /\ FileInv(g) /\ FileInv(f) /\ SamePlaces(f) /\ WorkInv
      /\ r \in FileType /\ s \in FileType /\ f # NoFile /\ g # NoFile
  BY PauseOutputKeeps, Basics DEF TimelineInv, Typed
<1>1. /\ now' = now /\ live' = live /\ ses' = ses /\ todo.held = NoFile /\ f \in todo.pausing
      /\ todo' = [todo EXCEPT !.pausing = @ \ {f}, !.held = IF concerned /\ ok THEN f ELSE NoFile]
      /\ (ok \/ concerned)
  BY DEF PauseOutput
<1>2. todo'.pausing = todo.pausing \ {f} /\ todo'.held = IF concerned /\ ok THEN f ELSE NoFile
  BY <1>1, Basics DEF TodoType
<1>3. CASE g # f
  <2>1. file'[g] = file[g] BY <1>0, <1>3 DEF SamePlaces
  <2>2. Untouched(g) BY <1>0, <1>1, <1>2, <1>3, <2>1 DEF Untouched
  <2>3. QED BY <1>0, <2>2, UntouchedKeeps
<1>4. CASE g = f
  <2>0. r.started \in BOOLEAN /\ r.paused \in BOOLEAN /\ ses.paused \in BOOLEAN /\ r.refused \in BOOLEAN
    BY <1>0, Basics DEF FileType, SessionType
  <2>1. f \in OpenFiles /\ r.phase = "open" /\ r.kind # "shared"
    <3>1. f \in OpenFiles /\ f \notin Shared BY <1>0, <1>1 DEF WorkInv
    <3>2. QED BY <3>1 DEF OpenFiles, Shared
  <2>2. CASE ~concerned
    <3>1. file' = file BY <2>2 DEF PauseOutput
    <3>2. todo'.held = NoFile BY <1>2, <2>2
    <3>3. Untouched(f) BY <1>0, <1>1, <1>2, <2>0, <2>2, <3>1, <3>2 DEF Untouched
    <3>4. FileInv(f)' BY <1>0, <3>3, UntouchedKeeps
    <3>5. QED BY <1>4, <3>4
  <2>3. CASE concerned
    <3>1. RecorderInv(f) /\ ~r.failed /\ r.started /\ r.stopNs = 0
      BY <1>0, <2>1, <2>3 DEF FileInv, RecorderInv
    <3>2. /\ SameTimes(f)
          /\ s.out = (IF ok THEN IF ses.paused THEN "paused" ELSE "on" ELSE r.out)
          /\ (~ok => s.refused)
      <4>1. CASE ok
        <5>1. file' = [file EXCEPT ![f].out = IF ses.paused THEN "paused" ELSE "on"]
          BY <2>3, <4>1 DEF PauseOutput
        <5>2. s = [r EXCEPT !.out = IF ses.paused THEN "paused" ELSE "on"] BY <5>1, Basics
        <5>3. QED BY <1>0, <4>1, <5>2 DEF SameTimes, FileType
      <4>2. CASE ~ok
        <5>1. file' = [file EXCEPT ![f].refused = TRUE]
          BY <2>3, <4>2 DEF PauseOutput
        <5>2. s = [r EXCEPT !.refused = TRUE] BY <5>1, Basics
        <5>3. QED BY <1>0, <4>2, <5>2 DEF SameTimes, FileType
      <4>3. QED BY <4>1, <4>2
    <3>3. /\ PlaceInv(f)' /\ LengthInv(f)' /\ VerdictInv(f)'
          /\ StartOffset(file[f])' = StartOffset(file[f])
      BY <1>0, <1>1, <2>1, <3>1, <3>2, SameTimesKeep
    <3>4. RecorderInv(f)'
      <4>1. CASE ok
        <5>1. todo'.held = f BY <1>2, <2>3, <4>1
        <5>2. QED BY <1>0, <1>1, <2>0, <2>1, <2>3, <3>1, <3>2, <3>3, <4>1, <5>1
              DEF RecorderInv, SameTimes, EndsAt
      <4>2. CASE ~ok
        <5>1. todo'.held = NoFile BY <1>2, <4>2
        <5>2. QED BY <1>0, <1>1, <2>0, <2>1, <2>3, <3>1, <3>2, <3>3, <4>2, <5>1
              DEF RecorderInv, SameTimes, EndsAt
      <4>3. QED BY <4>1, <4>2
    <3>5. QED BY <1>4, <3>3, <3>4 DEF FileInv
  <2>4. QED BY <2>2, <2>3
<1>5. QED BY <1>3, <1>4

\* The reading of the clock after an output has paused or gone on, of an output
\* that may have died since.
LEMMA ReadClockFile ==
    ASSUME TimelineInv, ReadClock, NEW f \in File, todo.held = f PROVE FileInv(f)'
<1> DEFINE r == file[f]
           s == file'[f]
           z == IF ses.paused THEN r.pausedNs ELSE (r.pausedNs + Minus(now, r.pauseStart)) % 2^Width
           late == IF r.failed THEN now - r.stopNs ELSE 0
           v == Length(r, now)
<1>0. /\ Typed /\ Typed' /\ PastStays /\ FileInv(f) /\ f # NoFile
      /\ r \in FileType /\ s \in FileType /\ r.phase = "open" /\ r.kind # "shared"
  <2>1. Typed /\ Typed' /\ PastStays /\ FileInv(f) /\ WorkInv
    BY ReadClockKeeps DEF TimelineInv
  <2>2. f \in OpenFiles /\ f \notin Shared BY <2>1, Basics DEF WorkInv
  <2>3. r.phase = "open" /\ r.kind # "shared" BY <2>2 DEF OpenFiles, Shared
  <2>4. QED BY <2>1, <2>3, Basics DEF Typed
<1>1. now' = now /\ live' = live /\ ses' = ses /\ todo'.held = NoFile
  BY Basics DEF ReadClock, TodoType
<1>2. /\ s.paused = ses.paused /\ s.pauseStart = (IF ses.paused THEN now ELSE r.pauseStart)
      /\ s.pausedNs = z /\ s.phase = r.phase /\ s.kind = r.kind /\ s.out = r.out
      /\ s.started = r.started /\ s.failed = r.failed /\ s.startNs = r.startNs
      /\ s.offset = r.offset /\ s.first = r.first /\ s.stopNs = r.stopNs /\ s.ran = r.ran
      /\ s.slack = r.slack /\ s.place = r.place /\ s.refused = r.refused
      /\ s.listed = r.listed
  <2>1. s = [r EXCEPT !.paused = ses.paused, !.pauseStart = IF ses.paused THEN now ELSE @,
                      !.pausedNs = z]
    BY <1>0, Basics DEF ReadClock
  <2> HIDE DEF z
  <2>2. QED BY <1>0, <2>1 DEF FileType
<1>3. /\ {r.started, r.failed, r.paused, r.refused, ses.paused} \subseteq BOOLEAN
      /\ {r.startNs, r.pauseStart, r.pausedNs, r.stopNs, r.ran, r.slack, now, live} \subseteq Nat
      /\ {r.startNs, r.pauseStart, r.pausedNs, r.stopNs, now} \subseteq Tick
  BY <1>0, Basics, FileNumbers DEF SessionType
<1>4. RecorderInv(f) BY <1>0 DEF FileInv
<1>5. /\ r.paused <=> ~ses.paused
      /\ r.startNs >= 1 /\ r.startNs <= now /\ r.startNs + r.pausedNs <= now
      /\ r.started => (r.paused <=> r.out = "on")
      /\ r.paused => r.pauseStart <= now
      /\ r.startNs + r.pausedNs <= IF r.paused THEN r.pauseStart ELSE EndsAt(r, now)
      /\ r.failed => r.stopNs >= r.startNs /\ r.stopNs <= now
                     /\ (r.paused => r.pauseStart <= r.stopNs)
      /\ ~r.failed => r.started /\ r.stopNs = 0
      /\ r.started => ~r.failed /\ r.stopNs = 0 /\ r.out # "off"
      /\ r.first = 0
  BY <1>0, <1>3, <1>4 DEF RecorderInv
<1>6. z = IF ses.paused THEN r.pausedNs ELSE r.pausedNs + (now - r.pauseStart)
  <2>1. CASE ses.paused BY <2>1
  <2>2. CASE ~ses.paused
    <3>1. r.pauseStart <= now /\ r.startNs + r.pausedNs <= r.pauseStart BY <1>3, <1>5, <2>2
    <3>2. Minus(now, r.pauseStart) = now - r.pauseStart BY <1>3, <3>1, MinusIs
    <3>3. r.pausedNs + (now - r.pauseStart) \in Tick BY <1>3, <3>1, Basics DEF Tick
    <3>4. QED BY <2>2, <3>2, <3>3, Modulo
  <2>3. QED BY <2>1, <2>2
<1> HIDE DEF z
<1>7. StartOffset(file[f])' = StartOffset(file[f]) /\ OffsetFor(file[f])' = OffsetFor(file[f])
  <2>1. StartOffset(file[f]) + ses.epoch <= now BY <1>0, <1>4 DEF RecorderInv
  <2>2. QED BY <1>0, <1>2, <2>1, OffsetKept
<1>8. OffsetOf(f)' = OffsetOf(f) BY <1>0, <1>2, <1>7 DEF OffsetOf
<1>9. PlaceInv(f)' BY <1>0, <1>2, <1>8 DEF FileInv, PlaceInv
<1>10. VerdictInv(f)' BY <1>0, <1>2 DEF FileInv, VerdictInv
<1>11. RecorderInv(f)'
  <2>1. StartOffset(file[f])' + ses'.epoch <= now' /\ s.first = 0 BY <1>0, <1>1, <1>2, <1>4, <1>5, <1>7 DEF RecorderInv
  <2>2. s.startNs + s.pausedNs <= now BY <1>2, <1>3, <1>5, <1>6
  <2>3. r.started => s.startNs + s.pausedNs <= IF s.paused THEN s.pauseStart ELSE now
    BY <1>2, <1>3, <1>5, <1>6
  <2>4. s.paused => s.pauseStart <= now BY <1>2, <1>3, <1>5
  <2>5. r.started => (s.paused <=> s.out = "paused")
    <3>1. r.out \in {"off", "on", "paused"} BY <1>0, FileNumbers
    <3>2. QED BY <1>2, <1>3, <1>5, <3>1
  <2>6. ~r.started => s.failed /\ s.out = "off" /\ s.stopNs \in s.startNs..now /\ s.first <= s.stopNs
    BY <1>0, <1>2, <1>4 DEF RecorderInv
  <2>7. QED BY <1>0, <1>1, <1>2, <1>3, <1>5, <2>1, <2>2, <2>3, <2>4, <2>5, <2>6 DEF RecorderInv, EndsAt
<1>12. /\ Near(v, r.ran, r.slack - late)
       /\ ~r.refused => OffsetOf(f) + v + late <= live + r.slack
  BY <1>0 DEF FileInv, LengthInv
<1>13. OffsetOf(f) \in Nat
  <2>1. OffsetFor(file[f]) \in Tick BY <1>0, OffsetsNow DEF OffsetsRight
  <2>2. QED BY <1>0, <2>1, Basics DEF OffsetOf
<1>14. LengthInv(f)'
  <2>1. CASE ~r.failed
    <3>1. Length(file[f], now)' = v
      <4>1. Length(file[f], now)' = now - s.startNs - s.pausedNs - (IF s.paused THEN now - s.pauseStart ELSE 0)
        BY <1>0, <1>1, <1>2, <1>5, <2>1 DEF Length, EndsAt, BeganAt, InPause
      <4>2. v = now - r.startNs - r.pausedNs - (IF r.paused THEN now - r.pauseStart ELSE 0)
        BY <1>0, <1>5, <2>1 DEF Length, EndsAt, BeganAt, InPause
      <4> HIDE DEF v
      <4>3. QED BY <1>2, <1>3, <1>5, <1>6, <4>1, <4>2
    <3>2. QED BY <1>0, <1>1, <1>2, <1>8, <1>12, <2>1, <3>1 DEF LengthInv
  <2>2. CASE r.failed
    <3> DEFINE a == r.startNs
               e == r.stopNs
               y == (s.pausedNs + IF s.paused THEN Minus(e, s.pauseStart) ELSE 0) % 2^Width
               w == 2^Width
    <3>1. Duration(file[f])' = IF a = 0 \/ e <= a \/ y >= e - a THEN 0 ELSE e - a - y
      <4>1. s.stopNs # 0 /\ s.kind # "shared" /\ s.stopNs = e /\ s.startNs = a
        BY <1>0, <1>2, <1>3, <1>5, <2>2
      <4>2. QED BY <4>1 DEF Duration
    <3>2. v = e - a - r.pausedNs - (IF r.paused THEN e - r.pauseStart ELSE 0) /\ late = now - e
      BY <1>0, <1>3, <1>5, <2>2 DEF Length, EndsAt, BeganAt, InPause
    <3>3. w \in Nat /\ now < w BY <1>3, TimelineAssumption DEF Tick
    <3>4. EndsAt(r, now) = e BY <1>3, <1>5, <2>2 DEF EndsAt
    <3>5. CASE ses.paused
      <4>1. y = IF r.pausedNs >= now - e THEN r.pausedNs - (now - e) ELSE w + r.pausedNs - (now - e)
        <5>1. y = (r.pausedNs + Minus(e, now)) % 2^Width BY <1>2, <1>6, <3>5
        <5>2. CASE e < now BY <1>3, <5>1, <5>2, MinusWraps
        <5>3. CASE e = now
          <6>1. Minus(e, now) = 0 BY <1>3, <5>3, MinusIs
          <6>2. (r.pausedNs + 0) % 2^Width = r.pausedNs
            <7>1. r.pausedNs + 0 = r.pausedNs BY <1>3
            <7>2. QED BY <1>3, <7>1, Modulo
          <6>3. QED BY <1>3, <5>1, <5>3, <6>1, <6>2
        <5>4. QED BY <1>3, <1>5, <2>2, <5>2, <5>3
      <4> HIDE DEF y, w, v, late
      <4>2. v = e - a - r.pausedNs /\ v >= 0 BY <1>3, <1>5, <3>2, <3>4, <3>5
      <4>3. Duration(file[f])' = IF r.pausedNs >= now - e THEN v + late ELSE 0
        BY <1>3, <1>5, <2>2, <3>1, <3>2, <3>3, <4>1, <4>2
      <4>4. r.slack > 0 \/ r.pausedNs >= now - e
        BY <1>3, <1>5, <1>12, <2>2, <3>2, <4>2 DEF Near
      <4>5. Sound(f, Duration(file[f]))'
        <5>1. late \in Nat BY <1>3, <1>5, <2>2, <3>2
        <5>2. Near(v + late, r.ran, r.slack)
          BY <1>3, <1>12, <4>2, <5>1 DEF Near
        <5>3. ~r.refused => OffsetOf(f) + (v + late) <= live + r.slack /\ OffsetOf(f) + 0 <= live + r.slack
          BY <1>3, <1>12, <1>13, <4>2, <5>1
        <5>4. QED BY <1>0, <1>1, <1>2, <1>8, <2>2, <4>3, <4>4, <5>2, <5>3 DEF Sound
      <4>6. QED BY <1>0, <1>1, <1>2, <2>2, <4>5 DEF LengthInv
    <3>6. CASE ~ses.paused
      <4>1. y = s.pausedNs
        <5>1. s.pausedNs \in Tick /\ s.pausedNs + 0 = s.pausedNs BY <1>0, FileNumbers
        <5>2. y = (s.pausedNs + 0) % 2^Width BY <1>2, <3>6
        <5>3. QED BY <5>1, <5>2, Modulo
      <4> HIDE DEF y, w, v, late
      <4>2. v = r.pauseStart - a - r.pausedNs /\ v >= 0 BY <1>3, <1>5, <2>2, <3>2, <3>6
      <4>3. y = r.pausedNs + (now - r.pauseStart) BY <1>2, <1>6, <3>6, <4>1
      <4>4. Duration(file[f])' = IF late <= v THEN v - late ELSE 0
        BY <1>3, <1>5, <2>2, <3>1, <3>2, <3>6, <4>2, <4>3, SMTT(60)
      <4>5. Sound(f, Duration(file[f]))'
        <5>1. late \in Nat BY <1>3, <1>5, <2>2, <3>2
        <5>2. Near(IF late <= v THEN v - late ELSE 0, r.ran, r.slack)
          BY <1>3, <1>12, <4>2, <5>1 DEF Near
        <5>3. ~r.refused => OffsetOf(f) + (IF late <= v THEN v - late ELSE 0) <= live + r.slack
          BY <1>3, <1>12, <1>13, <4>2, <5>1
        <5>4. QED BY <1>0, <1>1, <1>2, <1>8, <4>4, <5>2, <5>3 DEF Sound
      <4>6. QED BY <1>0, <1>1, <1>2, <2>2, <4>5 DEF LengthInv
    <3>7. QED BY <1>3, <3>5, <3>6
  <2>3. QED BY <1>3, <2>1, <2>2
<1>15. QED BY <1>9, <1>10, <1>11, <1>14 DEF FileInv

LEMMA ReadClockFiles ==
    ASSUME TimelineInv, ReadClock, NEW g \in File PROVE FileInv(g)'
<1>0. /\ Typed /\ Typed' /\ PastStays /\ FileInv(g) /\ SamePlaces(todo.held)
      /\ todo.held # NoFile /\ g # NoFile
  BY ReadClockKeeps, Basics DEF TimelineInv, ReadClock
<1>1. CASE todo.held = g BY <1>1, ReadClockFile
<1>2. CASE todo.held # g
  <2>1. /\ now' = now /\ live' = live /\ ses' = ses /\ todo'.held = NoFile
        /\ todo'.pausing = todo.pausing
    BY Basics DEF ReadClock, TodoType
  <2>2. file'[g] = file[g] BY <1>0, <1>2 DEF SamePlaces
  <2>3. Untouched(g) BY <1>0, <1>2, <2>1, <2>2 DEF Untouched
  <2>4. QED BY <1>0, <2>3, UntouchedKeeps
<1>3. QED BY <1>1, <1>2

\* The first key frame of the stream places a file anew.
LEMMA FirstFrameFiles ==
    ASSUME TimelineInv, NEW f \in File, NEW ago \in 0..1, FirstFrame(f, ago), NEW g \in File
    PROVE  FileInv(g)'
<1> DEFINE r == file[f]
           s == file'[f]
           o == StartOffset(file[f])'
<1>0. /\ Typed /\ Typed' /\ PastStays /\ FileInv(g) /\ FileInv(f) /\ SamePlaces(f) /\ ClockInv
      /\ r \in FileType /\ s \in FileType /\ g # NoFile /\ f # NoFile /\ f \in OpenFiles
      /\ r.phase = "open" /\ r.kind = "shared" /\ r.started /\ r.first = 0 /\ ago < now
  <2>1. Typed /\ Typed' /\ PastStays /\ FileInv(g) /\ FileInv(f) /\ SamePlaces(f) /\ ClockInv
    BY FirstFrameKeeps DEF TimelineInv
  <2>2. f \in OpenFiles /\ r.phase = "open" /\ r.kind = "shared" /\ r.started /\ r.first = 0 /\ ago < now
    BY DEF FirstFrame, OpenFiles, Shared
  <2>3. QED BY <2>1, <2>2, Basics DEF Typed
<1>1. now' = now /\ live' = live /\ ses' = ses /\ todo' = todo BY DEF FirstFrame
<1>2. CASE g # f
  <2>1. file'[g] = file[g] BY <1>0, <1>2 DEF SamePlaces
  <2>2. Untouched(g) BY <1>0, <1>1, <2>1 DEF Untouched
  <2>3. QED BY <1>0, <2>2, UntouchedKeeps
<1>3. CASE g = f
  <2>1. /\ s.first = now - ago /\ s.place = live /\ s.slack = r.slack + ago /\ s.ran = 0
        /\ s.frames = 0 /\ s.phase = r.phase /\ s.kind = r.kind /\ s.out = r.out
        /\ s.started = r.started /\ s.failed = r.failed /\ s.startNs = r.startNs
        /\ s.offset = r.offset /\ s.stopNs = r.stopNs /\ s.paused = r.paused
        /\ s.pauseStart = r.pauseStart /\ s.pausedNs = r.pausedNs /\ s.refused = r.refused
        /\ s.listed = r.listed
    <3>1. s = [r EXCEPT !.first = now - ago, !.place = live, !.slack = @ + ago, !.ran = 0, !.frames = 0]
      BY Basics DEF FirstFrame
    <3>2. QED BY <1>0, <3>1, ZenonT(60) DEF FileType
  <2>2. ses.active /\ ses.epoch # 0 /\ ses.epoch <= now /\ ses.epoch \in Nat /\ now \in Nat
        /\ live \in Nat /\ r.slack \in Nat /\ s.slack \in Nat /\ LiveAt(now) = live
        /\ now > 0 /\ s.first \in Nat /\ s.first # 0
    <3>1. ses.active BY <1>0 DEF TimelineInv, WorkInv
    <3>2. ses.epoch # 0 /\ LiveAt(now) = live BY <1>0, <3>1 DEF ClockInv, LiveInv
    <3>3. s.slack \in Nat /\ r.slack \in Nat BY <1>0, FileNumbers
    <3>4. now - ago \in Nat /\ now - ago # 0 BY <1>0, Basics
    <3>5. QED BY <2>1, <3>1, <3>2, <3>3, <3>4, Basics
  <2>3. o = Larger(0, now - ago - ses.epoch)
    BY <1>0, <1>1, <2>1, <2>2 DEF StartOffset
  <2>4. o \in Nat /\ ses.epoch + o <= now /\ ses.epoch + o \in Nat BY <2>2, <2>3 DEF Larger
  <2>5. OffsetFor(file[f])' = Larger(0, o - PausedIn(ses.pauses, ses.epoch + o))
    BY <1>0, <1>1, OffsetsNow DEF OffsetsRight, PlacedAt, Larger
  <2>6. Near(OffsetFor(file[f])', live, s.slack)
    <3>0. \A w \in Nat : PausedIn(ses.pauses, w) \in Nat /\ LiveAt(w) = w - ses.epoch - PausedIn(ses.pauses, w)
      BY <1>0, PausedNow DEF LiveAt
    <3>1. CASE now - ago >= ses.epoch
      <4>1. o = now - ago - ses.epoch /\ ses.epoch + o = now - ago BY <2>2, <2>3, <3>1 DEF Larger
      <4>2. now - ago \in Nat BY <2>2, <3>1
      <4>3. OffsetFor(file[f])' = Larger(0, LiveAt(now - ago))
        BY <2>5, <3>0, <4>1, <4>2
      <4>4. LiveAt(now - ago) \in Int BY <2>2, <3>0, <4>2
      <4>5. LiveAt(now - ago) = live \/ (ago = 1 /\ live = LiveAt(now - ago) + 1)
        <5>1. CASE ago = 0
          <6>1. now - ago = now BY <2>2, <5>1
          <6>2. QED BY <2>2, <6>1
        <5>2. CASE ago = 1
          <6>1. now - ago \in ses.epoch..now - 1 /\ (now - ago) + 1 = now BY <2>2, <3>1, <5>2
          <6>2. LiveAt(now) \in {LiveAt(now - ago), LiveAt(now - ago) + 1}
            BY <1>0, <2>2, <6>1 DEF ClockInv, LiveInv
          <6>3. QED BY <2>2, <5>2, <6>2
        <5>3. QED BY <5>1, <5>2
      <4>6. QED BY <2>1, <2>2, <4>3, <4>4, <4>5 DEF Near, Larger
    <3>2. CASE now - ago < ses.epoch
      <4>1. ago = 1 /\ now = ses.epoch /\ o = 0 BY <2>2, <2>3, <3>2 DEF Larger
      <4>2. OffsetFor(file[f])' = 0 BY <2>2, <2>5, <3>0, <4>1 DEF Larger
      <4>3. live = 0 BY <2>2, <3>0, <4>1
      <4>4. QED BY <2>2, <4>2, <4>3 DEF Near
    <3>3. QED BY <2>2, <3>1, <3>2
  <2>7. PlaceInv(f)' BY <1>0, <2>1, <2>6 DEF PlaceInv, OffsetOf
  <2>8. RecorderInv(f)'
    <3>1. RecorderInv(f) BY <1>0 DEF FileInv
    <3>2. o + ses'.epoch <= now' BY <1>1, <2>2, <2>4
    <3>3. s.first <= now BY <2>1, <2>2
    <3>4. QED BY <1>0, <1>1, <2>1, <2>2, <3>1, <3>2, <3>3 DEF RecorderInv, EndsAt
  <2>9. LengthInv(f)'
    <3>1. ~r.failed /\ r.stopNs = 0 /\ r.paused = FALSE /\ r.pausedNs = 0
      <4>1. RecorderInv(f) /\ r.paused \in BOOLEAN BY <1>0, FileNumbers DEF FileInv
      <4>2. QED BY <1>0, <4>1 DEF RecorderInv
    <3>2. Length(file[f], now)' = ago
      BY <1>0, <1>1, <2>1, <2>2, <3>1 DEF Length, EndsAt, BeganAt, InPause
    <3>3. Near(ago, 0, s.slack) BY <2>1, <2>2 DEF Near
    <3>4. s.slack - 0 = s.slack BY <2>2
    <3>5. QED BY <1>0, <1>1, <2>1, <3>1, <3>2, <3>3, <3>4 DEF LengthInv
  <2>10. VerdictInv(f)' BY <1>0, <2>1 DEF FileInv, VerdictInv
  <2>11. QED BY <1>3, <2>7, <2>8, <2>9, <2>10 DEF FileInv
<1>4. QED BY <1>2, <1>3

\* The length that a recorder works out is what is left of its time.
LEMMA LengthIsDuration ==
    ASSUME Typed, NEW r \in FileType, r.startNs >= 1,
           r.startNs + r.pausedNs <= IF r.paused THEN r.pauseStart ELSE EndsAt(r, now),
           r.paused => r.pauseStart <= EndsAt(r, now),
           r.kind = "shared" => ~r.paused /\ r.pausedNs = 0 /\ r.first <= EndsAt(r, now)
    PROVE  Duration(r) = Length(r, now)
<1>1. r.startNs \in Nat /\ r.pausedNs \in Nat /\ r.first \in Nat /\ r.paused \in BOOLEAN
  BY FileNumbers
<1>2. BeganAt(r) + r.pausedNs <= (IF r.paused THEN r.pauseStart ELSE EndsAt(r, now))
  BY <1>1 DEF BeganAt
<1>3. now \in 1..MaxTime /\ r.startNs > 0 BY <1>1 DEF Typed
<1>4. QED BY <1>2, <1>3, DurationIs

LEMMA OutputDiesFiles ==
    ASSUME TimelineInv, NEW f \in File, OutputDies(f), NEW g \in File PROVE FileInv(g)'
<1> DEFINE r == file[f]
           s == file'[f]
<1>0. /\ Typed /\ Typed' /\ PastStays /\ FileInv(g) /\ FileInv(f) /\ SamePlaces(f)
      /\ r \in FileType /\ s \in FileType /\ r.phase = "open" /\ r.started
  <2>1. Typed /\ Typed' /\ PastStays /\ FileInv(g) /\ FileInv(f) /\ SamePlaces(f)
    BY OutputDiesKeeps DEF TimelineInv
  <2>2. r.phase = "open" /\ r.started BY DEF OutputDies, OpenFiles
  <2>3. QED BY <2>1, <2>2 DEF Typed
<1>1. now' = now /\ live' = live /\ ses' = ses /\ todo' = todo BY DEF OutputDies
<1>2. CASE g # f
  <2>1. file'[g] = file[g] BY <1>0, <1>2 DEF SamePlaces
  <2>2. Untouched(g) BY <1>0, <1>1, <2>1 DEF Untouched
  <2>3. QED BY <1>0, <2>2, UntouchedKeeps
<1>3. CASE g = f
  <2>1. /\ s.out = "off" /\ s.started = FALSE /\ s.failed = TRUE /\ s.stopNs = now
        /\ s.first = r.first /\ s.place = r.place /\ s.slack = r.slack /\ s.ran = r.ran
        /\ s.frames = r.frames /\ s.phase = r.phase /\ s.kind = r.kind /\ s.startNs = r.startNs
        /\ s.offset = r.offset /\ s.paused = r.paused
        /\ s.pauseStart = r.pauseStart /\ s.pausedNs = r.pausedNs /\ s.refused = r.refused
        /\ s.listed = r.listed
    <3>1. s = [r EXCEPT !.out = "off", !.started = FALSE, !.failed = TRUE, !.stopNs = now]
      BY Basics DEF OutputDies
    <3>2. QED BY <1>0, <3>1 DEF FileType
  <2>2. /\ {r.startNs, r.pauseStart, r.pausedNs, r.stopNs, r.ran, r.slack, now, live} \subseteq Nat
        /\ {r.paused, r.refused, r.failed, r.started, ses.paused} \subseteq BOOLEAN /\ now > 0
    BY <1>0, Basics, FileNumbers DEF SessionType
  <2>3. RecorderInv(f) BY <1>0 DEF FileInv
  <2>4. /\ ~r.failed /\ r.stopNs = 0 /\ r.startNs >= 1 /\ r.startNs <= now /\ r.first <= now
        /\ r.startNs + r.pausedNs <= (IF r.paused THEN r.pauseStart ELSE now)
        /\ r.paused => r.pauseStart <= now
        /\ r.kind = "shared" => ~r.paused /\ r.pausedNs = 0
    BY <1>0, <2>2, <2>3 DEF RecorderInv, EndsAt
  <2>5. StartOffset(file[f])' = StartOffset(file[f]) /\ OffsetFor(file[f])' = OffsetFor(file[f])
    <3>1. StartOffset(file[f]) + ses.epoch <= now BY <1>0, <2>3 DEF RecorderInv
    <3>2. QED BY <1>0, <2>1, <3>1, OffsetKept
  <2>6. OffsetOf(f)' = OffsetOf(f) BY <1>0, <2>1, <2>5 DEF OffsetOf
  <2>7. PlaceInv(f)' BY <1>0, <2>1, <2>6 DEF FileInv, PlaceInv
  <2>8. RecorderInv(f)'
    <3>1. EndsAt(file[f], now)' = now BY <1>1, <2>1, <2>2 DEF EndsAt
    <3>2. s.stopNs \in s.startNs..now BY <2>1, <2>2, <2>4
    <3>3. QED BY <1>0, <1>1, <2>1, <2>2, <2>3, <2>4, <2>5, <3>1, <3>2 DEF RecorderInv
  <2>9. Length(file[f], now)' = Length(r, now)
    BY <1>1, <2>1, <2>2, <2>4 DEF Length, EndsAt, BeganAt, InPause
  <2>10. /\ (r.kind = "shared" /\ r.first = 0) \/ Near(Length(r, now), r.ran, r.slack)
         /\ r.kind # "shared" /\ ~r.refused => OffsetOf(f) + Length(r, now) + 0 <= live + r.slack
    <3>1. r.slack - 0 = r.slack BY <2>2
    <3>2. QED BY <1>0, <2>4, <3>1 DEF FileInv, LengthInv
  <2>11. LengthInv(f)'
    <3>1. now - now = 0 /\ r.slack - 0 = r.slack BY <2>2
    <3>2. CASE todo.held = f
      BY <1>0, <1>1, <2>1, <2>6, <2>9, <2>10, <3>1, <3>2 DEF LengthInv
    <3>3. CASE todo.held # f
      <4>1. Duration(file[f])' = Length(r, now)
        <5>1. s.startNs >= 1 /\ EndsAt(s, now) = now /\ (s.paused => s.pauseStart <= now)
          BY <2>1, <2>2, <2>4 DEF EndsAt
        <5>2. s.startNs + s.pausedNs <= IF s.paused THEN s.pauseStart ELSE EndsAt(s, now)
          BY <2>1, <2>4, <5>1
        <5>3. Duration(s) = Length(s, now) BY <1>0, <2>1, <2>4, <5>1, <5>2, LengthIsDuration
        <5>4. Length(s, now) = Length(r, now)
          BY <2>1, <2>2, <2>4 DEF Length, EndsAt, BeganAt, InPause
        <5>5. Duration(file[f])' = Duration(s) BY <1>1 DEF Duration
        <5>6. QED BY <5>3, <5>4, <5>5
      <4>2. OffsetOf(f) + Length(r, now) + 0 = OffsetOf(f) + Length(r, now)
        <5>1. OffsetFor(file[f]) \in Tick BY <1>0, OffsetsNow DEF OffsetsRight
        <5>2. OffsetOf(f) \in Nat BY <1>0, <5>1, Basics DEF OffsetOf
        <5>3. Length(r, now) \in Int BY <1>0, <2>2, FileNumbers DEF Length, EndsAt, BeganAt, InPause
        <5>4. QED BY <5>2, <5>3
      <4>3. Sound(f, Duration(file[f]))'
        BY <1>1, <2>1, <2>6, <2>10, <4>1, <4>2 DEF Sound
      <4>4. QED BY <1>0, <1>1, <2>1, <3>3, <4>3 DEF LengthInv
    <3>4. QED BY <3>2, <3>3
  <2>12. VerdictInv(f)' BY <1>0, <2>1 DEF FileInv, VerdictInv
  <2>13. QED BY <1>3, <2>7, <2>8, <2>11, <2>12 DEF FileInv
<1>4. QED BY <1>2, <1>3

\* What an open file would list is sound at any time.
LEMMA OpenIsSound ==
    ASSUME Typed, NEW f \in File, FileInv(f), file[f].phase = "open" PROVE Sound(f, Duration(file[f]))
<1> DEFINE r == file[f]
           v == Length(r, now)
           late == IF r.failed THEN now - r.stopNs ELSE 0
<1>0. r \in FileType /\ now \in Nat /\ live \in Nat /\ RecorderInv(f) /\ LengthInv(f)
  BY TimelineAssumption DEF Typed, FileInv, Tick
<1>1. CASE r.failed /\ todo.held # f BY <1>0, <1>1 DEF LengthInv
<1>2. CASE ~r.failed \/ todo.held = f
  <2>1. /\ {r.startNs, r.pauseStart, r.pausedNs, r.stopNs, r.ran, r.slack} \subseteq Nat
        /\ {r.paused, r.refused, r.failed, r.started} \subseteq BOOLEAN
    BY <1>0, FileNumbers
  <2>2. /\ r.startNs >= 1
        /\ r.startNs + r.pausedNs <= (IF r.paused THEN r.pauseStart ELSE EndsAt(r, now))
        /\ r.paused => r.pauseStart <= EndsAt(r, now)
        /\ r.kind = "shared" => ~r.paused /\ r.pausedNs = 0 /\ r.first <= EndsAt(r, now)
        /\ late \in Nat
    <3>1. CASE ~r.failed
      <4>1. r.started /\ r.stopNs = 0 BY <1>0, <2>1, <3>1 DEF RecorderInv
      <4>2. EndsAt(r, now) = now BY <4>1 DEF EndsAt
      <4>3. QED BY <1>0, <2>1, <3>1, <4>1, <4>2 DEF RecorderInv
    <3>2. CASE r.failed /\ todo.held = f
      <4>1. ~r.started /\ r.stopNs # 0 /\ r.stopNs <= now /\ r.startNs >= 1
            /\ (r.paused => r.pauseStart <= r.stopNs) /\ r.first <= r.stopNs
        BY <1>0, <2>1, <3>2 DEF RecorderInv
      <4>2. EndsAt(r, now) = r.stopNs BY <4>1 DEF EndsAt
      <4>3. QED BY <1>0, <2>1, <3>2, <4>1, <4>2 DEF RecorderInv
    <3>3. QED BY <1>2, <2>1, <3>1, <3>2
  <2>3. Duration(r) = v BY <1>0, <2>2, LengthIsDuration
  <2>4. /\ (r.kind = "shared" /\ r.first = 0) \/ Near(v, r.ran, r.slack - late)
        /\ r.kind # "shared" /\ ~r.refused => OffsetOf(f) + v + late <= live + r.slack
    BY <1>0, <1>2 DEF LengthInv
  <2>5. OffsetOf(f) \in Nat
    <3>1. OffsetFor(file[f]) \in Tick BY OffsetsAre DEF OffsetsRight
    <3>2. QED BY <3>1, TimelineAssumption DEF OffsetOf, Tick
  <2>6. v \in Int BY <1>0, <2>1, FileNumbers DEF Length, EndsAt, BeganAt, InPause
  <2> HIDE DEF v, late
  <2>7. (r.kind = "shared" /\ r.first = 0) \/ Near(v, r.ran, r.slack)
    BY <2>1, <2>2, <2>4, <2>6 DEF Near
  <2>8. r.kind # "shared" /\ ~r.refused => OffsetOf(f) + v <= live + r.slack
    BY <1>0, <2>1, <2>2, <2>4, <2>5, <2>6
  <2>9. QED BY <2>3, <2>7, <2>8 DEF Sound
<1>3. QED BY <1>0, <1>1, <1>2, FileNumbers

\* A file closes with the place and the length that it had.
LEMMA ClosingFiles ==
    ASSUME TimelineInv, NEW f \in File, Leave(f) \/ CloseFile(f), NEW g \in File PROVE FileInv(g)'
<1> DEFINE r == file[f]
           s == file'[f]
<1>0. /\ Typed /\ Typed' /\ PastStays /\ FileInv(g) /\ FileInv(f) /\ g # NoFile /\ f # NoFile
      /\ r \in FileType /\ r.phase = "open" /\ f \in OpenFiles
      /\ now' = now /\ live' = live /\ ses' = ses /\ file' = [file EXCEPT ![f] = Closed(f)]
      /\ todo.pausing = {} /\ todo.held = NoFile /\ todo'.held = NoFile
  <2>1. Typed /\ Typed' /\ PastStays /\ FileInv(g) /\ FileInv(f)
    BY ClosingKeeps DEF TimelineInv
  <2>2. f \in OpenFiles /\ r.phase = "open" /\ todo.pausing = {} /\ todo.held = NoFile /\ todo'.held = NoFile
    BY Basics DEF TimelineInv, WorkInv, Leave, CloseFile, OpenFiles, Idle, NoWork, TodoType
  <2>3. /\ now' = now /\ live' = live /\ ses' = ses /\ file' = [file EXCEPT ![f] = Closed(f)]
    BY DEF Leave, CloseFile
  <2>4. QED BY <2>1, <2>2, <2>3, Basics DEF Typed
<1>1. CASE g # f
  <2>1. file'[g] = file[g] BY <1>0, <1>1, Basics
  <2>2. Untouched(g) BY <1>0, <2>1 DEF Untouched
  <2>3. QED BY <1>0, <2>2, UntouchedKeeps
<1>2. CASE g = f
  <2>1. RecorderInv(f) /\ PlaceInv(f) /\ LengthInv(f) BY <1>0 DEF FileInv
  <2>2. s = Closed(f) BY <1>0, Basics
  <2>3. /\ s.phase = "closed" /\ s.out = "off" /\ s.started = FALSE
        /\ s.kind = r.kind /\ s.failed = r.failed /\ s.first = r.first
        /\ s.frames = r.frames /\ s.ran = r.ran /\ s.slack = r.slack
        /\ s.place = r.place /\ s.refused = r.refused
        /\ s.listed.offset = OffsetFor(r) /\ s.listed.duration = Duration(r)
        /\ r.failed => s.listed.status = "failed"
        /\ ~r.failed /\ Shortfall(r.frames, Duration(r), Rate[r.kind])
             => s.listed.status = "aborted"
        /\ ~r.failed /\ ~Shortfall(r.frames, Duration(r), Rate[r.kind])
             => s.listed.status = "complete"
    <3>1. /\ Closed(f).phase = "closed" /\ Closed(f).out = "off" /\ Closed(f).started = FALSE
          /\ Closed(f).kind = r.kind /\ Closed(f).failed = r.failed /\ Closed(f).first = r.first
          /\ Closed(f).frames = r.frames /\ Closed(f).ran = r.ran /\ Closed(f).slack = r.slack
          /\ Closed(f).place = r.place /\ Closed(f).refused = r.refused
          /\ Closed(f).listed.offset = OffsetFor(r) /\ Closed(f).listed.duration = Duration(r)
          /\ r.failed => Closed(f).listed.status = "failed"
          /\ ~r.failed /\ Shortfall(r.frames, Duration(r), Rate[r.kind])
               => Closed(f).listed.status = "aborted"
          /\ ~r.failed /\ ~Shortfall(r.frames, Duration(r), Rate[r.kind])
               => Closed(f).listed.status = "complete"
      BY <1>0, <2>1, ClosedIs
    <3>2. QED BY <2>2, <3>1
  <2>4. OffsetOf(f)' = OffsetOf(f) BY <1>0, <2>3 DEF OffsetOf
  <2>5. RecorderInv(f)' BY <2>3 DEF RecorderInv
  <2>6. PlaceInv(f)' BY <1>0, <2>1, <2>3, <2>4 DEF PlaceInv
  <2>7. VerdictInv(f)'
    <3>1. r.kind = "shared" /\ r.first = 0 => r.ran = 0 BY <1>0, <2>1 DEF RecorderInv
    <3>2. r.failed \in BOOLEAN BY <1>0, FileNumbers
    <3>3. QED BY <2>3, <3>1, <3>2 DEF VerdictInv
  <2>8. Sound(f, Duration(r)) BY <1>0, OpenIsSound
  <2>9. Sound(f, file[f].listed.duration)' BY <1>0, <2>3, <2>4, <2>8 DEF Sound
  <2>10. LengthInv(f)' BY <2>3, <2>9 DEF LengthInv
  <2>11. QED BY <1>2, <2>5, <2>6, <2>7, <2>10 DEF FileInv
<1>3. QED BY <1>1, <1>2

LEMMA AdvanceFiles ==
    ASSUME TimelineInv, NEW L \in SUBSET File, Advance(L), NEW f \in File PROVE FileInv(f)'
<1> DEFINE r == file[f]
           s == file'[f]
           busy == IF f \in todo.starting \cup todo.pausing \cup {todo.held} THEN 1 ELSE 0
           on == IF Recording(f) THEN 1 ELSE 0
<1>0. /\ Typed /\ Typed' /\ PastStays /\ FileInv(f) /\ WorkInv /\ r \in FileType /\ s \in FileType
      /\ now' = now + 1 /\ ses' = ses /\ todo' = todo /\ live' = (IF ses.paused THEN live ELSE live + 1)
      /\ Ticked(f, L) /\ f # NoFile
  BY AdvanceKeeps, Basics DEF TimelineInv, Typed
<1>1. /\ s.phase = r.phase /\ s.kind = r.kind /\ s.out = r.out /\ s.started = r.started
      /\ s.failed = r.failed /\ s.startNs = r.startNs /\ s.offset = r.offset /\ s.first = r.first
      /\ s.stopNs = r.stopNs /\ s.paused = r.paused /\ s.pauseStart = r.pauseStart
      /\ s.pausedNs = r.pausedNs /\ s.listed = r.listed /\ s.place = r.place
      /\ s.refused = r.refused /\ s.ran = r.ran + on /\ s.slack = r.slack + busy
      /\ ~Recording(f) => s.frames = r.frames
  BY <1>0 DEF Ticked
<1>2. /\ {r.startNs, r.pauseStart, r.pausedNs, r.stopNs, r.ran, r.slack, r.place, r.first,
          now, live, live'} \subseteq Nat
      /\ {r.paused, r.refused, r.failed, r.started, ses.paused} \subseteq BOOLEAN
      /\ on \in 0..1 /\ busy \in 0..1 /\ live <= live'
  BY <1>0, Basics, FileNumbers DEF SessionType
<1>3. on = 1 <=> r.out = "on" /\ (r.kind = "shared" => r.first # 0) BY DEF Recording, Shared
<1>4. todo.held = f => busy = 1 OBVIOUS
<1>5. f \in todo.pausing => busy = 1 OBVIOUS
<1>6. r.phase # "open" => on = 0 /\ (r.phase = "closed" => busy = 0)
  <2>1. r.phase # "open" => r.out = "off" BY <1>0 DEF FileInv, RecorderInv
  <2>2. r.phase = "closed" => f \notin todo.starting \cup todo.pausing \cup {todo.held}
    BY <1>0 DEF WorkInv, OpenFiles
  <2>3. QED BY <1>2, <1>3, <2>1, <2>2
<1>7. ~Recording(f) <=> on = 0 OBVIOUS
<1> HIDE DEF on, busy
<1>8. CASE r.phase # "open"
  <2>1. AtRest(f) BY <1>1, <1>2, <1>6, <1>7, <1>8 DEF AtRest
  <2>2. QED BY <1>0, <1>2, <2>1, RestKeeps
<1>9. CASE r.phase = "open"
  <2>1. RecorderInv(f) /\ PlaceInv(f) /\ LengthInv(f) /\ VerdictInv(f) BY <1>0 DEF FileInv
  <2>2. /\ r.startNs >= 1 /\ r.startNs <= now /\ StartOffset(r) + ses.epoch <= now /\ r.first <= now
        /\ r.startNs + r.pausedNs <= now
        /\ r.paused => r.pauseStart <= now
        /\ r.kind = "shared" => ~r.paused /\ r.pausedNs = 0 /\ (r.first = 0 => r.ran = 0)
        /\ ~r.failed => r.started /\ r.stopNs = 0
        /\ r.started => r.stopNs = 0 /\ ~r.failed /\ r.out # "off"
        /\ r.failed => r.out = "off" /\ r.stopNs >= r.startNs /\ r.stopNs <= now
        /\ r.started /\ todo.held # f => (r.paused <=> r.out = "paused")
        /\ todo.held = f /\ r.started => (r.paused <=> r.out = "on")
        /\ ses.paused /\ r.started /\ r.kind # "shared" /\ ~r.refused /\ ~r.paused =>
              f \in todo.pausing \/ todo.held = f
    BY <1>2, <1>9, <2>1 DEF RecorderInv
  <2>3. StartOffset(file[f])' = StartOffset(file[f]) /\ OffsetFor(file[f])' = OffsetFor(file[f])
    BY <1>0, <1>1, <2>2, OffsetKept
  <2>4. OffsetOf(f)' = OffsetOf(f) BY <1>1, <1>9, <2>3 DEF OffsetOf
  <2>5. OffsetOf(f) \in Nat
    <3>1. OffsetFor(file[f]) \in Tick BY <1>0, OffsetsNow DEF OffsetsRight
    <3>2. QED BY <1>9, <3>1, Basics DEF OffsetOf
  <2>6. PlaceInv(f)'
    <3>1. Near(OffsetOf(f), r.place, r.slack) BY <1>9, <2>1 DEF PlaceInv
    <3>2. Near(OffsetOf(f), r.place, r.slack + busy) BY <1>2, <2>5, <3>1 DEF Near
    <3>3. QED BY <1>1, <2>4, <3>2 DEF PlaceInv
  <2>7. RecorderInv(f)'
    <3>1. StartOffset(file[f])' + ses'.epoch <= now'
      <4>1. StartOffset(file[f]) \in Tick BY <1>0, OffsetsNow DEF OffsetsRight
      <4>2. QED BY <1>0, <1>2, <2>2, <2>3, <4>1, Basics
    <3>2. EndsAt(r, now) \in Nat /\ EndsAt(file[f], now)' >= EndsAt(r, now)
      BY <1>0, <1>1, <1>2 DEF EndsAt
    <3>3. EndsAt(file[f], now)' \in Nat BY <1>0, <1>1, <1>2 DEF EndsAt
    <3>4. r.started \/ todo.held = f =>
             r.startNs + r.pausedNs <= IF r.paused THEN r.pauseStart ELSE EndsAt(file[f], now)'
      <4>1. r.started \/ todo.held = f =>
               r.startNs + r.pausedNs <= IF r.paused THEN r.pauseStart ELSE EndsAt(r, now)
        BY <1>9, <2>1 DEF RecorderInv
      <4>2. QED BY <1>2, <3>2, <3>3, <4>1
    <3>5. r.kind = "shared" /\ r.first = 0 => s.ran = 0 BY <1>1, <1>2, <1>3, <2>2
    <3>6. r.first # 0 => r.kind = "shared" BY <1>9, <2>1 DEF RecorderInv
    <3>7. ~r.started => r.stopNs \in r.startNs..now' /\ r.first <= r.stopNs /\ r.failed /\ r.out = "off"
      BY <1>0, <1>2, <1>9, <2>1 DEF RecorderInv
    <3>8. todo.held = f => (r.paused <=> ~ses.paused) /\ (r.paused /\ r.failed => r.pauseStart <= r.stopNs)
      BY <1>9, <2>1 DEF RecorderInv
    <3>9. s.startNs \in 1..now' /\ s.first <= now' /\ s.startNs + s.pausedNs <= now'
          /\ (s.paused => s.pauseStart <= now')
      BY <1>0, <1>1, <1>2, <2>2
    <3>10. QED
      BY <1>0, <1>1, <1>9, <2>2, <3>1, <3>4, <3>5, <3>6, <3>7, <3>8, <3>9 DEF RecorderInv
  <2>8. LengthInv(f)'
    <3>1. CASE r.failed /\ todo.held # f
      <4>1. Sound(f, Duration(r)) BY <1>9, <2>1, <3>1 DEF LengthInv
      <4>2. r.stopNs # 0 /\ on = 0 BY <1>2, <1>3, <2>2, <3>1
      <4>3. Duration(file[f])' = Duration(r) BY <1>1, <4>2 DEF Duration
      <4>4. Duration(r) \in Nat
        <5>1. now \in 1..MaxTime /\ r.startNs > 0 BY <1>0, <1>2, <2>2 DEF Typed
        <5>2. Duration(r) \in Tick BY <1>0, <5>1, DurationIs
        <5>3. QED BY <5>2, Basics
      <4>5. s.ran = r.ran /\ s.slack = r.slack + busy BY <1>1, <1>2, <4>2
      <4> DEFINE d == Duration(r)
      <4> HIDE DEF d
      <4>6. \/ Near(d, s.ran, s.slack)
            \/ s.failed /\ s.slack > 0 /\ d = 0
            \/ s.kind = "shared" /\ s.first = 0
        BY <1>1, <1>2, <4>1, <4>4, <4>5 DEF Sound, Near, d
      <4>7. s.kind # "shared" /\ ~s.refused => OffsetOf(f) + d <= live' + s.slack
        BY <1>1, <1>2, <2>5, <4>1, <4>4, <4>5 DEF Sound, d
      <4>8. Sound(f, Duration(file[f]))' BY <2>4, <4>3, <4>6, <4>7 DEF Sound, d
      <4>9. QED BY <1>0, <1>1, <1>9, <3>1, <4>8 DEF LengthInv
    <3>2. CASE ~r.failed \/ todo.held = f
      <4> DEFINE v == Length(r, now)
                 late == IF r.failed THEN now - r.stopNs ELSE 0
      <4>1. /\ (r.kind = "shared" /\ r.first = 0) \/ Near(v, r.ran, r.slack - late)
            /\ r.kind # "shared" /\ ~r.refused => OffsetOf(f) + v + late <= live + r.slack
        BY <1>9, <2>1, <3>2 DEF LengthInv
      <4>2. v \in Int BY <1>2 DEF Length, EndsAt, BeganAt, InPause
      <4>3. CASE r.failed
        <5>1. r.stopNs # 0 /\ on = 0 BY <1>2, <1>3, <2>2, <4>3
        <5>2. Length(file[f], now)' = v
          BY <1>1, <5>1 DEF Length, EndsAt, BeganAt, InPause
        <5>3. busy = 1 /\ s.ran = r.ran /\ s.slack = r.slack + 1 /\ late = now - r.stopNs /\ late \in Nat
          BY <1>1, <1>2, <1>4, <2>2, <3>2, <4>3, <5>1
        <5> HIDE DEF v, late
        <5>4. now' - s.stopNs = late + 1
          <6>1. now \in Nat /\ r.stopNs \in Nat /\ s.stopNs = r.stopNs /\ now' = now + 1
            BY <1>0, <1>1, <1>2
          <6>2. QED BY <5>3, <6>1
        <5>5. s.slack - (late + 1) = r.slack - late BY <1>2, <5>3
        <5>6. r.kind # "shared" /\ ~r.refused => OffsetOf(f) + v + (late + 1) <= live' + s.slack
          BY <1>2, <2>5, <4>1, <4>2, <5>3
        <5>7. QED BY <1>0, <1>1, <1>9, <2>4, <3>2, <4>1, <4>3, <5>2, <5>3, <5>4, <5>5, <5>6 DEF LengthInv
      <4>4. CASE ~r.failed
        <5>1. r.started /\ r.stopNs = 0 /\ r.out # "off" /\ late = 0 BY <2>2, <4>4
        <5>2. Length(file[f], now)' = v + IF r.paused THEN 0 ELSE 1
          <6> DEFINE b == BeganAt(r)
                     n == now + 1
          <6>1. b \in Nat /\ now \in Nat /\ r.pausedNs \in Nat /\ r.pauseStart \in Nat /\ n = now + 1
            BY <1>2 DEF BeganAt
          <6>2. Length(file[f], now)' = Length(s, n)
            BY <1>0 DEF Length, EndsAt, BeganAt, InPause
          <6> HIDE DEF b, n, v
          <6>3. BeganAt(s) = b BY <1>1 DEF BeganAt, b
          <6>4. EndsAt(s, n) = n /\ EndsAt(r, now) = now BY <1>1, <5>1 DEF EndsAt
          <6>5. InPause(s, n) = (IF r.paused THEN n - r.pauseStart ELSE 0)
                /\ InPause(r, now) = (IF r.paused THEN now - r.pauseStart ELSE 0)
            BY <1>1, <6>4 DEF InPause
          <6>6. s.pausedNs = r.pausedNs BY <1>1
          <6>7. v = now - b - r.pausedNs - InPause(r, now) BY <6>4 DEF Length, v, b
          <6>8. Length(s, n) = n - b - r.pausedNs - InPause(s, n) BY <6>3, <6>4, <6>6 DEF Length
          <6>9. QED BY <6>1, <6>2, <6>5, <6>7, <6>8
        <5>3. busy = 1 \/ (r.kind = "shared" /\ r.first = 0) \/ on = IF r.paused THEN 0 ELSE 1
          <6>1. r.out \in {"off", "on", "paused"} BY <1>0, FileNumbers
          <6>2. QED BY <1>2, <1>3, <1>4, <2>2, <5>1, <6>1
        <5>4. r.kind # "shared" /\ ~r.refused /\ busy = 0 /\ ~r.paused => live' = live + 1
          BY <1>0, <1>2, <1>4, <1>5, <2>2, <5>1
        <5> HIDE DEF v, late
        <5>5. (r.kind = "shared" /\ r.first = 0)
              \/ Near(v + (IF r.paused THEN 0 ELSE 1), s.ran, s.slack - 0)
          BY <1>1, <1>2, <4>1, <4>2, <5>1, <5>3 DEF Near
        <5>6. r.kind # "shared" /\ ~r.refused =>
                 OffsetOf(f) + (v + (IF r.paused THEN 0 ELSE 1)) + 0 <= live' + s.slack
          BY <1>1, <1>2, <2>5, <4>1, <4>2, <5>1, <5>4
        <5>7. QED BY <1>0, <1>1, <1>9, <2>4, <4>4, <5>2, <5>5, <5>6 DEF LengthInv
      <4>5. QED BY <1>2, <4>3, <4>4
    <3>3. QED BY <1>2, <3>1, <3>2
  <2>9. VerdictInv(f)' BY <1>1, <1>9, <2>1 DEF VerdictInv
  <2>10. QED BY <2>6, <2>7, <2>8, <2>9 DEF FileInv
<1>10. QED BY <1>8, <1>9

-----------------------------------------------------------------------------
(* The theorems.                                                             *)

LEMMA TimelineBegins == Init => TimelineInv
<1> SUFFICES ASSUME Init PROVE TimelineInv OBVIOUS
<1>0. /\ MaxTime \in Nat /\ MaxPauses \in Nat /\ NoFile \notin File /\ 0 \in Tick
      /\ now = 1 /\ live = 0 /\ todo = NoWork /\ file = [f \in File |-> NewFile]
      /\ ses = [active |-> FALSE, paused |-> FALSE, resumable |-> FALSE, epoch |-> 0,
                pauses |-> <<>>, duration |-> 0]
  BY TimelineAssumption DEF Init, Tick
<1>1. Typed
  <2>1. <<>> \in Seq(Span) OBVIOUS
  <2>2. ses \in SessionType BY <1>0, <2>1 DEF SessionType
  <2>3. now \in 1..MaxTime BY <1>0, TimelineAssumption
  <2>4. QED BY <1>0, <2>2, <2>3, EmptyTypes DEF Typed
<1>2. \A f \in File : file[f].phase = "new" /\ file[f].out = "off" /\ file[f].started = FALSE
                      /\ file[f].kind = "own" /\ file[f].listed.status = "none"
  BY <1>0 DEF NewFile
<1>3. WorkInv
  <2>1. OpenFiles = {} /\ Shared = {} BY <1>2 DEF OpenFiles, Shared
  <2>2. /\ todo.starting = {} /\ todo.pausing = {} /\ todo.held = NoFile /\ todo.closing = {}
        /\ todo.ending = FALSE /\ todo.fresh = FALSE /\ ses.paused = FALSE
    BY <1>0 DEF NoWork
  <2>3. QED BY <1>0, <2>1, <2>2 DEF WorkInv
<1>4. ClockInv
  <2>1. Len(<<>>) = 0 /\ 1..0 = {} OBVIOUS
  <2>2. PausesInv BY <1>0, <2>1 DEF PausesInv
  <2>3. QED BY <1>0, <2>2 DEF ClockInv, LiveInv
<1>5. \A f \in File : FileInv(f)
  BY <1>2 DEF FileInv, RecorderInv, PlaceInv, LengthInv, VerdictInv
<1>6. QED BY <1>1, <1>3, <1>4, <1>5 DEF TimelineInv

LEMMA TimelineStays == TimelineInv /\ [Next]_vars => TimelineInv'
<1> SUFFICES ASSUME TimelineInv, [Next]_vars PROVE TimelineInv' OBVIOUS
<1>1. CASE \E S \in SUBSET File : Start(S) BY <1>1, StartKeeps, StartFiles DEF TimelineInv
<1>2. CASE \E f \in File, kind \in Kind : StartFile(f, kind) \/ JoinFile(f, kind)
  BY <1>2, StartFileKeeps, StartFileFiles, JoinFileKeeps, JoinFileFiles DEF TimelineInv
<1>3. CASE \E f \in File : Leave(f) \/ CloseFile(f)
  BY <1>3, ClosingKeeps, ClosingFiles DEF TimelineInv
<1>4. CASE \E f \in File : OutputDies(f) BY <1>4, OutputDiesKeeps, OutputDiesFiles DEF TimelineInv
<1>5. CASE \E f \in File, ok \in BOOLEAN : PauseOutput(f, ok)
  BY <1>5, PauseOutputKeeps, PauseOutputFiles DEF TimelineInv
<1>6. CASE \E f \in File, ago \in 0..1 : FirstFrame(f, ago)
  BY <1>6, FirstFrameKeeps, FirstFrameFiles DEF TimelineInv
<1>7. CASE PauseSession BY <1>7, PauseSessionKeeps, SessionStepFiles DEF TimelineInv
<1>8. CASE ReadClock BY <1>8, ReadClockKeeps, ReadClockFiles DEF TimelineInv
<1>9. CASE EndSession BY <1>9, EndSessionKeeps, SessionStepFiles DEF TimelineInv
<1>10. CASE \E resumable \in BOOLEAN : Stop(resumable)
  BY <1>10, StopKeeps, SessionStepFiles DEF TimelineInv
<1>11. CASE \E L \in SUBSET File : Advance(L) BY <1>11, AdvanceKeeps, AdvanceFiles DEF TimelineInv
<1>12. CASE UNCHANGED vars
  <2>1. now' = now /\ ses' = ses /\ file' = file /\ todo' = todo /\ live' = live BY <1>12 DEF vars
  <2>2. Typed /\ Typed' BY <2>1 DEF TimelineInv, Typed
  <2>3. PastStays /\ ClockInv' BY <2>1, <2>2, ClockStays DEF TimelineInv
  <2>4. WorkInv' BY <2>1 DEF TimelineInv, WorkInv, OpenFiles, Shared
  <2>5. \A f \in File : FileInv(f)'
    <3> SUFFICES ASSUME NEW f \in File PROVE FileInv(f)' OBVIOUS
    <3>1. f # NoFile /\ FileInv(f) BY TimelineAssumption DEF TimelineInv
    <3>2. Untouched(f) BY <2>1, <2>3 DEF Untouched
    <3>3. QED BY <2>2, <3>1, <3>2, UntouchedKeeps
  <2>6. QED BY <2>2, <2>3, <2>4, <2>5 DEF TimelineInv
<1>13. QED
  BY <1>1, <1>2, <1>3, <1>4, <1>5, <1>6, <1>7, <1>8, <1>9, <1>10, <1>11, <1>12 DEF Next

LEMMA TimelineAlways == Spec => []TimelineInv
BY TimelineBegins, TimelineStays, PTL DEF Spec

\* iso-session.cpp:293: the session's clock is its wall clock without the pauses, and
\* so is its duration; the types, and what a handler works on.
THEOREM SessionClockSkipsPauses == Spec => []ClockSkipsPauses
<1>1. TimelineInv => ClockSkipsPauses
  <2> SUFFICES ASSUME TimelineInv PROVE ClockSkipsPauses OBVIOUS
  <2>0. Typed /\ WorkInv /\ ClockInv BY DEF TimelineInv
  <2>1. \A f \in File : file[f].pausedNs \in Tick /\ file[f].offset \in Tick
                        /\ file[f].listed.duration \in Tick
    BY Basics, FileNumbers
  <2>2. TypeOK BY <2>0, <2>1, Basics DEF TypeOK, Typed, SessionType, Tick, WorkInv, ClockInv, PausesInv
  <2>3. ASSUME ses.epoch # 0 PROVE Elapsed(now) = live
    <3>1. ses.epoch <= now /\ LiveAt(now) = live BY <2>0, <2>3 DEF ClockInv, LiveInv
    <3>2. PausedBefore(now) \in Nat BY <2>0, Basics, PausedBeforeNat
    <3>3. Minus(now, ses.epoch) = now - ses.epoch /\ now - ses.epoch \in Tick BY <3>1, Basics, MinusIs
    <3>4. PausedBefore(now) <= now - ses.epoch /\ now - ses.epoch - PausedBefore(now) = live
      BY <3>1, <3>2, Basics DEF LiveAt
    <3>5. PausedBefore(now) \in Tick BY <3>2, <3>3, <3>4, Basics DEF Tick
    <3>6. QED BY <3>3, <3>4, <3>5, MinusIs DEF Elapsed
  <2>4. QED BY <2>0, <2>2, <2>3 DEF ClockSkipsPauses, ClockInv
<1>2. QED BY <1>1, TimelineAlways, PTL

LEMMA OffsetsAreNumbers == ASSUME TimelineInv, NEW f \in File PROVE OffsetOf(f) \in Nat
<1>1. OffsetFor(file[f]) \in Tick BY OffsetsAre DEF TimelineInv, OffsetsRight
<1>2. file[f].listed.offset \in Tick BY Basics, FileNumbers
<1>3. QED BY <1>1, <1>2, Basics DEF OffsetOf

\* iso-session.cpp:367: a file's offset is where the session's timeline stood when the
\* file began, before, in and after pauses, and in a session that was carried on.
THEOREM FilesArePlaced == Spec => []OffsetIsPlace
<1>1. TimelineInv => OffsetIsPlace
  <2> SUFFICES ASSUME TimelineInv, NEW f \in Recorded
               PROVE  OffsetOf(f) \in file[f].place - file[f].slack .. file[f].place + file[f].slack
    BY DEF OffsetIsPlace
  <2>1. f \in File /\ file[f].phase # "new" BY DEF Recorded
  <2>2. Near(OffsetOf(f), file[f].place, file[f].slack) BY <2>1 DEF TimelineInv, FileInv, PlaceInv
  <2>3. file[f].place \in Nat /\ file[f].slack \in Nat BY <2>1, Basics, FileNumbers
  <2>4. QED BY <2>1, <2>2, <2>3, OffsetsAreNumbers DEF Near
<1>2. QED BY <1>1, TimelineAlways, PTL

LEMMA DurationsAreSound ==
    ASSUME TimelineInv, NEW f \in Recorded
    PROVE  Sound(f, DurationOf(f)) /\ DurationOf(f) \in Nat
<1>1. f \in File /\ file[f].phase # "new" /\ Typed /\ FileInv(f) BY DEF Recorded, TimelineInv
<1>2. file[f] \in FileType BY <1>1, Basics
<1>3. CASE file[f].phase = "closed"
  <2>1. file[f].listed.duration \in Nat BY <1>2, FileNumbers
  <2>2. QED BY <1>1, <1>3, <2>1 DEF FileInv, LengthInv, DurationOf
<1>4. CASE file[f].phase = "open"
  <2>1. file[f].startNs \in 1..now BY <1>1, <1>4 DEF FileInv, RecorderInv
  <2>2. Duration(file[f]) \in Tick BY <1>1, <1>2, <2>1, DurationIs, Basics DEF Typed
  <2>3. QED BY <1>1, <1>4, <2>2, OpenIsSound, Basics DEF DurationOf
<1>5. QED BY <1>1, <1>2, <1>3, <1>4, FileNumbers

\* source-recorder.cpp:62-104: a file's duration is what its output recorded, through
\* pauses, refusals and deaths, and no file reaches past the session's clock.
THEOREM FilesKeepTime == Spec => []ClocksAgree
<1>1. TimelineInv => ClocksAgree
  <2> SUFFICES ASSUME TimelineInv PROVE ClocksAgree OBVIOUS
  <2>1. DurationIsRecorded
    <3> SUFFICES ASSUME NEW f \in Recorded
                 PROVE  \/ DurationOf(f) \in file[f].ran - file[f].slack .. file[f].ran + file[f].slack
                        \/ file[f].failed /\ file[f].slack > 0 /\ DurationOf(f) = 0
                        \/ f \in Shared /\ file[f].first = 0
      BY DEF DurationIsRecorded
    <3>1. f \in File BY DEF Recorded
    <3>2. file[f].ran \in Nat /\ file[f].slack \in Nat BY <3>1, Basics, FileNumbers
    <3>3. Sound(f, DurationOf(f)) /\ DurationOf(f) \in Nat BY DurationsAreSound
    <3>4. QED BY <3>1, <3>2, <3>3 DEF Sound, Near, Shared
  <2>2. FilesFitTheSession
    <3> SUFFICES ASSUME NEW f \in Recorded \ Shared, ~file[f].refused
                 PROVE  OffsetOf(f) + DurationOf(f) <= live + file[f].slack
      BY DEF FilesFitTheSession
    <3>1. file[f].kind # "shared" /\ f \in Recorded BY DEF Recorded, Shared
    <3>2. Sound(f, DurationOf(f)) BY <3>1, DurationsAreSound
    <3>3. QED BY <3>1, <3>2 DEF Sound
  <2>3. QED BY <2>1, <2>2 DEF ClocksAgree
<1>2. QED BY <1>1, TimelineAlways, PTL

LEMMA LongerIsMore ==
    ASSUME NEW k \in Nat, NEW a \in Int, NEW b \in Int, a <= b PROVE k * a <= k * b /\ k * a \in Int
BY SMT

\* iso-session.cpp:161-180: an encoder is blamed for the frames that it lost, and for
\* nothing else, however often its file was paused, and at half rate.
THEOREM VerdictsAreJust == Spec => []VerdictIsJust
<1>1. TimelineInv => VerdictIsJust
  <2> SUFFICES ASSUME TimelineInv PROVE VerdictIsJust OBVIOUS
  <2>1. ASSUME NEW f \in Recorded, file[f].listed.status \in {"aborted", "complete"}
        PROVE  LET r == file[f]
                   d == r.listed.duration
               IN  /\ {r.ran, r.slack, r.frames, d, Rate[r.kind]} \subseteq Nat
                   /\ r.listed.status = "aborted" <=> Shortfall(r.frames, d, Rate[r.kind])
                   /\ (r.kind = "shared" /\ r.first = 0) => r.ran = 0
                   /\ (r.kind = "shared" /\ r.first = 0) \/ Near(d, r.ran, r.slack)
    <3>1. f \in File /\ file[f] \in FileType BY Basics DEF Recorded
    <3>2. FileInv(f) /\ file[f].phase = "closed" BY <2>1, <3>1 DEF TimelineInv, FileInv, VerdictInv
    <3>3. Rate[file[f].kind] \in Nat BY <3>1, FileNumbers, TimelineAssumption
    <3>4. Sound(f, file[f].listed.duration) BY <3>2 DEF FileInv, LengthInv
    <3>5. ~file[f].failed /\ (file[f].listed.status = "aborted"
                       <=> Shortfall(file[f].frames, file[f].listed.duration, Rate[file[f].kind]))
          /\ ((file[f].kind = "shared" /\ file[f].first = 0) => file[f].ran = 0)
      BY <2>1, <3>2 DEF FileInv, VerdictInv
    <3>6. {file[f].ran, file[f].slack, file[f].frames, file[f].listed.duration} \subseteq Nat
      BY <3>1, FileNumbers
    <3>7. QED BY <3>3, <3>4, <3>5, <3>6 DEF Sound
  <2>2. HealthyIsComplete
    <3> SUFFICES ASSUME NEW f \in Recorded, file[f].listed.status = "aborted",
                        f \in Shared => file[f].first # 0
                 PROVE  100 * (Rate[file[f].kind] * (file[f].ran + file[f].slack) - file[f].frames)
                            > Ramp * Rate[file[f].kind]
      BY DEF HealthyIsComplete
    <3> DEFINE d == file[f].listed.duration
               k == Rate[file[f].kind]
               n == file[f].frames
               m == file[f].ran + file[f].slack
    <3>1. /\ {file[f].ran, file[f].slack, n, d, k} \subseteq Nat
          /\ Shortfall(n, d, k)
          /\ (file[f].kind = "shared" /\ file[f].first = 0) \/ Near(d, file[f].ran, file[f].slack)
      BY <2>1
    <3>2. d <= m /\ m \in Nat
      <4>1. ~(file[f].kind = "shared" /\ file[f].first = 0) BY DEF Recorded, Shared
      <4>2. QED BY <3>1, <4>1 DEF Near
    <3>3. Ramp \in Nat /\ Share \in Nat BY TimelineAssumption
    <3>4. k * d <= k * m /\ k * d \in Int /\ k * m \in Int /\ Ramp * k \in Int /\ (Share * k) * d \in Int
      BY <3>1, <3>2, <3>3, LongerIsMore
    <3>5. 100 * (k * d - n) > Larger(Share * k * d, Ramp * k) BY <3>1 DEF Shortfall
    <3>6. 100 * (k * d - n) > Ramp * k
      <4> DEFINE x == Share * k * d
                 y == Ramp * k
                 z == 100 * (k * d - n)
      <4>1. x \in Int /\ y \in Int /\ z \in Int /\ z > Larger(x, y) BY <3>1, <3>4, <3>5
      <4> HIDE DEF x, y, z
      <4>2. z > y BY <4>1 DEF Larger
      <4>3. QED BY <4>2 DEF y, z
    <3> DEFINE p == k * d
               q == k * m
               y == Ramp * k
    <3>7. p <= q /\ p \in Int /\ q \in Int /\ y \in Int /\ n \in Nat /\ 100 * (p - n) > y
      BY <3>1, <3>4, <3>6
    <3> HIDE DEF p, q, y
    <3>8. 100 * (q - n) > y BY <3>7
    <3>9. QED BY <3>8 DEF q, y
  <2>3. LossyIsNamed
    <3> SUFFICES ASSUME NEW f \in Recorded, file[f].listed.status = "complete",
                        file[f].ran - file[f].slack >= JudgedFrom
                 PROVE  100 * (Rate[file[f].kind] * (file[f].ran - file[f].slack) - file[f].frames)
                            <= Larger(Share * Rate[file[f].kind] * (file[f].ran + file[f].slack),
                                      Ramp * Rate[file[f].kind])
      BY DEF LossyIsNamed
    <3> DEFINE d == file[f].listed.duration
               k == Rate[file[f].kind]
               n == file[f].frames
               l == file[f].ran - file[f].slack
               m == file[f].ran + file[f].slack
    <3>1. /\ {file[f].ran, file[f].slack, n, d, k} \subseteq Nat
          /\ ~Shortfall(n, d, k)
          /\ (file[f].kind = "shared" /\ file[f].first = 0) => file[f].ran = 0
          /\ (file[f].kind = "shared" /\ file[f].first = 0) \/ Near(d, file[f].ran, file[f].slack)
      BY <2>1
    <3>2. /\ {Ramp, Share, JudgedFrom} \subseteq Nat /\ l \in Int /\ m \in Nat /\ l >= JudgedFrom
          /\ Share * k \in Nat /\ Ramp * k \in Nat
      BY <3>1, TimelineAssumption
    <3>3. CASE Near(d, file[f].ran, file[f].slack)
      <4>1. l <= d /\ d <= m /\ d >= JudgedFrom BY <3>1, <3>2, <3>3 DEF Near
      <4> DEFINE e == k * l
                 p == k * d
                 x == (Share * k) * d
                 w == (Share * k) * m
                 y == Ramp * k
      <4>2. e <= p /\ e \in Int /\ p \in Int BY <3>1, <3>2, <4>1, LongerIsMore
      <4>3. x <= w /\ x \in Int /\ w \in Int
        <5> DEFINE c == Share * k
        <5>1. c \in Nat /\ d \in Int /\ m \in Int /\ d <= m BY <3>1, <3>2, <4>1
        <5> HIDE DEF c, d, m
        <5>2. c * d <= c * m /\ c * d \in Int /\ c * m \in Int BY <5>1, LongerIsMore
        <5>3. QED BY <5>2 DEF c
      <4>4. 100 * (p - n) <= Larger(x, y)
        <5>1. ~(100 * (p - n) > Larger(x, y)) BY <3>1, <4>1 DEF Shortfall
        <5>2. n \in Nat /\ y \in Int BY <3>1, <3>2
        <5> HIDE DEF p, x, y, n
        <5>3. QED BY <4>2, <4>3, <5>1, <5>2 DEF Larger
      <4>5. n \in Nat /\ y \in Int BY <3>1, <3>2
      <4>6. 100 * (e - n) <= Larger(w, y)
        <5> HIDE DEF e, p, x, w, y, n
        <5>1. QED BY <4>2, <4>3, <4>4, <4>5 DEF Larger
      <4>7. QED BY <4>6
    <3>4. CASE file[f].ran = 0
      <4>1. l = 0 BY <3>1, <3>2, <3>4
      <4>2. 100 * (k * l - n) <= 0 BY <3>1, <4>1
      <4> DEFINE w == (Share * k) * m
                 y == Ramp * k
      <4>3. Larger(w, y) >= 0 /\ Larger(w, y) \in Int
        <5>1. y \in Nat /\ w \in Int BY <3>1, <3>2
        <5> HIDE DEF w, y
        <5>2. QED BY <5>1 DEF Larger
      <4>4. 100 * (k * l - n) \in Int BY <3>1, <3>2
      <4>5. QED BY <4>2, <4>3, <4>4
    <3>5. QED BY <3>1, <3>3, <3>4
  <2>4. QED BY <2>2, <2>3 DEF VerdictIsJust
<1>2. QED BY <1>1, TimelineAlways, PTL

\* A step that changes no file but f, which keeps its place or is closed.
LEMMA PlacesStay ==
    ASSUME TimelineInv, Typed', PastStays, NEW f \in OpenFiles, file'[f].first = file[f].first,
           \/ file'[f].phase = "open" /\ file'[f].kind = file[f].kind /\ file'[f].offset = file[f].offset
           \/ file'[f] = Closed(f)
    PROVE  OffsetOf(f)' = OffsetOf(f)
<1>1. /\ f \in File /\ Typed /\ file[f].phase = "open" /\ RecorderInv(f)
      /\ StartOffset(file[f]) + ses.epoch <= now
  BY DEF TimelineInv, OpenFiles, FileInv, RecorderInv
<1>2. CASE file'[f].phase = "open" /\ file'[f].kind = file[f].kind /\ file'[f].offset = file[f].offset
  BY <1>1, <1>2, OffsetKept DEF OffsetOf
<1>3. CASE file'[f] = Closed(f)
  <2>1. Closed(f).phase = "closed" /\ Closed(f).listed.offset = OffsetFor(file[f]) BY <1>1, ClosedIs
  <2>2. QED BY <1>1, <1>3, <2>1 DEF OffsetOf
<1>4. QED BY <1>2, <1>3

\* docs/spec.md:200-201: "so the editor places the clip exactly": a later pause, stop or
\* start of other files does not move a file, and it closes where it was.
THEOREM PlacedFilesStay == Spec => OffsetsStay
<1>1. TimelineInv /\ [Next]_vars
        => [\A f \in OpenFiles : file'[f].first = file[f].first => OffsetOf(f)' = OffsetOf(f)]_vars
  <2> SUFFICES ASSUME TimelineInv, Next, NEW f \in OpenFiles, file'[f].first = file[f].first
               PROVE  OffsetOf(f)' = OffsetOf(f)
    OBVIOUS
  <2>0. f \in File /\ file[f].phase = "open" /\ file[f] \in FileType /\ WorkInv
    BY Basics DEF OpenFiles, TimelineInv
  <2>1. CASE \E S \in SUBSET File : Start(S)
    <3>1. ses.active = FALSE BY <2>1, Basics DEF Start, SessionType
    <3>2. QED BY <2>0, <3>1 DEF WorkInv, OpenFiles
  <2>2. ASSUME NEW g \in File, NEW kind \in Kind, StartFile(g, kind) \/ JoinFile(g, kind)
        PROVE  OffsetOf(f)' = OffsetOf(f)
    <3>1. Typed' /\ PastStays BY <2>2, StartFileKeeps, JoinFileKeeps
    <3>2. g # f BY <2>0, <2>2 DEF StartFile, JoinFile, WorkInv
    <3>3. file'[f] = file[f] BY <2>0, <2>2, <3>2, Basics DEF StartFile, JoinFile, Opened
    <3>4. QED BY <2>0, <3>1, <3>3, PlacesStay
  <2>3. ASSUME NEW g \in File, Leave(g) \/ CloseFile(g) PROVE OffsetOf(f)' = OffsetOf(f)
    <3>1. Typed' /\ PastStays BY <2>3, ClosingKeeps
    <3>2. file' = [file EXCEPT ![g] = Closed(g)] BY <2>3 DEF Leave, CloseFile
    <3>3. file'[f] = file[f] \/ file'[f] = Closed(f) BY <2>0, <3>2, Basics
    <3>4. QED BY <2>0, <3>1, <3>3, PlacesStay
  <2>4. ASSUME NEW g \in File, Typed', PastStays, SamePlaces(g) PROVE OffsetOf(f)' = OffsetOf(f)
    <3>1. file'[f].phase = "open" /\ file'[f].kind = file[f].kind /\ file'[f].offset = file[f].offset
      BY <2>0, <2>4 DEF SamePlaces
    <3>2. QED BY <2>4, <3>1, PlacesStay
  <2>5. CASE \E g \in File : OutputDies(g) BY <2>4, <2>5, OutputDiesKeeps
  <2>6. CASE \E g \in File, ok \in BOOLEAN : PauseOutput(g, ok) BY <2>4, <2>6, PauseOutputKeeps
  <2>7. CASE \E g \in File, ago \in 0..1 : FirstFrame(g, ago) BY <2>4, <2>7, FirstFrameKeeps
  <2>8. CASE ReadClock
    <3>1. todo.held \in File BY <2>0, <2>8 DEF ReadClock, WorkInv, OpenFiles
    <3>2. QED BY <2>4, <2>8, <3>1, ReadClockKeeps
  <2>9. CASE PauseSession \/ EndSession \/ \E resumable \in BOOLEAN : Stop(resumable)
    <3>1. Typed' /\ PastStays BY <2>9, PauseSessionKeeps, EndSessionKeeps, StopKeeps
    <3>2. file' = file BY <2>9 DEF PauseSession, EndSession, Stop
    <3>3. QED BY <2>0, <3>1, <3>2, PlacesStay
  <2>10. CASE \E L \in SUBSET File : Advance(L)
    <3>1. PICK L \in SUBSET File : Advance(L) BY <2>10
    <3>2. Typed' /\ PastStays /\ Ticked(f, L) BY <2>0, <3>1, AdvanceKeeps
    <3>3. file'[f].phase = "open" /\ file'[f].kind = file[f].kind /\ file'[f].offset = file[f].offset
      BY <2>0, <3>2 DEF Ticked
    <3>4. QED BY <3>2, <3>3, PlacesStay
  <2>11. QED
    BY <2>1, <2>2, <2>3, <2>5, <2>6, <2>7, <2>8, <2>9, <2>10 DEF Next
<1>2. QED BY <1>1, TimelineAlways, PTL DEF Spec, OffsetsStay
=============================================================================
