--------------------------- MODULE UpdateCycleProofs ---------------------------
(***************************************************************************)
(* Theorems about UpdateCycle, for any set of pages, links, redirections,   *)
(* refresh intervals and number of cycles.                                 *)
(*                                                                         *)
(* DisappearedIsUnlinked needs the most.  A redirection moves the rows      *)
(* below the old url, so a page that a fetched page links to might end up   *)
(* below a parent that never linked to it.  It does not, because of an      *)
(* order: a redirected url leaves the queue before anything is recorded     *)
(* under it (Untouched), and what is queued is not queued twice (QueueOnce),*)
(* so that the url that disappears is never the parent of a linked page.    *)
(***************************************************************************)
EXTENDS UpdateCycle, FiniteSetTheorems, FunctionTheorems, SequenceTheorems, TLAPS

Row ==
    [parent : Pages \cup {NoPage}, active : BOOLEAN, gone : BOOLEAN,
     status : {"none", "unverified", "failed", "verified_live", "verified_placeholder"},
     crawled : Nat, success : Nat]

Record ==
    [page : Pages, auth : BOOLEAN, fresh : {"current", "contradictory", "removed", "unknown"},
     serving : Queryable \cup {"ineligible", "pending_deindex", "deindexed"}]

Registry(g) == DOMAIN g \subseteq Pages /\ g \in [DOMAIN g -> Row]

Records(rs) == DOMAIN rs \subseteq Pages /\ rs \in [DOMAIN rs -> Record]

TypeOK ==
    /\ Registry(reg) /\ Records(recs)
    /\ today \in Nat
    /\ queue \in Seq(Pages) /\ processed \subseteq Pages
    /\ DOMAIN found \subseteq Pages /\ found \in [DOMAIN found -> SUBSET Pages]

(* A url is queued once in a cycle, and is registered when its turn comes. *)
Once(q) == \A i, j \in DOMAIN q : q[i] = q[j] => i = j

QueueOnce == Once(queue) /\ Range(queue) \subseteq DOMAIN reg \ processed

Sourced(g, rs) == \A r \in DOMAIN rs : rs[r].page \in DOMAIN g

(* In every phase an authoritative record is current and, if its type is   *)
(* removable, the page it is from is active.                               *)
Alive(g, rs) ==
    \A r \in DOMAIN rs : rs[r].auth =>
        /\ rs[r].fresh = "current"
        /\ r \in Removable => g[rs[r].page].active

(* Nothing was found on a page that a redirection can still take away.     *)
Untouched == \A p \in DOMAIN found : p \in processed \/ Redirects[p] = {}

(* What a fetched page links to is below a fetched page that links to it,  *)
(* or it was redirected since.                                             *)
Linked(g, fs) ==
    \A p \in DOMAIN fs : \A u \in fs[p] :
        IF u \in DOMAIN g
        THEN g[u].parent \in DOMAIN fs /\ u \in fs[g[u].parent]
        ELSE Redirects[u] # {}

CycleInv ==
    /\ TypeOK /\ QueueOnce
    /\ Sourced(reg, recs) /\ Alive(reg, recs)
    /\ Untouched /\ Linked(reg, found)

----------------------------------------------------------------------------
(* The order of the crawl.                                                  *)

(* The urls above a url are fewer than those above a less urgent one: the   *)
(* priorities of any set of urls order it, and Sorted denotes its order.   *)
LEMMA SortedIs ==
    ASSUME NEW S \in SUBSET Pages
    PROVE  Sorted(S) \in Seq(S) /\ Once(Sorted(S))
<1> DEFINE n == Cardinality(S)
           Above(u) == {v \in S : Priority[v] < Priority[u]}
           rank == [u \in S |-> Cardinality(Above(u)) + 1]
           q == [i \in 1 .. n |-> CHOOSE u \in S : rank[u] = i]
           InOrder(s) == \A i, j \in DOMAIN s : i < j => Priority[s[i]] < Priority[s[j]]
<1>1. IsFiniteSet(S) /\ n \in Nat
      BY PagesAssumption, FS_Subset, FS_CardinalityType
<1>2. \A u \in S : Priority[u] \in Nat
      BY PriorityAssumption
<1>3. \A u \in S : /\ IsFiniteSet(Above(u))
                   /\ Cardinality(Above(u)) \in Nat /\ Cardinality(Above(u)) + 1 \in 1 .. n
      <2> TAKE u \in S
      <2>1. Above(u) \in SUBSET S /\ u \notin Above(u)
            BY <1>2
      <2>2. /\ IsFiniteSet(Above(u))
            /\ Cardinality(Above(u)) <= n
            /\ n = Cardinality(Above(u)) => S = Above(u)
            BY <1>1, <2>1, FS_Subset
      <2>3. Cardinality(Above(u)) \in Nat
            BY <2>2, FS_CardinalityType
      <2> HIDE DEF n, Above
      <2> QED BY <1>1, <2>1, <2>2, <2>3
<1>4. \A u, v \in S : Priority[u] < Priority[v] => rank[u] < rank[v]
      <2> SUFFICES ASSUME NEW u \in S, NEW v \in S, Priority[u] < Priority[v]
                   PROVE  Cardinality(Above(u)) + 1 < Cardinality(Above(v)) + 1
          OBVIOUS
      <2>1. Above(u) \in SUBSET Above(v) /\ u \in Above(v) /\ u \notin Above(u)
            BY <1>2
      <2>2. /\ Cardinality(Above(u)) <= Cardinality(Above(v))
            /\ Cardinality(Above(v)) = Cardinality(Above(u)) => Above(v) = Above(u)
            BY <1>3, <2>1, FS_Subset
      <2>3. Cardinality(Above(u)) \in Nat /\ Cardinality(Above(v)) \in Nat
            BY <1>3
      <2> HIDE DEF Above
      <2> QED BY <2>1, <2>2, <2>3
<1>5. \A u, v \in S : u # v => Priority[u] < Priority[v] \/ Priority[v] < Priority[u]
      BY <1>2, PriorityAssumption
<1>6. rank \in [S -> 1 .. n] /\ \A u \in S : rank[u] \in Nat
      BY <1>3
<1> HIDE DEF rank, n, Above
<1>7. rank \in Injection(S, 1 .. n)
      <2>1. \A u, v \in S : rank[u] = rank[v] => u = v
            BY <1>4, <1>5, <1>6
      <2> QED BY <1>6, <2>1, Fun_IsInj
<1>8. rank \in Surjection(S, 1 .. n)
      <2>1. IsFiniteSet(1 .. n) /\ Cardinality(1 .. n) = n
            BY <1>1, FS_Interval
      <2> QED BY <1>7, <2>1, FS_Injection DEF n
<1>9. \A i \in 1 .. n : q[i] \in S /\ rank[q[i]] = i
      <2>1. \A i \in 1 .. n : \E u \in S : rank[u] = i
            BY <1>8, Fun_SurjectionProperties
      <2> QED BY <2>1
<1>10. q \in [1 .. n -> S] /\ InOrder(q)
      BY <1>1, <1>4, <1>5, <1>6, <1>9
<1>11. Sorted(S) \in [1 .. n -> S] /\ InOrder(Sorted(S))
      BY <1>10 DEF Sorted, n
<1> HIDE DEF q
<1> QED BY <1>1, <1>2, <1>11, SeqDef DEF Once

LEMMA SelectedIs ==
    ASSUME NEW entries, DOMAIN entries \subseteq Pages, NEW now
    PROVE  /\ SelectSources(entries, now) \in Seq(Pages)
           /\ Once(SelectSources(entries, now))
           /\ Range(SelectSources(entries, now)) \subseteq DOMAIN entries
<1> DEFINE S == {u \in DOMAIN entries : IsCrawlable(u, entries[u]) /\ IsRefreshDue(u, entries[u], now)}
<1>1. S \in SUBSET Pages /\ S \subseteq DOMAIN entries
      OBVIOUS
<1>2. SelectSources(entries, now) = Sorted(S)
      BY DEF SelectSources
<1> HIDE DEF S
<1>3. Sorted(S) \in Seq(S) /\ Once(Sorted(S))
      BY <1>1, SortedIs
<1>4. Sorted(S) \in Seq(Pages) /\ Range(Sorted(S)) \in SUBSET S
      BY <1>1, <1>3, SeqMonotonic, RangeOfSeq
<1> QED BY <1>1, <1>2, <1>3, <1>4

LEMMA TailIsOnce ==
    ASSUME NEW q \in Seq(Pages), q # << >>, Once(q)
    PROVE  /\ Tail(q) \in Seq(Pages) /\ Once(Tail(q))
           /\ Range(Tail(q)) \subseteq Range(q) \ {Head(q)}
           /\ Head(q) \in Range(q) /\ Head(q) \in Pages
<1> DEFINE n == Len(q)
           rest == Tail(q)
<1>1. n \in Nat /\ n >= 1 /\ DOMAIN q = 1 .. n
      BY EmptySeq, LenProperties
<1>2. rest \in Seq(Pages) /\ Len(rest) = n - 1 /\ Head(q) = q[1] /\ Head(q) \in Pages
      BY HeadTailProperties
<1>3. DOMAIN rest = 1 .. n - 1
      BY <1>2, LenProperties
<1>4. \A i \in 1 .. n - 1 : rest[i] = q[i + 1]
      BY <1>2, HeadTailProperties
<1> HIDE DEF n, rest
<1>5. \A i \in 1 .. n - 1 : i + 1 \in DOMAIN q /\ 1 \in DOMAIN q /\ i + 1 # 1
      BY <1>1
<1>6. \A i, j \in 1 .. n - 1 : i + 1 = j + 1 => i = j
      BY <1>1
<1>7. Once(rest)
      BY <1>3, <1>4, <1>5, <1>6 DEF Once
<1>8. \A i \in DOMAIN rest : rest[i] # Head(q) /\ \E j \in DOMAIN q : rest[i] = q[j]
      BY <1>2, <1>3, <1>4, <1>5 DEF Once
<1>9. 1 \in DOMAIN q
      BY <1>1
<1> QED BY <1>2, <1>7, <1>8, <1>9 DEF rest, Range

LEMMA ConcatIsOnce ==
    ASSUME NEW s \in Seq(Pages), NEW t \in Seq(Pages), Once(s), Once(t),
           Range(s) \cap Range(t) = {}
    PROVE  /\ s \o t \in Seq(Pages) /\ Once(s \o t)
           /\ Range(s \o t) = Range(s) \cup Range(t)
<1> DEFINE c == s \o t
           m == Len(s)
           n == Len(t)
<1>1. c \in Seq(Pages) /\ Len(c) = m + n
      BY ConcatProperties
<1>2. /\ m \in Nat /\ n \in Nat
      /\ DOMAIN s = 1 .. m /\ DOMAIN t = 1 .. n /\ DOMAIN c = 1 .. m + n
      BY <1>1, LenProperties
<1>3. \A i \in 1 .. m + n : c[i] = IF i <= m THEN s[i] ELSE t[i - m]
      BY ConcatProperties
<1>4. \A i \in DOMAIN s : \A j \in DOMAIN t : s[i] # t[j]
      BY DEF Range
<1>5. Range(c) = Range(s) \cup Range(t)
      BY RangeConcatenation
<1> HIDE DEF c, m, n
<1>6. \A i \in DOMAIN c : /\ i <= m => i \in DOMAIN s /\ c[i] = s[i]
                          /\ ~ (i <= m) => i - m \in DOMAIN t /\ c[i] = t[i - m]
      BY <1>2, <1>3
<1>7. \A i, j \in DOMAIN c : i - m = j - m => i = j
      BY <1>2
<1>8. ASSUME NEW i \in DOMAIN c, NEW j \in DOMAIN c, c[i] = c[j]
      PROVE  i = j
      <2>1. CASE i <= m /\ j <= m
            BY <1>6, <1>8, <2>1 DEF Once
      <2>2. CASE ~ (i <= m) /\ ~ (j <= m)
            BY <1>6, <1>7, <1>8, <2>2 DEF Once
      <2>3. CASE i <= m /\ ~ (j <= m)
            BY <1>4, <1>6, <1>8, <2>3
      <2>4. CASE ~ (i <= m) /\ j <= m
            BY <1>4, <1>6, <1>8, <2>4
      <2> QED BY <2>1, <2>2, <2>3, <2>4
<1> QED BY <1>1, <1>5, <1>8 DEF Once, c

(* A turn takes the first job and appends new ones, each of them once. *)
GoneOn(q, entries, done) == Tail(q) \o NewJobs(entries, Tail(q), done)

LEMMA QueueGoesOn ==
    ASSUME NEW q \in Seq(Pages), q # << >>, Once(q),
           NEW entries, DOMAIN entries \subseteq Pages,
           NEW done, \A u \in Range(q) : u \in done => u = Head(q),
           NEW next, next = GoneOn(q, entries, done)
    PROVE  /\ next \in Seq(Pages) /\ Once(next)
           /\ Range(next) \subseteq (Range(q) \cup DOMAIN entries) \ done
<1> DEFINE rest == Tail(q)
           new == NewJobs(entries, rest, done)
           asked == [v \in DOMAIN entries \ (done \cup {rest[i] : i \in DOMAIN rest})
                        |-> entries[v]]
<1>1. /\ rest \in Seq(Pages) /\ Once(rest)
      /\ Range(rest) \subseteq Range(q) \ {Head(q)}
      BY TailIsOnce
<1>2. new \in Seq(Pages) /\ Once(new) /\ Range(new) \subseteq DOMAIN asked
      <2>1. DOMAIN asked \subseteq Pages
            OBVIOUS
      <2>2. new = SelectSources(asked, today)
            BY DEF NewJobs
      <2> HIDE DEF new, asked
      <2> QED BY <2>1, <2>2, SelectedIs
<1>3. DOMAIN asked = DOMAIN entries \ (done \cup Range(rest))
      BY DEF Range
<1>4. next = rest \o new
      BY DEF GoneOn
<1> HIDE DEF rest, new, asked
<1>5. Range(rest) \cap Range(new) = {}
      BY <1>2, <1>3
<1>6. next \in Seq(Pages) /\ Once(next) /\ Range(next) = Range(rest) \cup Range(new)
      BY <1>1, <1>2, <1>4, <1>5, ConcatIsOnce
<1> QED BY <1>1, <1>2, <1>3, <1>6

(* A cycle's selection is cut off at its limit. *)
LEMMA CutOff ==
    ASSUME NEW q \in Seq(Pages), Once(q), NEW limit \in Nat, limit < Len(q)
    PROVE  /\ SubSeq(q, 1, limit) \in Seq(Pages) /\ Once(SubSeq(q, 1, limit))
           /\ Range(SubSeq(q, 1, limit)) \subseteq Range(q)
<1> DEFINE c == SubSeq(q, 1, limit)
<1>1. Len(q) \in Nat /\ DOMAIN q = 1 .. Len(q) /\ \A i \in 1 .. Len(q) : q[i] \in Pages
      BY LenProperties
<1>2. \A i \in 1 .. limit : i \in DOMAIN q /\ q[i] \in Pages
      BY <1>1
<1>3. /\ c \in Seq(Pages) /\ Len(c) = limit
      /\ \A i \in 1 .. limit : c[i] = q[i]
      BY <1>2, SubSeqProperties
<1>4. DOMAIN c = 1 .. limit
      BY <1>3, LenProperties
<1> HIDE DEF c
<1>5. Once(c) /\ Range(c) \subseteq Range(q)
      BY <1>2, <1>3, <1>4 DEF Once, Range
<1> QED BY <1>3, <1>5 DEF c

----------------------------------------------------------------------------
(* The registry and the records.                                            *)

LEMMA UpsertedIs ==
    ASSUME NEW g, Registry(g), NEW D \in SUBSET Pages, NEW entries \in [D -> Row],
           \A u \in D : entries[u].active,
           NEW h, h = Upserted(g, entries)
    PROVE  /\ Registry(h) /\ \A u : u \in DOMAIN h <=> u \in DOMAIN g \/ u \in D
           /\ \A u \in D : h[u].active /\ h[u].parent = entries[u].parent
           /\ \A u \in DOMAIN g : u \notin D => h[u] = g[u]
<1>1. DOMAIN entries = D /\ DOMAIN g \subseteq Pages
      BY DEF Registry
<1>2. DOMAIN h = DOMAIN g \cup D
      BY <1>1 DEF Upserted
<1>3. ASSUME NEW u \in DOMAIN h
      PROVE  /\ h[u] \in Row
             /\ u \in D => h[u].active /\ h[u].parent = entries[u].parent
             /\ u \notin D => h[u] = g[u]
      <2>1. CASE u \notin DOMAIN g
            <3>1. u \in D /\ h[u] = entries[u]
                  BY <1>1, <1>2, <1>3, <2>1 DEF Upserted
            <3> QED BY <2>1, <3>1
      <2>2. CASE u \in DOMAIN g /\ u \notin D
            <3>1. h[u] = g[u]
                  BY <1>1, <1>2, <1>3, <2>2 DEF Upserted
            <3> QED BY <2>2, <3>1 DEF Registry
      <2>3. CASE u \in DOMAIN g /\ u \in D
            <3>1. h[u] = [g[u] EXCEPT !.active = TRUE, !.parent = entries[u].parent,
                             !.status = IF entries[u].status # "none"
                                        THEN entries[u].status ELSE @]
                  BY <1>1, <1>2, <1>3, <2>3 DEF Upserted
            <3>2. g[u] \in Row /\ entries[u] \in Row
                  BY <2>3 DEF Registry
            <3> QED BY <2>3, <3>1, <3>2 DEF Row
      <2> QED BY <2>1, <2>2, <2>3
<1>4. h \in [DOMAIN h -> Row]
      <2>1. h = [u \in DOMAIN h |-> h[u]]
            BY <1>1, <1>2 DEF Upserted
      <2> QED BY <1>3, <2>1
<1>5. Registry(h)
      BY <1>1, <1>2, <1>4 DEF Registry
<1> QED BY <1>2, <1>3, <1>5

(* The row of the old url is gone, its children are below the new url; of   *)
(* the other rows only the activity of the one it is merged into changes.  *)
LEMMA ReboundIs ==
    ASSUME NEW g, Registry(g), NEW old \in DOMAIN g, NEW new \in Pages, new # old,
           NEW h, h = Rebound(g, old, new)
    PROVE  /\ Registry(h)
           /\ \A u : u \in DOMAIN h <=> (u \in DOMAIN g /\ u # old) \/ u = new
           /\ \A u \in DOMAIN g \ {old} :
                  /\ h[u].parent = IF g[u].parent = old THEN new ELSE g[u].parent
                  /\ g[u].active => h[u].active
           /\ g[old].active => h[new].active
<1> DEFINE Merged(u) == [g[u] EXCEPT !.active = @ \/ g[old].active,
                            !.crawled = Later(@, g[old].crawled),
                            !.success = Later(@, g[old].success)]
           row(u) == IF u # new THEN g[u] ELSE IF u \notin DOMAIN g THEN g[old] ELSE Merged(u)
<1>1. DOMAIN h = (DOMAIN g \ {old}) \cup {new}
      BY DEF Rebound
<1>2. h = [u \in (DOMAIN g \ {old}) \cup {new} |->
                [row(u) EXCEPT !.parent = IF @ = old THEN new ELSE @]]
      BY DEF Rebound
<1>3. \A u \in DOMAIN g : g[u] \in Row
      BY DEF Registry
<1>4. new \in DOMAIN g => /\ Merged(new) \in Row /\ Merged(new).parent = g[new].parent
                          /\ g[old].active \/ g[new].active => Merged(new).active
      <2> SUFFICES ASSUME new \in DOMAIN g
                   PROVE  /\ Merged(new) \in Row /\ Merged(new).parent = g[new].parent
                          /\ g[old].active \/ g[new].active => Merged(new).active
          OBVIOUS
      <2>1. g[new] \in Row /\ g[old] \in Row
            BY <1>3
      <2> QED BY <2>1 DEF Row, Later
<1> HIDE DEF Merged
<1>5. ASSUME NEW u \in DOMAIN h
      PROVE  /\ h[u] \in Row
             /\ u \in DOMAIN g => /\ h[u].parent = IF g[u].parent = old THEN new ELSE g[u].parent
                                  /\ g[u].active => h[u].active
             /\ u = new /\ g[old].active => h[u].active
      <2>1. row(u) \in Row
            BY <1>1, <1>3, <1>4
      <2>2. u \in DOMAIN g => /\ row(u).parent = g[u].parent
                              /\ g[u].active => row(u).active
            BY <1>4
      <2>3. u = new /\ g[old].active => row(u).active
            BY <1>4
      <2> HIDE DEF row
      <2>4. /\ h[u] \in Row
            /\ h[u].parent = IF row(u).parent = old THEN new ELSE row(u).parent
            /\ h[u].active = row(u).active
            BY <1>1, <1>2, <2>1 DEF Row
      <2> QED BY <2>2, <2>3, <2>4
<1>6. h = [u \in DOMAIN h |-> h[u]]
      BY <1>2
<1>7. Registry(h)
      BY <1>1, <1>5, <1>6 DEF Registry
<1> QED BY <1>1, <1>5, <1>7

LEMMA WithErrorIs ==
    ASSUME NEW g, Registry(g), NEW u \in DOMAIN g, today \in Nat,
           NEW h, h = WithError(g, u)
    PROVE  /\ Registry(h) /\ DOMAIN h = DOMAIN g
           /\ \A v \in DOMAIN g : h[v].parent = g[v].parent /\ h[v].active = g[v].active
<1>1. g \in [DOMAIN g -> Row] /\ \A v \in DOMAIN g : g[v] \in Row
      BY DEF Registry
<1>2. WithError(g, u) = [g EXCEPT ![u] = [@ EXCEPT !.crawled = today, !.status = "failed"]]
      BY <1>1 DEF WithError, Row
<1>3. [g[u] EXCEPT !.crawled = today, !.status = "failed"] \in Row
      BY <1>1 DEF Row
<1>4. WithError(g, u) \in [DOMAIN g -> Row]
      BY <1>1, <1>2, <1>3
<1>5. \A v \in DOMAIN g : /\ WithError(g, u)[v].parent = g[v].parent
                          /\ WithError(g, u)[v].active = g[v].active
      BY <1>1, <1>2 DEF Row
<1> QED BY <1>4, <1>5 DEF Registry

LEMMA WithSuccessIs ==
    ASSUME NEW g, Registry(g), NEW u \in DOMAIN g, NEW any \in BOOLEAN, today \in Nat,
           NEW h, h = WithSuccess(g, u, any)
    PROVE  /\ Registry(h) /\ DOMAIN h = DOMAIN g
           /\ \A v \in DOMAIN g : h[v].parent = g[v].parent /\ (g[v].active => h[v].active)
           /\ h[u].active
<1> DEFINE status == IF u \in Research
                     THEN IF any THEN "verified_live" ELSE "verified_placeholder"
                     ELSE IF any \/ g[u].status \in {"none", "failed"}
                     THEN "verified_live" ELSE g[u].status
           new == [g[u] EXCEPT !.crawled = today, !.success = today, !.gone = FALSE,
                               !.active = TRUE, !.status = status]
<1>1. g \in [DOMAIN g -> Row] /\ \A v \in DOMAIN g : g[v] \in Row
      BY DEF Registry
<1>2. WithSuccess(g, u, any) = [g EXCEPT ![u] = new]
      BY <1>1 DEF WithSuccess, Row
<1>3. status \in {"none", "unverified", "failed", "verified_live", "verified_placeholder"}
      BY <1>1 DEF Row
<1> HIDE DEF status
<1>4. new \in Row /\ new.parent = g[u].parent /\ new.active
      BY <1>1, <1>3 DEF Row
<1> HIDE DEF new
<1>5. WithSuccess(g, u, any) \in [DOMAIN g -> Row]
      BY <1>1, <1>2, <1>4
<1>6. /\ \A v \in DOMAIN g : /\ WithSuccess(g, u, any)[v].parent = g[v].parent
                             /\ g[v].active => WithSuccess(g, u, any)[v].active
      /\ WithSuccess(g, u, any)[u].active
      BY <1>1, <1>2, <1>4
<1> QED BY <1>5, <1>6 DEF Registry

LEMMA MovedIs ==
    ASSUME NEW rs, Records(rs), NEW old, NEW new \in Pages,
           NEW m, m = Moved(rs, old, new)
    PROVE  /\ Records(m) /\ DOMAIN m = DOMAIN rs
           /\ \A r \in DOMAIN rs : /\ m[r].page = IF rs[r].page = old THEN new ELSE rs[r].page
                                   /\ m[r].auth = rs[r].auth /\ m[r].fresh = rs[r].fresh
<1>1. DOMAIN rs \subseteq Pages /\ \A r \in DOMAIN rs : rs[r] \in Record
      BY DEF Records
<1>2. m = [r \in DOMAIN rs |->
              IF rs[r].page = old THEN [rs[r] EXCEPT !.page = new] ELSE rs[r]]
      BY DEF Moved
<1>3. ASSUME NEW r \in DOMAIN rs
      PROVE  /\ m[r] \in Record
             /\ m[r].page = IF rs[r].page = old THEN new ELSE rs[r].page
             /\ m[r].auth = rs[r].auth /\ m[r].fresh = rs[r].fresh
      <2>1. rs[r] \in Record
            BY <1>1
      <2>2. m[r] = IF rs[r].page = old THEN [rs[r] EXCEPT !.page = new] ELSE rs[r]
            BY <1>2
      <2> QED BY <2>1, <2>2 DEF Record
<1>4. m \in [DOMAIN rs -> Record]
      BY <1>2, <1>3
<1> QED BY <1>1, <1>3, <1>4 DEF Records

LEMMA WithCandidateIs ==
    ASSUME NEW rs, Records(rs), NEW u \in Pages, NEW review \in BOOLEAN,
           NEW c, c = WithCandidate(rs, u, review)
    PROVE  /\ Records(c) /\ DOMAIN c \subseteq DOMAIN rs \cup {u}
           /\ c[u].page = u /\ (c[u].auth => c[u].fresh = "current")
           /\ \A r \in DOMAIN rs \ {u} : /\ c[r].page = rs[r].page
                                         /\ c[r].auth => rs[r].auth /\ c[r].fresh = rs[r].fresh
<1> DEFINE Fresh == [page |-> u, auth |-> ~ review,
                     fresh |-> IF review THEN "contradictory" ELSE "current",
                     serving |-> IF review THEN "ineligible" ELSE "eligible"]
           Left(r) == [rs[r] EXCEPT !.auth = FALSE,
                          !.serving = IF @ = "indexed_active" THEN "pending_deindex" ELSE "ineligible"]
<1>1. DOMAIN rs \subseteq Pages /\ \A r \in DOMAIN rs : rs[r] \in Record
      BY DEF Records
<1>2. c = [r \in DOMAIN rs \cup {u} |->
              IF r = u THEN Fresh ELSE IF rs[r].page = u /\ rs[r].auth THEN Left(r) ELSE rs[r]]
      BY DEF WithCandidate
<1>3. Fresh \in Record /\ Fresh.page = u /\ (Fresh.auth => Fresh.fresh = "current")
      BY DEF Record, Queryable
<1>4. \A r \in DOMAIN rs : /\ Left(r) \in Record /\ Left(r).page = rs[r].page
                           /\ Left(r).auth = FALSE
      BY <1>1 DEF Record, Queryable
<1> HIDE DEF Fresh, Left
<1>5. c[u] = Fresh
      BY <1>2
<1>6. ASSUME NEW r \in DOMAIN rs \ {u}
      PROVE  /\ c[r] \in Record /\ c[r].page = rs[r].page
             /\ c[r].auth => rs[r].auth /\ c[r].fresh = rs[r].fresh
      <2>1. c[r] = IF rs[r].page = u /\ rs[r].auth THEN Left(r) ELSE rs[r]
            BY <1>2
      <2> QED BY <1>1, <1>4, <2>1
<1>7. c \in [DOMAIN rs \cup {u} -> Record]
      BY <1>2, <1>3, <1>5, <1>6
<1> QED BY <1>1, <1>3, <1>5, <1>6, <1>7 DEF Records

----------------------------------------------------------------------------
(* The steps.                                                               *)

LEMMA NothingNoted ==
    /\ DOMAIN << >> = {} /\ << >> \in [DOMAIN << >> -> SUBSET Pages]
    /\ << >> \in Seq(Pages) /\ Range(<< >>) = {} /\ Once(<< >>)
<1>1. << >> \in Seq(Pages) /\ DOMAIN << >> = {}
      OBVIOUS
<1>2. Range(<< >>) = {} /\ Once(<< >>)
      BY <1>1 DEF Range, Once
<1>3. << >> \in [{} -> SUBSET Pages]
      BY EmptySeq, LenProperties, SMT
<1> QED BY <1>1, <1>2, <1>3

LEMMA CycleStarts == CycleInit => CycleInv
<1> SUFFICES ASSUME CycleInit PROVE CycleInv
    OBVIOUS
<1>1. PICK delivered \in Ingested :
          /\ reg = [u \in delivered |-> Entry(ParentOf[u], "none")]
          /\ recs = [u \in delivered |-> [page |-> u, auth |-> TRUE, fresh |-> "current",
                                         serving |-> "eligible"]]
      BY DEF CycleInit
<1>2. /\ queue = << >> /\ processed = {} /\ found = << >> /\ today = 0
      BY DEF CycleInit
<1>3. delivered \subseteq Pages /\ \A u \in delivered : ParentOf[u] \in Pages \cup {NoPage}
      BY PagesAssumption
<1>4. /\ DOMAIN reg = delivered /\ Registry(reg)
      /\ \A u \in delivered : reg[u].active
      BY <1>1, <1>3 DEF Registry, Row, Entry
<1>5. /\ DOMAIN recs = delivered /\ Records(recs)
      /\ \A u \in delivered : recs[u].page = u /\ recs[u].fresh = "current"
      BY <1>1, <1>3 DEF Records, Record, Queryable
<1>6. DOMAIN found = {} /\ Range(queue) = {} /\ Once(queue) /\ queue \in Seq(Pages)
      BY <1>2 DEF Range, Once
<1>7. Sourced(reg, recs) /\ Alive(reg, recs)
      BY <1>4, <1>5 DEF Sourced, Alive
<1>8. Untouched /\ Linked(reg, found)
      BY <1>6 DEF Untouched, Linked
<1>9. TypeOK
      BY <1>2, <1>4, <1>5, <1>6 DEF TypeOK
<1> QED BY <1>6, <1>7, <1>8, <1>9 DEF CycleInv, QueueOnce

LEMMA BeginCycleKeeps ==
    ASSUME CycleInv, NEW limit \in Limits, BeginCycle(limit)
    PROVE  CycleInv'
<1> DEFINE seeds == [u \in Seeds |-> Entry(NoPage, IF u \in Research THEN "unverified" ELSE "none")]
           g == Upserted(reg, seeds)
           active == {u \in DOMAIN g : g[u].active /\ ~ g[u].gone}
           entries == [u \in active |-> g[u]]
           selected == SelectSources(entries, today + 1)
<1>1. TypeOK /\ Sourced(reg, recs) /\ Alive(reg, recs)
      BY DEF CycleInv
<1>2. /\ reg' = g /\ recs' = recs /\ today' = today + 1 /\ processed' = {} /\ found' = << >>
      /\ queue' = IF limit < Len(selected) THEN SubSeq(selected, 1, limit) ELSE selected
      BY DEF BeginCycle
<1>3. /\ Seeds \in SUBSET Pages /\ seeds \in [Seeds -> Row]
      /\ \A u \in Seeds : seeds[u].active
      BY PagesAssumption DEF Entry, Row
<1> HIDE DEF seeds
<1>4. /\ Registry(g)
      /\ \A u : u \in DOMAIN g <=> u \in DOMAIN reg \/ u \in Seeds
      /\ \A u \in DOMAIN reg : reg[u].active => g[u].active
      <2>1. Registry(reg) /\ g = Upserted(reg, seeds)
            BY <1>1 DEF TypeOK
      <2> HIDE DEF g
      <2>2. Registry(g) /\ \A u : u \in DOMAIN g <=> u \in DOMAIN reg \/ u \in Seeds
            BY <1>3, <2>1, UpsertedIs
      <2>3. /\ \A u \in Seeds : g[u].active
            /\ \A u \in DOMAIN reg : u \notin Seeds => g[u] = reg[u]
            BY <1>3, <2>1, UpsertedIs
      <2> QED BY <2>2, <2>3
<1> HIDE DEF g
<1>5. DOMAIN entries = active /\ active \subseteq DOMAIN g /\ active \subseteq Pages
      BY <1>4 DEF Registry
<1> HIDE DEF entries, active
<1>6. /\ selected \in Seq(Pages) /\ Once(selected)
      /\ Range(selected) \subseteq DOMAIN g
      BY <1>5, SelectedIs
<1>7. limit \in Nat
      BY PagesAssumption
<1> HIDE DEF selected
<1>8. queue' \in Seq(Pages) /\ Once(queue') /\ Range(queue') \subseteq DOMAIN g
      <2>1. CASE limit < Len(selected)
            BY <1>2, <1>6, <1>7, <2>1, CutOff
      <2>2. CASE ~ (limit < Len(selected))
            BY <1>2, <1>6, <2>2
      <2> QED BY <2>1, <2>2
<1>9. TypeOK'
      BY <1>1, <1>2, <1>4, <1>8 DEF TypeOK
<1>10. QueueOnce'
      BY <1>2, <1>8 DEF QueueOnce
<1>11. Sourced(reg, recs)' /\ Alive(reg, recs)'
      BY <1>1, <1>2, <1>4 DEF Sourced, Alive
<1>12. Untouched' /\ Linked(reg, found)'
      BY <1>2 DEF Untouched, Linked
<1> QED BY <1>9, <1>10, <1>11, <1>12 DEF CycleInv

LEMMA FetchFailsKeeps ==
    ASSUME CycleInv, FetchFails
    PROVE  CycleInv'
<1> DEFINE job == Head(queue)
<1>1. /\ TypeOK /\ QueueOnce /\ Sourced(reg, recs) /\ Alive(reg, recs)
      /\ Untouched /\ Linked(reg, found)
      BY DEF CycleInv
<1>2. /\ queue # << >> /\ queue' = Tail(queue) /\ processed' = processed \cup {job}
      /\ reg' = WithError(reg, job) /\ recs' = recs /\ found' = found /\ today' = today
      BY DEF FetchFails
<1>3. /\ Tail(queue) \in Seq(Pages) /\ Once(Tail(queue))
      /\ Range(Tail(queue)) \subseteq Range(queue) \ {job}
      /\ job \in Range(queue) /\ job \in Pages
      BY <1>1, <1>2, TailIsOnce DEF TypeOK, QueueOnce
<1> HIDE DEF job
<1>4. job \in DOMAIN reg
      BY <1>1, <1>3 DEF QueueOnce
<1>5. /\ Registry(reg') /\ DOMAIN reg' = DOMAIN reg
      /\ \A v \in DOMAIN reg : reg'[v].parent = reg[v].parent /\ reg'[v].active = reg[v].active
      BY <1>1, <1>2, <1>4, WithErrorIs DEF TypeOK
<1>6. TypeOK'
      BY <1>1, <1>2, <1>3, <1>5 DEF TypeOK
<1>7. QueueOnce'
      BY <1>1, <1>2, <1>3, <1>5 DEF QueueOnce
<1>8. Sourced(reg, recs)' /\ Alive(reg, recs)'
      BY <1>1, <1>2, <1>5 DEF Sourced, Alive
<1>9. Untouched' /\ Linked(reg, found)'
      BY <1>1, <1>2, <1>5 DEF Untouched, Linked
<1> QED BY <1>6, <1>7, <1>8, <1>9 DEF CycleInv

(* The turn of a source: the registry after the redirection and the         *)
(* discovery, the records, the queue, and only then the relation of what   *)
(* was found to the registry.                                              *)
LEMMA CrawlSourceKeeps ==
    ASSUME CycleInv, queue # << >>,
           NEW page \in {Head(queue)} \cup Redirects[Head(queue)],
           NEW outcome \in {"extraction_failed", "scope_processing_failed", "nothing", "current", "review"},
           NEW children \in SUBSET Links[page],
           CrawlSource(page, children, outcome)
    PROVE  CycleInv'
<1> DEFINE job == Head(queue)
           bound == IF page = job THEN reg ELSE Rebound(reg, job, page)
           moved == IF page = job THEN recs ELSE Moved(recs, job, page)
           below == [v \in children |-> Entry(page, "none")]
           listed == Upserted(bound, below)
           entries == [v \in children |-> [listed[v] EXCEPT !.active = TRUE, !.status = "none"]]
           done == processed \cup {job}
<1>1. /\ TypeOK /\ QueueOnce /\ Sourced(reg, recs) /\ Alive(reg, recs)
      /\ Untouched /\ Linked(reg, found)
      /\ Registry(reg) /\ Records(recs) /\ queue \in Seq(Pages) /\ today \in Nat
      BY DEF CycleInv, TypeOK
<1>2. /\ processed' = done
      /\ queue' = Tail(queue) \o NewJobs(entries, Tail(queue), done)
      /\ found' = [u \in DOMAIN found \cup {page} |->
                       IF u # page THEN found[u]
                       ELSE children \cup (IF u \in DOMAIN found THEN found[u] ELSE {})]
      /\ reg' = CASE outcome = "extraction_failed" -> WithError(listed, page)
                  [] outcome = "scope_processing_failed" ->
                         WithError(WithSuccess(listed, page, TRUE), page)
                  [] OTHER -> WithSuccess(listed, page, outcome # "nothing")
      /\ recs' = IF outcome \in {"current", "review"}
                 THEN WithCandidate(moved, page, outcome = "review") ELSE moved
      /\ today' = today
      BY DEF CrawlSource
<1>3. /\ job \in Pages /\ job \in DOMAIN reg /\ job \notin processed
      /\ Range(queue) \subseteq DOMAIN reg \ processed
      /\ page \in Pages /\ children \in SUBSET Pages
      /\ page # job => Redirects[job] # {} /\ Redirects[page] = {}
      <2>1. job \in Range(queue) /\ job \in Pages
            BY <1>1, TailIsOnce DEF QueueOnce
      <2>2. Range(queue) \subseteq DOMAIN reg \ processed
            BY <1>1 DEF QueueOnce
      <2> HIDE DEF job
      <2>3. page \in {job} \cup Redirects[job]
            BY DEF job
      <2>4. page \in Pages
            BY <2>1, <2>3, PagesAssumption
      <2>5. children \in SUBSET Pages
            BY <2>4, PagesAssumption
      <2>6. page # job => Redirects[job] # {} /\ Redirects[page] = {}
            BY <2>1, <2>3, RedirectsEnd
      <2> QED BY <2>1, <2>2, <2>4, <2>5, <2>6
<1>4. /\ Registry(bound)
      /\ DOMAIN bound = (DOMAIN reg \ {job}) \cup {page}
      /\ \A u \in DOMAIN reg \cap DOMAIN bound :
             /\ bound[u].parent = IF reg[u].parent = job THEN page ELSE reg[u].parent
             /\ reg[u].active => bound[u].active
      /\ reg[job].active => bound[page].active
      <2> HIDE DEF job
      <2>1. CASE page = job
            BY <1>1, <1>3, <2>1
      <2>2. CASE page # job
            <3>1. bound = Rebound(reg, job, page)
                  BY <2>2
            <3> HIDE DEF bound
            <3>3. Registry(reg) /\ job \in DOMAIN reg /\ page \in Pages
                  BY <1>1, <1>3
            <3>2. /\ Registry(bound)
                  /\ \A u : u \in DOMAIN bound <=> (u \in DOMAIN reg /\ u # job) \/ u = page
                  /\ \A u \in DOMAIN reg \ {job} :
                         /\ bound[u].parent = IF reg[u].parent = job THEN page ELSE reg[u].parent
                         /\ reg[u].active => bound[u].active
                  /\ reg[job].active => bound[page].active
                  BY <2>2, <3>1, <3>3, ReboundIs
            <3> QED BY <2>2, <3>2
      <2> QED BY <2>1, <2>2
<1>5. /\ Records(moved) /\ DOMAIN moved = DOMAIN recs
      /\ \A r \in DOMAIN recs :
             /\ moved[r].page = IF recs[r].page = job THEN page ELSE recs[r].page
             /\ moved[r].auth = recs[r].auth /\ moved[r].fresh = recs[r].fresh
      <2> HIDE DEF job
      <2>1. CASE page = job
            BY <1>1, <2>1
      <2>2. CASE page # job
            <3>1. moved = Moved(recs, job, page)
                  BY <2>2
            <3> HIDE DEF moved
            <3> QED BY <1>1, <1>3, <3>1, MovedIs
      <2> QED BY <2>1, <2>2
<1> HIDE DEF bound, moved, job
<1>6. /\ Registry(listed) /\ DOMAIN listed = DOMAIN bound \cup children
      /\ \A u \in DOMAIN bound : bound[u].active => listed[u].active
      /\ \A u \in children : listed[u].active /\ listed[u].parent = page
      /\ \A u \in DOMAIN bound \ children : listed[u] = bound[u]
      <2>1. /\ below \in [children -> Row]
            /\ \A u \in children : below[u].active /\ below[u].parent = page
            BY <1>3 DEF Entry, Row
      <2>2. listed = Upserted(bound, below) /\ Registry(bound)
            BY <1>1, <1>3, <1>4
      <2> HIDE DEF listed, below
      <2>3. children \in SUBSET Pages
            BY <1>3
      <2>4. Registry(listed)
            BY <2>1, <2>2, <2>3, UpsertedIs
      <2>5. \A u : u \in DOMAIN listed <=> u \in DOMAIN bound \/ u \in children
            BY <2>1, <2>2, <2>3, UpsertedIs
      <2>6. \A u \in children : listed[u].active /\ listed[u].parent = below[u].parent
            BY <2>1, <2>2, <2>3, UpsertedIs
      <2>7. ASSUME NEW u \in DOMAIN bound, u \notin children PROVE listed[u] = bound[u]
            <3>1. DOMAIN below = children
                  BY <2>1
            <3>2. u \in DOMAIN listed
                  BY <2>5
            <3> QED BY <2>2, <2>7, <3>1, <3>2 DEF Upserted
      <2> QED BY <2>1, <2>4, <2>5, <2>6, <2>7
<1>7. page \in DOMAIN listed
      BY <1>4, <1>6
<1>8. DOMAIN entries = children
      OBVIOUS
<1> HIDE DEF listed, entries
<1>9. /\ Registry(reg') /\ DOMAIN reg' = DOMAIN listed
      /\ \A v \in DOMAIN listed : /\ reg'[v].parent = listed[v].parent
                                  /\ listed[v].active => reg'[v].active
      /\ outcome \in {"current", "review"} => reg'[page].active
      <2>1. CASE outcome = "extraction_failed"
            <3>1. reg' = WithError(listed, page)
                  BY <1>2, <2>1
            <3> QED BY <1>1, <1>6, <1>7, <2>1, <3>1, WithErrorIs
      <2>2. CASE outcome = "scope_processing_failed"
            <3> DEFINE h == WithSuccess(listed, page, TRUE)
            <3>1. reg' = WithError(h, page)
                  BY <1>2, <2>2
            <3>3. Registry(listed) /\ page \in DOMAIN listed /\ today \in Nat
                  BY <1>1, <1>6, <1>7
            <3>4. PICK any \in BOOLEAN : any = TRUE
                  OBVIOUS
            <3>5. h = WithSuccess(listed, page, any)
                  BY <3>4
            <3> HIDE DEF h
            <3>2. /\ Registry(h) /\ DOMAIN h = DOMAIN listed
                  /\ \A v \in DOMAIN listed : /\ h[v].parent = listed[v].parent
                                              /\ listed[v].active => h[v].active
                  BY <3>3, <3>5, WithSuccessIs
            <3>6. page \in DOMAIN h
                  BY <1>7, <3>2
            <3>7. Registry(reg') /\ DOMAIN reg' = DOMAIN h
                  BY <3>1, <3>2, <3>3, <3>6, WithErrorIs
            <3>8. \A v \in DOMAIN h : reg'[v].parent = h[v].parent /\ reg'[v].active = h[v].active
                  BY <3>1, <3>2, <3>3, <3>6, WithErrorIs
            <3> QED BY <2>2, <3>2, <3>7, <3>8
      <2>3. CASE outcome \in {"nothing", "current", "review"}
            <3>1. PICK any \in BOOLEAN : any = (outcome # "nothing")
                  OBVIOUS
            <3>2. reg' = WithSuccess(listed, page, any)
                  BY <1>2, <2>3, <3>1
            <3>3. Registry(listed) /\ page \in DOMAIN listed /\ today \in Nat
                  BY <1>1, <1>6, <1>7
            <3>4. /\ Registry(reg') /\ DOMAIN reg' = DOMAIN listed
                  /\ \A v \in DOMAIN listed : /\ reg'[v].parent = listed[v].parent
                                              /\ listed[v].active => reg'[v].active
                  /\ reg'[page].active
                  BY <3>2, <3>3, WithSuccessIs
            <3> QED BY <3>4
      <2> QED BY <2>1, <2>2, <2>3
<1>10. /\ Records(recs')
       /\ \A r \in DOMAIN recs' :
             \/ /\ r \in DOMAIN recs
                /\ recs'[r].page = IF recs[r].page = job THEN page ELSE recs[r].page
                /\ recs'[r].auth => recs[r].auth /\ recs'[r].fresh = recs[r].fresh
             \/ /\ outcome \in {"current", "review"} /\ recs'[r].page = page
                /\ recs'[r].auth => recs'[r].fresh = "current"
      <2>1. CASE outcome \in {"current", "review"}
            <3>1. PICK review \in BOOLEAN : review = (outcome = "review")
                  OBVIOUS
            <3>2. recs' = WithCandidate(moved, page, review)
                  BY <1>2, <2>1, <3>1
            <3>4. Records(moved) /\ page \in Pages
                  BY <1>3, <1>5
            <3>3. /\ Records(recs') /\ DOMAIN recs' \subseteq DOMAIN moved \cup {page}
                  /\ recs'[page].page = page
                  /\ recs'[page].auth => recs'[page].fresh = "current"
                  /\ \A r \in DOMAIN moved \ {page} :
                         /\ recs'[r].page = moved[r].page
                         /\ recs'[r].auth => moved[r].auth /\ recs'[r].fresh = moved[r].fresh
                  BY <3>2, <3>4, WithCandidateIs
            <3> QED BY <1>5, <2>1, <3>3
      <2>2. CASE outcome \notin {"current", "review"}
            BY <1>2, <1>5, <2>2
      <2> QED BY <2>1, <2>2
<1>11. /\ queue' \in Seq(Pages) /\ Once(queue')
       /\ Range(queue') \subseteq (Range(queue) \cup children) \ done
      <2>1. DOMAIN entries \subseteq Pages /\ Once(queue)
            BY <1>1, <1>3, <1>8 DEF QueueOnce
      <2>2. \A u \in Range(queue) : u \in done => u = Head(queue)
            BY <1>3 DEF job
      <2> HIDE DEF done
      <2>3. /\ queue' \in Seq(Pages) /\ Once(queue')
            /\ Range(queue') \subseteq (Range(queue) \cup DOMAIN entries) \ done
            <3>1. queue \in Seq(Pages) /\ queue # << >>
                  BY <1>1
            <3>2. queue' = GoneOn(queue, entries, done)
                  BY <1>2 DEF GoneOn
            <3> QED BY <2>1, <2>2, <3>1, <3>2, QueueGoesOn
      <2> QED BY <1>8, <2>3
<1>12. DOMAIN reg' = (DOMAIN reg \ {job}) \cup {page} \cup children
      BY <1>4, <1>6, <1>9
<1>13. /\ DOMAIN found' = DOMAIN found \cup {page}
       /\ found'[page] = children \cup (IF page \in DOMAIN found THEN found[page] ELSE {})
       /\ \A u \in DOMAIN found \ {page} : found'[u] = found[u]
      BY <1>2
<1>14. TypeOK'
      <2>1. processed' \subseteq Pages
            BY <1>1, <1>2, <1>3 DEF TypeOK
      <2>2. DOMAIN found' \subseteq Pages /\ found' \in [DOMAIN found' -> SUBSET Pages]
            <3>1. \A u \in DOMAIN found : found[u] \in SUBSET Pages
                  BY <1>1 DEF TypeOK
            <3>2. \A u \in DOMAIN found' : found'[u] \in SUBSET Pages
                  BY <1>3, <1>13, <3>1
            <3> QED BY <1>1, <1>2, <1>3, <1>13, <3>2 DEF TypeOK
      <2> QED BY <1>1, <1>2, <1>9, <1>10, <1>11, <2>1, <2>2 DEF TypeOK
<1>15. QueueOnce'
      BY <1>2, <1>3, <1>11, <1>12 DEF QueueOnce
<1>16. Sourced(reg, recs)'
      BY <1>1, <1>10, <1>12 DEF Sourced
<1>17. Alive(reg, recs)'
      <2> SUFFICES ASSUME NEW r \in DOMAIN recs', recs'[r].auth
                   PROVE  /\ recs'[r].fresh = "current"
                          /\ r \in Removable => reg'[recs'[r].page].active
          BY DEF Alive
      <2>1. CASE /\ r \in DOMAIN recs
                 /\ recs'[r].page = IF recs[r].page = job THEN page ELSE recs[r].page
                 /\ recs'[r].auth => recs[r].auth /\ recs'[r].fresh = recs[r].fresh
            <3>1. /\ recs[r].fresh = "current" /\ recs[r].page \in DOMAIN reg
                  /\ r \in Removable => reg[recs[r].page].active
                  BY <1>1, <2>1 DEF Alive, Sourced
            <3>2. \A u \in DOMAIN bound : bound[u].active => reg'[u].active
                  BY <1>6, <1>9
            <3>3. CASE recs[r].page = job
                  BY <1>4, <2>1, <3>1, <3>2, <3>3
            <3>4. CASE recs[r].page # job
                  BY <1>4, <2>1, <3>1, <3>2, <3>4
            <3> QED BY <3>3, <3>4
      <2>2. CASE /\ outcome \in {"current", "review"} /\ recs'[r].page = page
                 /\ recs'[r].auth => recs'[r].fresh = "current"
            BY <1>9, <2>2
      <2> QED BY <1>10, <2>1, <2>2
<1>18. Untouched'
      BY <1>1, <1>2, <1>3, <1>13 DEF Untouched
<1>19. Linked(reg, found)'
      <2> SUFFICES ASSUME NEW p \in DOMAIN found', NEW u \in found'[p]
                   PROVE  IF u \in DOMAIN reg'
                          THEN reg'[u].parent \in DOMAIN found' /\ u \in found'[reg'[u].parent]
                          ELSE Redirects[u] # {}
          BY DEF Linked
      <2>1. CASE u \in children
            BY <1>6, <1>9, <1>12, <1>13, <2>1
      <2>2. CASE u \notin children
            <3>1. p \in DOMAIN found /\ u \in found[p]
                  BY <1>13, <2>2
            <3>2. IF u \in DOMAIN reg
                  THEN reg[u].parent \in DOMAIN found /\ u \in found[reg[u].parent]
                  ELSE Redirects[u] # {}
                  BY <1>1, <3>1 DEF Linked
            <3>3. CASE u \notin DOMAIN reg'
                  BY <1>3, <1>12, <3>2, <3>3
            <3>4. CASE u \in DOMAIN reg'
                  <4>1. u \in DOMAIN reg /\ u \in DOMAIN bound
                        BY <1>3, <1>4, <1>12, <2>2, <3>2, <3>4
                  <4>2. reg'[u].parent = IF reg[u].parent = job THEN page ELSE reg[u].parent
                        BY <1>4, <1>6, <1>9, <2>2, <4>1
                  <4>3. reg[u].parent = job => page = job
                        BY <1>1, <1>3, <3>2, <4>1 DEF Untouched
                  <4>4. /\ reg[u].parent \in DOMAIN found /\ u \in found[reg[u].parent]
                        /\ reg'[u].parent = reg[u].parent
                        BY <3>2, <4>1, <4>2, <4>3
                  <4> QED BY <1>13, <3>4, <4>4
            <3> QED BY <3>3, <3>4
      <2> QED BY <2>1, <2>2
<1> QED BY <1>14, <1>15, <1>16, <1>17, <1>18, <1>19 DEF CycleInv

(* What the reconciliation does to the records of one page. *)
LEMMA ReconcileKeeps ==
    ASSUME CycleInv, Reconcile
    PROVE  CycleInv'
<1> DEFINE Now(r) == LET u == recs[r].page IN
                     IF u \in Disappearing
                     THEN IF r \in Removable /\ recs[r].fresh \in {"current", "unknown"}
                          THEN Removed(recs[r]) ELSE recs[r]
                     ELSE IF u \in Expired(reg) /\ recs[r].fresh = "current"
                          THEN Downgraded(recs[r]) ELSE recs[r]
<1>1. /\ TypeOK /\ QueueOnce /\ Sourced(reg, recs) /\ Alive(reg, recs)
      /\ Registry(reg) /\ Records(recs)
      BY DEF CycleInv, TypeOK
<1>2. /\ reg' = [u \in DOMAIN reg |-> IF u \in Disappearing
                                       THEN [reg[u] EXCEPT !.gone = TRUE, !.active = FALSE] ELSE reg[u]]
      /\ recs' = [r \in DOMAIN recs |-> Now(r)]
      /\ processed' = {} /\ found' = << >> /\ queue' = queue /\ today' = today
      BY DEF Reconcile
<1>3. /\ Registry(reg') /\ DOMAIN reg' = DOMAIN reg
      /\ \A u \in DOMAIN reg \ Disappearing : reg'[u] = reg[u]
      <2>1. DOMAIN reg' = DOMAIN reg
            BY <1>2
      <2>2. \A u \in DOMAIN reg : reg[u] \in Row
            BY <1>1 DEF Registry
      <2>3. \A u \in DOMAIN reg :
                reg'[u] = IF u \in Disappearing
                          THEN [reg[u] EXCEPT !.gone = TRUE, !.active = FALSE] ELSE reg[u]
            BY <1>2
      <2>4. \A u \in DOMAIN reg : [reg[u] EXCEPT !.gone = TRUE, !.active = FALSE] \in Row
            BY <2>2 DEF Row
      <2>5. \A u \in DOMAIN reg : reg'[u] \in Row
            BY <2>2, <2>3, <2>4
      <2>6. reg' \in [DOMAIN reg -> Row]
            BY <1>2, <2>3, <2>5
      <2> QED BY <1>1, <2>1, <2>3, <2>6 DEF Registry
<1> HIDE DEF Now
<1>4. ASSUME NEW r \in DOMAIN recs
      PROVE  /\ Now(r) \in Record /\ Now(r).page = recs[r].page
             /\ Now(r).auth => /\ recs[r].auth /\ Now(r).fresh = recs[r].fresh
                               /\ r \in Removable => recs[r].page \notin Disappearing
      <2>1. recs[r] \in Record
            BY <1>1 DEF Records
      <2>2. /\ Removed(recs[r]) \in Record /\ Removed(recs[r]).page = recs[r].page
            /\ Removed(recs[r]).auth = FALSE
            BY <2>1 DEF Removed, Record, Queryable
      <2>3. /\ Downgraded(recs[r]) \in Record /\ Downgraded(recs[r]).page = recs[r].page
            /\ Downgraded(recs[r]).auth = FALSE
            BY <2>1 DEF Downgraded, Record, Queryable
      <2>4. CASE recs[r].page \in Disappearing
            <3>1. Now(r) = IF r \in Removable /\ recs[r].fresh \in {"current", "unknown"}
                           THEN Removed(recs[r]) ELSE recs[r]
                  BY <2>4 DEF Now
            <3>2. recs[r].auth => recs[r].fresh = "current"
                  BY <1>1 DEF Alive
            <3> QED BY <2>1, <2>2, <3>1, <3>2
      <2>5. CASE recs[r].page \notin Disappearing
            <3>1. Now(r) = IF recs[r].page \in Expired(reg) /\ recs[r].fresh = "current"
                           THEN Downgraded(recs[r]) ELSE recs[r]
                  BY <2>5 DEF Now
            <3> QED BY <2>1, <2>3, <2>5, <3>1
      <2> QED BY <2>4, <2>5
<1>5. Records(recs') /\ DOMAIN recs' = DOMAIN recs /\ \A r \in DOMAIN recs : recs'[r] = Now(r)
      BY <1>1, <1>2, <1>4 DEF Records
<1>6. DOMAIN found' = {} /\ found' \in [DOMAIN found' -> SUBSET Pages]
      BY <1>2, NothingNoted
<1>7. TypeOK'
      BY <1>1, <1>2, <1>3, <1>5, <1>6 DEF TypeOK
<1>8. QueueOnce'
      BY <1>1, <1>2, <1>3 DEF QueueOnce
<1>9. Sourced(reg, recs)'
      BY <1>1, <1>3, <1>4, <1>5 DEF Sourced
<1>10. Alive(reg, recs)'
      <2> SUFFICES ASSUME NEW r \in DOMAIN recs, Now(r).auth
                   PROVE  /\ Now(r).fresh = "current"
                          /\ r \in Removable => reg'[Now(r).page].active
          BY <1>5 DEF Alive
      <2>1. /\ recs[r].auth /\ Now(r).fresh = recs[r].fresh /\ Now(r).page = recs[r].page
            /\ r \in Removable => recs[r].page \notin Disappearing
            BY <1>4
      <2>2. /\ recs[r].fresh = "current" /\ recs[r].page \in DOMAIN reg
            /\ r \in Removable => reg[recs[r].page].active
            BY <1>1, <2>1 DEF Alive, Sourced
      <2> QED BY <1>3, <2>1, <2>2
<1>11. Untouched' /\ Linked(reg, found)'
      BY <1>6 DEF Untouched, Linked
<1> QED BY <1>7, <1>8, <1>9, <1>10, <1>11 DEF CycleInv

LEMMA BuildGenerationKeeps ==
    ASSUME CycleInv, BuildGeneration
    PROVE  CycleInv'
<1>1. /\ TypeOK /\ QueueOnce /\ Sourced(reg, recs) /\ Alive(reg, recs)
      /\ Untouched /\ Linked(reg, found) /\ Records(recs)
      BY DEF CycleInv, TypeOK
<1>2. PICK loaded \in SUBSET DOMAIN recs :
          recs' = [r \in DOMAIN recs |->
                     IF r \in loaded THEN [recs[r] EXCEPT !.serving = "indexed_active"]
                     ELSE IF r \in indexed THEN [recs[r] EXCEPT !.serving = "deindexed"]
                     ELSE recs[r]]
      BY DEF BuildGeneration
<1>3. /\ reg' = reg /\ queue' = queue /\ processed' = processed /\ found' = found
      /\ today' = today
      BY DEF BuildGeneration
<1>4. ASSUME NEW r \in DOMAIN recs
      PROVE  /\ recs'[r] \in Record /\ recs'[r].page = recs[r].page
             /\ recs'[r].auth = recs[r].auth /\ recs'[r].fresh = recs[r].fresh
      <2>1. recs[r] \in Record
            BY <1>1 DEF Records
      <2>2. recs'[r] = IF r \in loaded THEN [recs[r] EXCEPT !.serving = "indexed_active"]
                       ELSE IF r \in indexed THEN [recs[r] EXCEPT !.serving = "deindexed"]
                       ELSE recs[r]
            BY <1>2
      <2> QED BY <2>1, <2>2 DEF Record, Queryable
<1>5. Records(recs') /\ DOMAIN recs' = DOMAIN recs
      BY <1>1, <1>2, <1>4 DEF Records
<1>6. TypeOK' /\ QueueOnce' /\ Untouched' /\ Linked(reg, found)'
      BY <1>1, <1>3, <1>5 DEF TypeOK, QueueOnce, Untouched, Linked
<1>7. Sourced(reg, recs)' /\ Alive(reg, recs)'
      BY <1>1, <1>3, <1>4, <1>5 DEF Sourced, Alive
<1> QED BY <1>6, <1>7 DEF CycleInv

(* The steps that end a phase or a cycle leave the registry and the records *)
(* alone, and forget at most what the crawl has noted.                     *)
LEMMA CycleEndKeeps ==
    ASSUME CycleInv, CommitCrawl \/ SkipActivation \/ Audit \/ CrawlLost
                     \/ CrashCycle \/ InterruptCycle
    PROVE  CycleInv'
<1>1. /\ TypeOK /\ QueueOnce /\ Sourced(reg, recs) /\ Alive(reg, recs)
      /\ Untouched /\ Linked(reg, found)
      BY DEF CycleInv
<1>2. /\ reg' = reg /\ recs' = recs
      /\ today' = today \/ today' = today + 1
      /\ queue' = queue \/ queue' = << >>
      /\ \/ processed' = processed /\ found' = found
         \/ processed' = {} /\ found' = << >>
      BY DEF CommitCrawl, SkipActivation, Audit, CrawlLost, CrashCycle, InterruptCycle
<1>3. /\ DOMAIN << >> = {} /\ Range(<< >>) = {} /\ Once(<< >>) /\ << >> \in Seq(Pages)
      BY NothingNoted
<1>4. TypeOK'
      <2>1. queue' \in Seq(Pages)
            BY <1>1, <1>2, <1>3 DEF TypeOK
      <2>2. processed' \subseteq Pages /\ DOMAIN found' \subseteq Pages
            BY <1>1, <1>2, <1>3 DEF TypeOK
      <2>3. found' \in [DOMAIN found' -> SUBSET Pages]
            BY <1>1, <1>2, NothingNoted DEF TypeOK
      <2>4. today' \in Nat
            BY <1>1, <1>2 DEF TypeOK
      <2> QED BY <1>1, <1>2, <2>1, <2>2, <2>3, <2>4 DEF TypeOK
<1>5. QueueOnce'
      BY <1>1, <1>2, <1>3 DEF QueueOnce
<1>6. Untouched' /\ Linked(reg, found)'
      BY <1>1, <1>2, <1>3 DEF Untouched, Linked
<1>7. Sourced(reg, recs)' /\ Alive(reg, recs)'
      BY <1>1, <1>2 DEF Sourced, Alive
<1> QED BY <1>4, <1>5, <1>6, <1>7 DEF CycleInv

LEMMA CycleStepKeeps == CycleInv /\ [CycleNext]_vars => CycleInv'
<1> SUFFICES ASSUME CycleInv, [CycleNext]_vars PROVE CycleInv'
    OBVIOUS
<1>1. ASSUME NEW limit \in Limits, BeginCycle(limit)
      PROVE  CycleInv'
      BY <1>1, BeginCycleKeeps
<1>2. CASE FetchFails
      BY <1>2, FetchFailsKeeps
<1>3. CASE CrawlNext
      <2>1. queue # << >>
            BY <1>3 DEF CrawlNext
      <2>2. PICK page \in {Head(queue)} \cup Redirects[Head(queue)],
                 outcome \in {"extraction_failed", "scope_processing_failed", "nothing", "current", "review"} :
                     \E children \in SUBSET Links[page] : CrawlSource(page, children, outcome)
            BY <1>3 DEF CrawlNext
      <2>3. PICK children \in SUBSET Links[page] : CrawlSource(page, children, outcome)
            BY <2>2
      <2> QED BY <2>1, <2>3, CrawlSourceKeeps
<1>4. CASE Reconcile
      BY <1>4, ReconcileKeeps
<1>5. CASE BuildGeneration
      BY <1>5, BuildGenerationKeeps
<1>6. CASE CommitCrawl \/ SkipActivation \/ Audit \/ CrawlLost \/ CrashCycle \/ InterruptCycle
      BY <1>6, CycleEndKeeps
<1>7. CASE UNCHANGED vars
      BY <1>7 DEF vars, CycleInv, TypeOK, QueueOnce, Sourced, Alive, Untouched, Linked
<1> QED BY <1>1, <1>2, <1>3, <1>4, <1>5, <1>6, <1>7 DEF CycleNext, CycleStep

----------------------------------------------------------------------------
(* The theorems.                                                            *)

(* The inductive invariant: what the registry, the records and the notes of *)
(* a crawl have to do with each other, in every phase.                     *)
THEOREM CycleInvariant == CycleSpec => []CycleInv
<1> QED BY CycleStarts, CycleStepKeeps, PTL DEF CycleSpec

(* Redirections, merged rows, lost and interrupted cycles: every record has *)
(* the source it came from.                                                *)
THEOREM RecordsKeepTheirSource == CycleSpec => []RecordsHaveSource
<1>1. CycleInv => RecordsHaveSource
      BY DEF CycleInv, Sourced, RecordsHaveSource
<1> QED BY CycleInvariant, <1>1, PTL

(* After the reconciliation no removable record is authoritative whose page *)
(* is inactive: such a record left with its page, or moved to another.     *)
THEOREM RemovedTogether == CycleSpec => []RemovedWithItsPage
<1>1. CycleInv => RemovedWithItsPage
      BY DEF CycleInv, Alive, RemovedWithItsPage
<1> QED BY CycleInvariant, <1>1, PTL

(* What reconcile_disappeared_sources declares gone, no page fetched in     *)
(* this cycle links to, though it looks at the links of one parent only.   *)
THEOREM GoneIsUnlinked == CycleSpec => DisappearedIsUnlinked
<1> DEFINE A == phase = "reconcile" /\ phase' = "build" =>
                    \A u \in DOMAIN reg : reg'[u].gone /\ ~ reg[u].gone =>
                        \A p \in DOMAIN found : u \notin found[p]
<1>1. CycleInv /\ [CycleNext]_vars => [A]_vars
      <2> SUFFICES ASSUME CycleInv, CycleNext, phase = "reconcile", phase' = "build",
                          NEW u \in DOMAIN reg, reg'[u].gone, ~ reg[u].gone,
                          NEW p \in DOMAIN found, u \in found[p]
                   PROVE  FALSE
          OBVIOUS
      <2>1. Reconcile
            BY DEF CycleNext, CycleStep, BeginCycle, FetchFails, CrawlNext, CommitCrawl,
                   BuildGeneration, Audit, SkipActivation, CrawlLost, CrashCycle, InterruptCycle
      <2>2. u \in Disappearing
            BY <2>1 DEF Reconcile
      <2> QED BY <2>2 DEF Disappearing, CycleInv, Linked
<1> QED BY CycleInvariant, <1>1, PTL DEF CycleSpec, DisappearedIsUnlinked

=============================================================================
