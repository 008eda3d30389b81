------------------------- MODULE BatchEnqueueProofs -------------------------
(***************************************************************************)
(* Proofs about BatchEnqueue, for any callers, batches and tables: its     *)
(* types, and that it implements EnqueueMany.                              *)
(***************************************************************************)
EXTENDS BatchEnqueue, FiniteSetTheorems, SequenceTheorems, WellFoundedInduction, TLAPS

Table == UNION {[S -> Row] : S \in SUBSET Nat}

Asked == [id : Nat, def : Defs, job_key : Keys \cup {NULL}, mode : Modes, run_at : Nat]

Call == [requests : Seq(Asked), ids : Seq(Nat)]

Caller == [pc             : {"idle", "inserting", "open"},
           requests       : Seq(Asked),
           left           : SUBSET Nat,
           wrote          : Table,
           saved          : Table,
           ids_by_job_key : UNION {[S -> Nat] : S \in SUBSET Keys},
           answered       : Seq(Call),
           calls          : Nat]

\* t before s.
Join(t, s) == [i \in DOMAIN t \cup DOMAIN s |-> IF i \in DOMAIN t THEN t[i] ELSE s[i]]

\* The rows of b that t has.
Base(b, t) == Restrict(b, DOMAIN b \cap DOMAIN t)

OneHolder(t) == \A k \in Keys : \A i, j \in KeyHolders(t, k) : i = j

\* u is t with the requests of D resolved, in whatever order.
Enqueued(u, t, requests, D) ==
    /\ DOMAIN u = DOMAIN t \cup {requests[n].id : n \in {m \in D : KeyHolders(t, requests[m].job_key) = {}}}
    /\ \A n \in D : LET q == requests[n]
                    IN  /\ KeyHolders(t, q.job_key) = {} => u[q.id] = NewRow(q.def, q.job_key, q.run_at)
                        /\ \A i \in KeyHolders(t, q.job_key) : u[i] = Upserted(t[i], q.def, q.mode, q.run_at)
    /\ \A i \in DOMAIN t : (\A n \in D : i \notin KeyHolders(t, requests[n].job_key)) => u[i] = t[i]

IdsOf(requests) == {requests[n].id : n \in DOMAIN requests}

AnsweredIds(calls) == UNION {IdsOf(calls[m].requests) : m \in DOMAIN calls}

\* What a caller with record r has written in answered calls.
Kept(r) == IF r.pc = "inserting" THEN r.saved ELSE r.wrote

DistinctIds(requests) == \A i, j \in DOMAIN requests : i # j => requests[i].id # requests[j].id

Ids(r) == IdsOf(r.requests) \cup AnsweredIds(r.answered)

\* The rows r has written are those of b with other definitions, or its own new ones.
Writes(b, n, r) ==
    /\ OneHolder(Join(r.wrote, b))
    /\ \A i \in DOMAIN r.wrote :
          /\ Active(r.wrote[i])
          /\ i \in DOMAIN b => b[i].status = r.wrote[i].status /\ b[i].job_key = r.wrote[i].job_key
          /\ i \in DOMAIN b \/ i \in Ids(r)
    /\ \A i \in DOMAIN r.saved : /\ i \in DOMAIN r.wrote
                                 /\ r.saved[i].status = r.wrote[i].status
                                 /\ r.saved[i].job_key = r.wrote[i].job_key
    /\ Ids(r) \subseteq 1..(n - 1) /\ Ids(r) \cap DOMAIN b = {}

\* The answered calls, resolved on the committed rows that r has locked.
Answers(b, r) ==
    /\ Atomic!AfterCalls(Base(b, Kept(r)), r.answered) = Kept(r)
    /\ Atomic!RightIds(Kept(r), r.answered)
    /\ \A i \in DOMAIN Kept(r) : i \in DOMAIN b \/ i \in AnsweredIds(r.answered)

\* The call in progress.
Inserts(b, r) ==
    /\ r.left \subseteq DOMAIN r.requests
    /\ r.pc = "inserting" =>
          /\ Atomic!DistinctKeys(r.requests) /\ DistinctIds(r.requests)
          /\ IdsOf(r.requests) \cap DOMAIN r.saved = {}
          /\ Enqueued(r.wrote, Join(r.saved, Base(b, r.wrote)), r.requests, DOMAIN r.requests \ r.left)
          /\ \A m \in DOMAIN r.requests \ r.left :
                LET k == r.requests[m].job_key
                IN  k # NULL => k \in DOMAIN r.ids_by_job_key /\ r.ids_by_job_key[k] \in KeyHolders(r.wrote, k)
    /\ r.pc # "inserting" => r.requests = <<>>
    /\ r.pc = "idle" => r.wrote = NoRows /\ r.answered = <<>>

Sound(b, n, r) == Writes(b, n, r) /\ Answers(b, r) /\ Inserts(b, r)

\* Two callers' rows, keys and ids.
Apart(r, s) ==
    /\ Ids(r) \cap Ids(s) = {}
    /\ \A i \in DOMAIN r.wrote, j \in DOMAIN s.wrote :
          i # j /\ (r.wrote[i].job_key # NULL => r.wrote[i].job_key # s.wrote[j].job_key)

TypeCorrect ==
    /\ jobs \in Table /\ nextId \in Nat \ {0} /\ DOMAIN jobs \subseteq 1..(nextId - 1)
    /\ caller \in [Callers -> Caller]
    /\ \A c \in Callers : caller[c].calls <= MaxCalls[c]

IInv ==
    /\ TypeCorrect
    /\ OneHolder(jobs)
    /\ \A c \in Callers : Sound(jobs, nextId, caller[c])
    /\ \A c, d \in Callers : c # d => Apart(caller[c], caller[d])
-----------------------------------------------------------------------------
(* Recursion on numbers *)

LEMMA LessThanWellFounded == IsWellFoundedOn({p \in Nat \X Nat : p[1] < p[2]}, Nat)
  BY NatLessThanWellFounded DEF OpToRel

\* A set of numbers has a least element.
LEMMA Least ==
    ASSUME NEW S \in SUBSET Nat, S # {}
    PROVE  \E m \in S : \A x \in S : m <= x
<1> DEFINE R == {p \in Nat \X Nat : p[1] < p[2]}
<1>1. IsWellFoundedOn(R, Nat)
  BY LessThanWellFounded
<1> HIDE DEF R
<1>2. PICK m \in S : \A y \in S : <<y, m>> \notin R
  BY <1>1, WFMin
<1>3. ASSUME NEW y \in S PROVE m <= y
  <2>1. y \in Nat /\ m \in Nat
    OBVIOUS
  <2>2. <<y, m>> \notin R
    BY <1>2
  <2>3. y < m => <<y, m>> \in R
    BY <2>1 DEF R
  <2> QED
    BY <2>1, <2>2, <2>3
<1> QED
  BY <1>3

\* A set of numbers that holds 0 and with each number the next, up to N.
LEMMA Induct ==
    ASSUME NEW N \in Nat, NEW S, 0 \in S, \A n \in 1..N : n - 1 \in S => n \in S
    PROVE  0..N \subseteq S
<1> SUFFICES ASSUME NEW x \in 0..N, x \notin S PROVE FALSE
  OBVIOUS
<1> DEFINE B == {n \in 0..N : n \notin S}
<1>1. B \in SUBSET Nat /\ B # {}
  OBVIOUS
<1>2. PICK m \in B : \A y \in B : m <= y
  BY <1>1, Least
<1>3. m \in 1..N
  BY <1>2
<1>4. m - 1 \notin B
  BY <1>2, <1>3
<1> QED
  BY <1>3, <1>4

\* A recursive function on 0..N with values in S exists.
Unfolds(N, S, t, G) ==
    \E f \in [0..N -> S] : f[0] = t /\ \A n \in 1..N : f[n] = G[<<f[n - 1], n>>]

LEMMA Recursion ==
    ASSUME NEW N \in Nat, NEW S, NEW t \in S, NEW G \in [S \X (1..N) -> S]
    PROVE  Unfolds(N, S, t, G)
<1> DEFINE P(k) == \E f \in [0..k -> S] : f[0] = t /\ \A n \in 1..k : f[n] = G[<<f[n - 1], n>>]
           D == {k \in 0..N : P(k)}
<1>1. P(0)
  <2> DEFINE f == [n \in 0..0 |-> t]
  <2>1. f \in [0..0 -> S] /\ f[0] = t /\ 1..0 = {}
    OBVIOUS
  <2> HIDE DEF f
  <2> QED
    BY <2>1
<1>2. ASSUME NEW k \in 1..N, P(k - 1) PROVE P(k)
  <2>1. PICK f \in [0..(k - 1) -> S] : f[0] = t /\ \A n \in 1..(k - 1) : f[n] = G[<<f[n - 1], n>>]
    BY <1>2
  <2> DEFINE g == [n \in 0..k |-> IF n = k THEN G[<<f[k - 1], k>>] ELSE f[n]]
  <2>2. f[k - 1] \in S
    BY <2>1
  <2>3. G[<<f[k - 1], k>>] \in S
    BY <2>2
  <2>4. g \in [0..k -> S]
    BY <2>1, <2>3
  <2>5. g[0] = t
    BY <2>1
  <2>6. ASSUME NEW n \in 1..k PROVE g[n] = G[<<g[n - 1], n>>]
    <3>1. n - 1 \in 0..k /\ n - 1 # k /\ n \in 0..k
      OBVIOUS
    <3>2. g[n - 1] = f[n - 1]
      BY <3>1
    <3>3. CASE n = k
      BY <3>1, <3>2, <3>3
    <3>4. CASE n # k
      <4>1. n \in 1..(k - 1)
        BY <3>4
      <4>2. g[n] = f[n]
        BY <3>1, <3>4
      <4> QED
        BY <2>1, <3>2, <4>1, <4>2
    <3> QED
      BY <3>3, <3>4
  <2> HIDE DEF g
  <2> QED
    BY <2>4, <2>5, <2>6
<1> HIDE DEF P
<1>3. 0 \in D /\ \A n \in 1..N : n - 1 \in D => n \in D
  BY <1>1, <1>2
<1> HIDE DEF D
<1>4. 0..N \subseteq D
  BY <1>3, Induct
<1>5. N \in D
  BY <1>4
<1> QED
  BY <1>5 DEF D, P, Unfolds

\* Two of them are equal.
Alike(f, g, N) == f[0] = g[0] /\ \A n \in 1..N : f[n - 1] = g[n - 1] => f[n] = g[n]

LEMMA Unique ==
    ASSUME NEW N \in Nat, NEW f, NEW g, Alike(f, g, N)
    PROVE  f[N] = g[N]
<1> DEFINE D == {n \in 0..N : f[n] = g[n]}
<1>1. 0 \in D /\ \A n \in 1..N : n - 1 \in D => n \in D
  BY DEF Alike
<1> HIDE DEF D
<1>2. 0..N \subseteq D
  BY <1>1, Induct
<1> QED
  BY <1>2 DEF D
-----------------------------------------------------------------------------
(* Rows and tables *)

LEMMA TableIs ==
    ASSUME NEW t
    PROVE  t \in Table <=> /\ t = [i \in DOMAIN t |-> t[i]]
                           /\ DOMAIN t \subseteq Nat /\ \A i \in DOMAIN t : t[i] \in Row
<1>1. ASSUME t \in Table
      PROVE  t = [i \in DOMAIN t |-> t[i]] /\ DOMAIN t \subseteq Nat /\ \A i \in DOMAIN t : t[i] \in Row
  <2>1. PICK S \in SUBSET Nat : t \in [S -> Row]
    BY <1>1 DEF Table
  <2> QED
    BY <2>1
<1>2. ASSUME t = [i \in DOMAIN t |-> t[i]], DOMAIN t \subseteq Nat, \A i \in DOMAIN t : t[i] \in Row
      PROVE  t \in Table
  <2>1. t \in [DOMAIN t -> Row]
    BY <1>2
  <2> QED
    BY <1>2, <2>1 DEF Table
<1> QED
  BY <1>1, <1>2

LEMMA NoNull == NULL \notin Keys
  BY TableAssumption

LEMMA UpsertedIs ==
    ASSUME NEW r \in Row, NEW q \in Asked
    PROVE  LET u == Upserted(r, q.def, q.mode, q.run_at)
           IN  u \in Row /\ u.status = r.status /\ u.job_key = r.job_key
<1>1. q.def \in Defs /\ q.run_at \in Nat
  BY DEF Asked
<1> QED
  BY <1>1 DEF Upserted, Row

LEMMA NewRowIs ==
    ASSUME NEW q \in Asked
    PROVE  LET u == NewRow(q.def, q.job_key, q.run_at)
           IN  u \in Row /\ Active(u) /\ u.job_key = q.job_key
<1>1. q.def \in Defs /\ q.run_at \in Nat /\ q.job_key \in Keys \cup {NULL}
  BY DEF Asked
<1> QED
  BY <1>1 DEF NewRow, Row, Statuses, Active

LEMMA AskedIs ==
    ASSUME NEW q \in Asked
    PROVE  q.id \in Nat /\ q.job_key \in Keys \cup {NULL}
  BY DEF Asked

\* EnqueueMany's operators on tables are those of JobTable.
LEMMA SameTables ==
    ASSUME NEW t, NEW q, NEW k
    PROVE  /\ Atomic!KeyHolders(t, k) = KeyHolders(t, k)
           /\ Atomic!EnqueueOne(t, q) = InsertJob(t, q.id, q.def, q.job_key, q.mode, q.run_at)
<1>1. \A j : Atomic!Active(t[j]) = Active(t[j])
  BY DEF Atomic!Active, Active
<1>2. \A x : Atomic!KeyHolders(t, x) = KeyHolders(t, x)
  BY <1>1 DEF Atomic!KeyHolders, KeyHolders
<1>3. Atomic!NewRow(q.def, q.job_key, q.run_at) = NewRow(q.def, q.job_key, q.run_at)
  BY DEF Atomic!NewRow, NewRow
<1>4. \A j : Atomic!Upserted(t[j], q.def, q.mode, q.run_at) = Upserted(t[j], q.def, q.mode, q.run_at)
  BY DEF Atomic!Upserted, Upserted
<1>5. Atomic!InsertJob(t, q.id, q.def, q.job_key, q.mode, q.run_at)
        = InsertJob(t, q.id, q.def, q.job_key, q.mode, q.run_at)
  BY <1>2, <1>3, <1>4 DEF Atomic!InsertJob, InsertJob
<1> QED
  BY <1>2, <1>5 DEF Atomic!EnqueueOne

\* What one request does to a table.
EnqueuedOne(u, t, q, H) ==
    /\ u \in Table
    /\ DOMAIN u = IF H = {} THEN DOMAIN t \cup {q.id} ELSE DOMAIN t
    /\ H = {} => u[q.id] = NewRow(q.def, q.job_key, q.run_at)
    /\ \A i \in H : i \in DOMAIN t /\ u[i] = Upserted(t[i], q.def, q.mode, q.run_at)
    /\ \A i \in DOMAIN t \ H : (H = {} => i # q.id) => u[i] = t[i]

LEMMA OneIs ==
    ASSUME NEW t \in Table, NEW q \in Asked
    PROVE  EnqueuedOne(Atomic!EnqueueOne(t, q), t, q, KeyHolders(t, q.job_key))
<1> DEFINE H == KeyHolders(t, q.job_key)
           u == Atomic!EnqueueOne(t, q)
<1>1. H \subseteq DOMAIN t
  BY DEF KeyHolders
<1>2. \A i \in DOMAIN t : t[i] \in Row /\ i \in Nat
  BY TableIs
<1>3. q.id \in Nat
  BY AskedIs
<1>4. CASE H = {}
  <2>1. u = [i \in DOMAIN t \cup {q.id} |-> IF i = q.id THEN NewRow(q.def, q.job_key, q.run_at) ELSE t[i]]
    BY <1>4, SameTables DEF InsertJob
  <2>2. NewRow(q.def, q.job_key, q.run_at) \in Row
    BY NewRowIs
  <2> HIDE DEF u, H
  <2>3. u \in [DOMAIN t \cup {q.id} -> Row]
    BY <2>1, <2>2, <1>2
  <2>4. u \in Table
    BY <2>3, <1>2, <1>3 DEF Table
  <2>5. DOMAIN u = DOMAIN t \cup {q.id} /\ u[q.id] = NewRow(q.def, q.job_key, q.run_at)
        /\ \A i \in DOMAIN t : i # q.id => u[i] = t[i]
    BY <2>1
  <2> QED
    BY <1>4, <2>4, <2>5 DEF u, H, EnqueuedOne
<1>5. CASE H # {}
  <2>1. u = [i \in DOMAIN t |-> IF i \in H THEN Upserted(t[i], q.def, q.mode, q.run_at) ELSE t[i]]
    BY <1>5, SameTables DEF InsertJob
  <2>2. \A i \in DOMAIN t : Upserted(t[i], q.def, q.mode, q.run_at) \in Row
    BY <1>2, UpsertedIs
  <2> HIDE DEF u, H
  <2>3. u \in [DOMAIN t -> Row]
    BY <2>1, <2>2, <1>2
  <2>4. u \in Table
    BY <2>3, <1>2 DEF Table
  <2>5. DOMAIN u = DOMAIN t /\ \A i \in DOMAIN t :
            u[i] = IF i \in H THEN Upserted(t[i], q.def, q.mode, q.run_at) ELSE t[i]
    BY <2>1
  <2> QED
    BY <1>1, <1>5, <2>4, <2>5 DEF u, H, EnqueuedOne
<1> QED
  BY <1>4, <1>5

LEMMA TablesEqual ==
    ASSUME NEW u \in Table, NEW v \in Table, DOMAIN u = DOMAIN v, \A i \in DOMAIN u : u[i] = v[i]
    PROVE  u = v
<1>1. u = [i \in DOMAIN u |-> u[i]] /\ v = [i \in DOMAIN v |-> v[i]]
  BY TableIs
<1> QED
  BY <1>1

LEMMA JoinIs ==
    ASSUME NEW t \in Table, NEW s \in Table
    PROVE  /\ Join(t, s) \in Table
           /\ DOMAIN Join(t, s) = DOMAIN t \cup DOMAIN s
           /\ \A i \in DOMAIN t : Join(t, s)[i] = t[i]
           /\ \A i \in DOMAIN s \ DOMAIN t : Join(t, s)[i] = s[i]
<1>1. /\ \A i \in DOMAIN t : t[i] \in Row /\ i \in Nat
      /\ \A i \in DOMAIN s : s[i] \in Row /\ i \in Nat
  BY TableIs
<1> DEFINE u == Join(t, s)
<1>2. u = [i \in DOMAIN t \cup DOMAIN s |-> IF i \in DOMAIN t THEN t[i] ELSE s[i]]
  BY DEF Join
<1> HIDE DEF u
<1>3. u \in [DOMAIN t \cup DOMAIN s -> Row]
  BY <1>1, <1>2
<1>4. u \in Table
  BY <1>1, <1>3 DEF Table
<1>5. /\ DOMAIN u = DOMAIN t \cup DOMAIN s
      /\ \A i \in DOMAIN t : u[i] = t[i]
      /\ \A i \in DOMAIN s \ DOMAIN t : u[i] = s[i]
  BY <1>2
<1> QED
  BY <1>4, <1>5 DEF u

\* The holders of a key in disjoint tables.
LEMMA JoinHolders ==
    ASSUME NEW t \in Table, NEW s \in Table, DOMAIN t \cap DOMAIN s = {}, NEW k
    PROVE  KeyHolders(Join(t, s), k) = KeyHolders(t, k) \cup KeyHolders(s, k)
<1>1. /\ Join(t, s) \in Table /\ DOMAIN Join(t, s) = DOMAIN t \cup DOMAIN s
      /\ \A i \in DOMAIN t : Join(t, s)[i] = t[i]
      /\ \A i \in DOMAIN s \ DOMAIN t : Join(t, s)[i] = s[i]
  BY JoinIs
<1>2. \A i \in DOMAIN s : Join(t, s)[i] = s[i]
  BY <1>1
<1> QED
  BY <1>1, <1>2 DEF KeyHolders

\* Rows with other keys are no part of what a request does.
LEMMA OneJoin ==
    ASSUME NEW t \in Table, NEW s \in Table, NEW q \in Asked,
           DOMAIN t \cap DOMAIN s = {}, q.id \notin DOMAIN s, KeyHolders(s, q.job_key) = {}
    PROVE  /\ Atomic!EnqueueOne(Join(t, s), q) = Join(Atomic!EnqueueOne(t, q), s)
           /\ DOMAIN Atomic!EnqueueOne(t, q) \cap DOMAIN s = {}
<1> DEFINE u == Atomic!EnqueueOne(t, q)
           v == Atomic!EnqueueOne(Join(t, s), q)
           H == KeyHolders(t, q.job_key)
<1>1. /\ Join(t, s) \in Table
      /\ DOMAIN Join(t, s) = DOMAIN t \cup DOMAIN s
      /\ \A i \in DOMAIN t : Join(t, s)[i] = t[i]
      /\ \A i \in DOMAIN s : Join(t, s)[i] = s[i]
  <2>1. /\ Join(t, s) \in Table
        /\ DOMAIN Join(t, s) = DOMAIN t \cup DOMAIN s
        /\ \A i \in DOMAIN t : Join(t, s)[i] = t[i]
        /\ \A i \in DOMAIN s \ DOMAIN t : Join(t, s)[i] = s[i]
    BY JoinIs
  <2> QED
    BY <2>1
<1>2. KeyHolders(Join(t, s), q.job_key) = H
  BY JoinHolders
<1>3. EnqueuedOne(u, t, q, H)
  BY OneIs
<1>4. EnqueuedOne(v, Join(t, s), q, H)
  BY <1>1, <1>2, OneIs
<1> HIDE DEF u, v, H
<1>5. DOMAIN u \cap DOMAIN s = {}
  BY <1>3 DEF EnqueuedOne
<1>6. /\ Join(u, s) \in Table
      /\ DOMAIN Join(u, s) = DOMAIN u \cup DOMAIN s
      /\ \A i \in DOMAIN u : Join(u, s)[i] = u[i]
      /\ \A i \in DOMAIN s \ DOMAIN u : Join(u, s)[i] = s[i]
  BY <1>3, JoinIs DEF EnqueuedOne
<1>7. DOMAIN v = DOMAIN Join(u, s)
  BY <1>1, <1>3, <1>4, <1>6 DEF EnqueuedOne
<1>8. ASSUME NEW i \in DOMAIN v PROVE v[i] = Join(u, s)[i]
  <2>1. CASE i \in DOMAIN s
    <3>1. i \notin DOMAIN u /\ i \notin H /\ i # q.id
      BY <2>1, <1>3, <1>5 DEF EnqueuedOne
    <3> QED
      BY <2>1, <3>1, <1>1, <1>4, <1>6 DEF EnqueuedOne
  <2>2. CASE i \in H
    BY <2>2, <1>1, <1>3, <1>4, <1>6 DEF EnqueuedOne
  <2>3. CASE H = {} /\ i = q.id
    BY <2>3, <1>3, <1>4, <1>6 DEF EnqueuedOne
  <2>4. CASE i \notin DOMAIN s /\ i \notin H /\ ~ (H = {} /\ i = q.id)
    BY <2>4, <1>1, <1>3, <1>4, <1>6 DEF EnqueuedOne
  <2> QED
    BY <2>1, <2>2, <2>3, <2>4
<1>9. v = Join(u, s)
  BY <1>4, <1>6, <1>7, <1>8, TablesEqual DEF EnqueuedOne
<1> QED
  BY <1>5, <1>9 DEF u, v
-----------------------------------------------------------------------------
(* Batches and calls on a table *)

\* The recursion of EnqueueAll stays in any set of tables that its requests stay in.
AllUnfolds(S, t, requests) ==
    \E f \in [0..Len(requests) -> S] :
       /\ f[0] = t
       /\ \A n \in DOMAIN requests : f[n] = Atomic!EnqueueOne(f[n - 1], requests[n])
       /\ Atomic!EnqueueAll(t, requests) = f[Len(requests)]

LEMMA AllIs ==
    ASSUME NEW S \in SUBSET Table, NEW t \in S, NEW requests \in Seq(Asked),
           \A u \in S, n \in DOMAIN requests : Atomic!EnqueueOne(u, requests[n]) \in S
    PROVE  AllUnfolds(S, t, requests)
<1> DEFINE N == Len(requests)
           G == [p \in S \X (1..N) |-> Atomic!EnqueueOne(p[1], requests[p[2]])]
           After(g) == [n \in 0..N |-> IF n = 0 THEN t ELSE Atomic!EnqueueOne(g[n - 1], requests[n])]
           g == CHOOSE g : g = After(g)
<1>1. N \in Nat /\ DOMAIN requests = 1..N
  BY LenProperties
<1>2. G \in [S \X (1..N) -> S]
  BY <1>1
<1>3. \A u \in S, n \in 1..N : G[<<u, n>>] = Atomic!EnqueueOne(u, requests[n])
  OBVIOUS
<1> HIDE DEF G
<1>4. PICK f \in [0..N -> S] : f[0] = t /\ \A n \in 1..N : f[n] = G[<<f[n - 1], n>>]
  <2>1. Unfolds(N, S, t, G)
    BY <1>1, <1>2, Recursion
  <2> QED
    BY <2>1 DEF Unfolds
<1>5. \A n \in 1..N : f[n] = Atomic!EnqueueOne(f[n - 1], requests[n])
  <2> SUFFICES ASSUME NEW n \in 1..N PROVE f[n] = Atomic!EnqueueOne(f[n - 1], requests[n])
    OBVIOUS
  <2>1. n - 1 \in 0..N
    BY <1>1
  <2>2. f[n - 1] \in S
    BY <2>1
  <2> QED
    BY <1>3, <1>4, <2>2
<1>6. f = After(f)
  BY <1>4, <1>5
<1>7. g = After(g)
  BY <1>6
<1>8. Atomic!EnqueueAll(t, requests) = g[N]
  BY DEF Atomic!EnqueueAll
<1> HIDE DEF g
<1>9. /\ g[0] = t
      /\ \A n \in 1..N : g[n] = Atomic!EnqueueOne(g[n - 1], requests[n])
  BY <1>1, <1>7
<1>10. g[N] = f[N]
  <2>1. Alike(g, f, N)
    BY <1>4, <1>5, <1>9 DEF Alike
  <2> HIDE DEF N
  <2> QED
    BY <1>1, <2>1, Unique
<1> QED
  BY <1>1, <1>4, <1>5, <1>8, <1>10 DEF AllUnfolds

\* The one of AfterCalls.
CallsUnfolds(S, t, calls) ==
    \E f \in [0..Len(calls) -> S] :
       /\ f[0] = t
       /\ \A n \in DOMAIN calls : f[n] = Atomic!EnqueueAll(f[n - 1], calls[n].requests)
       /\ Atomic!AfterCalls(t, calls) = f[Len(calls)]

LEMMA CallsIs ==
    ASSUME NEW S \in SUBSET Table, NEW t \in S, NEW calls \in Seq(Call),
           \A u \in S, n \in DOMAIN calls : Atomic!EnqueueAll(u, calls[n].requests) \in S
    PROVE  CallsUnfolds(S, t, calls)
<1> DEFINE N == Len(calls)
           G == [p \in S \X (1..N) |-> Atomic!EnqueueAll(p[1], calls[p[2]].requests)]
           After(g) == [n \in 0..N |-> IF n = 0 THEN t ELSE Atomic!EnqueueAll(g[n - 1], calls[n].requests)]
           g == CHOOSE g : g = After(g)
<1>1. N \in Nat /\ DOMAIN calls = 1..N
  BY LenProperties
<1>2. G \in [S \X (1..N) -> S]
  BY <1>1
<1>3. \A u \in S, n \in 1..N : G[<<u, n>>] = Atomic!EnqueueAll(u, calls[n].requests)
  OBVIOUS
<1> HIDE DEF G
<1>4. PICK f \in [0..N -> S] : f[0] = t /\ \A n \in 1..N : f[n] = G[<<f[n - 1], n>>]
  <2>1. Unfolds(N, S, t, G)
    BY <1>1, <1>2, Recursion
  <2> QED
    BY <2>1 DEF Unfolds
<1>5. \A n \in 1..N : f[n] = Atomic!EnqueueAll(f[n - 1], calls[n].requests)
  <2> SUFFICES ASSUME NEW n \in 1..N PROVE f[n] = Atomic!EnqueueAll(f[n - 1], calls[n].requests)
    OBVIOUS
  <2>1. n - 1 \in 0..N
    BY <1>1
  <2>2. f[n - 1] \in S
    BY <2>1
  <2> QED
    BY <1>3, <1>4, <2>2
<1>6. f = After(f)
  BY <1>4, <1>5
<1>7. g = After(g)
  BY <1>6
<1>8. Atomic!AfterCalls(t, calls) = g[N]
  BY DEF Atomic!AfterCalls
<1> HIDE DEF g
<1>9. /\ g[0] = t
      /\ \A n \in 1..N : g[n] = Atomic!EnqueueAll(g[n - 1], calls[n].requests)
  BY <1>1, <1>7
<1>10. g[N] = f[N]
  <2>1. Alike(g, f, N)
    BY <1>4, <1>5, <1>9 DEF Alike
  <2> HIDE DEF N
  <2> QED
    BY <1>1, <2>1, Unique
<1> QED
  BY <1>1, <1>4, <1>5, <1>8, <1>10 DEF CallsUnfolds

\* A batch in a table with rows that have other ids and keys.
Foreign(s, requests) ==
    \A n \in DOMAIN requests : requests[n].id \notin DOMAIN s /\ KeyHolders(s, requests[n].job_key) = {}

LEMMA Elements ==
    ASSUME NEW requests \in Seq(Asked), NEW n \in DOMAIN requests
    PROVE  n \in 1..Len(requests) /\ n - 1 \in 0..Len(requests) /\ Len(requests) \in Nat /\ requests[n] \in Asked
<1>1. DOMAIN requests = 1..Len(requests) /\ Len(requests) \in Nat
  BY LenProperties
<1>2. requests[n] \in Asked
  BY <1>1, ElementOfSeq
<1> QED
  BY <1>1, <1>2

LEMMA AllTable ==
    ASSUME NEW t \in Table, NEW requests \in Seq(Asked)
    PROVE  /\ Atomic!EnqueueAll(t, requests) \in Table
           /\ DOMAIN Atomic!EnqueueAll(t, requests) \subseteq DOMAIN t \cup IdsOf(requests)
<1> DEFINE S == {u \in Table : DOMAIN u \subseteq DOMAIN t \cup IdsOf(requests)}
<1>1. S \in SUBSET Table /\ t \in S
  OBVIOUS
<1>2. ASSUME NEW u \in S, NEW n \in DOMAIN requests PROVE Atomic!EnqueueOne(u, requests[n]) \in S
  <2>1. u \in Table /\ requests[n] \in Asked /\ requests[n].id \in IdsOf(requests)
    BY Elements DEF IdsOf
  <2>2. EnqueuedOne(Atomic!EnqueueOne(u, requests[n]), u, requests[n], KeyHolders(u, requests[n].job_key))
    BY <2>1, OneIs
  <2> QED
    BY <2>1, <2>2 DEF EnqueuedOne
<1> HIDE DEF S
<1>3. AllUnfolds(S, t, requests)
  BY <1>1, <1>2, AllIs
<1>4. Len(requests) \in 0..Len(requests)
  BY LenProperties
<1>5. Atomic!EnqueueAll(t, requests) \in S
  BY <1>3, <1>4 DEF AllUnfolds
<1> QED
  BY <1>5 DEF S

LEMMA AllJoin ==
    ASSUME NEW t \in Table, NEW s \in Table, NEW requests \in Seq(Asked),
           DOMAIN t \cap DOMAIN s = {}, Foreign(s, requests)
    PROVE  Atomic!EnqueueAll(Join(t, s), requests) = Join(Atomic!EnqueueAll(t, requests), s)
<1> DEFINE S == {u \in Table : DOMAIN u \cap DOMAIN s = {}}
           N == Len(requests)
<1>1. S \in SUBSET Table /\ t \in S
  OBVIOUS
<1>2. ASSUME NEW u \in S, NEW n \in DOMAIN requests
      PROVE  /\ Atomic!EnqueueOne(u, requests[n]) \in S
             /\ Atomic!EnqueueOne(Join(u, s), requests[n]) = Join(Atomic!EnqueueOne(u, requests[n]), s)
  <2>1. u \in Table /\ DOMAIN u \cap DOMAIN s = {} /\ requests[n] \in Asked
    BY Elements
  <2>2. requests[n].id \notin DOMAIN s /\ KeyHolders(s, requests[n].job_key) = {}
    BY DEF Foreign
  <2>3. EnqueuedOne(Atomic!EnqueueOne(u, requests[n]), u, requests[n], KeyHolders(u, requests[n].job_key))
    BY <2>1, OneIs
  <2>4. Atomic!EnqueueOne(u, requests[n]) \in Table
    BY <2>3 DEF EnqueuedOne
  <2> QED
    BY <2>1, <2>2, <2>4, OneJoin
<1> HIDE DEF S
<1>3. AllUnfolds(S, t, requests)
  BY <1>1, <1>2, AllIs
<1>4. PICK f \in [0..N -> S] :
         /\ f[0] = t
         /\ \A n \in DOMAIN requests : f[n] = Atomic!EnqueueOne(f[n - 1], requests[n])
         /\ Atomic!EnqueueAll(t, requests) = f[N]
  BY <1>3 DEF AllUnfolds
<1>5. Join(t, s) \in Table
  BY JoinIs
<1>6. \A u \in Table, n \in DOMAIN requests : Atomic!EnqueueOne(u, requests[n]) \in Table
  BY OneIs, Elements DEF EnqueuedOne
<1>7. AllUnfolds(Table, Join(t, s), requests)
  BY <1>5, <1>6, AllIs
<1>8. PICK h \in [0..N -> Table] :
         /\ h[0] = Join(t, s)
         /\ \A n \in DOMAIN requests : h[n] = Atomic!EnqueueOne(h[n - 1], requests[n])
         /\ Atomic!EnqueueAll(Join(t, s), requests) = h[N]
  BY <1>7 DEF AllUnfolds
<1>9. N \in Nat /\ DOMAIN requests = 1..N
  BY LenProperties
<1> DEFINE g == [n \in 0..N |-> Join(f[n], s)]
<1>10. Alike(h, g, N)
  <2>1. h[0] = g[0]
    BY <1>4, <1>8, <1>9
  <2>2. ASSUME NEW n \in 1..N, h[n - 1] = g[n - 1] PROVE h[n] = g[n]
    <3>1. n - 1 \in 0..N /\ n \in 0..N /\ n \in DOMAIN requests
      BY <1>9
    <3>2. f[n - 1] \in S
      BY <3>1
    <3>3. h[n] = Atomic!EnqueueOne(Join(f[n - 1], s), requests[n])
      BY <1>8, <2>2, <3>1
    <3>4. h[n] = Join(f[n], s)
      BY <1>2, <1>4, <3>1, <3>2, <3>3
    <3> QED
      BY <3>1, <3>4
  <2> QED
    BY <2>1, <2>2 DEF Alike
<1>11. h[N] = g[N]
  <2> HIDE DEF g, N
  <2> QED
    BY <1>9, <1>10, Unique
<1>12. g[N] = Join(f[N], s)
  BY <1>9
<1> QED
  BY <1>4, <1>8, <1>11, <1>12

LEMMA CallElements ==
    ASSUME NEW calls \in Seq(Call), NEW n \in DOMAIN calls
    PROVE  n \in 1..Len(calls) /\ n - 1 \in 0..Len(calls) /\ Len(calls) \in Nat /\ calls[n] \in Call
           /\ calls[n].requests \in Seq(Asked)
<1>1. DOMAIN calls = 1..Len(calls) /\ Len(calls) \in Nat
  BY LenProperties
<1>2. calls[n] \in Call
  BY <1>1, ElementOfSeq
<1> QED
  BY <1>1, <1>2 DEF Call

LEMMA CallsTable ==
    ASSUME NEW t \in Table, NEW calls \in Seq(Call)
    PROVE  /\ Atomic!AfterCalls(t, calls) \in Table
           /\ DOMAIN Atomic!AfterCalls(t, calls) \subseteq DOMAIN t \cup AnsweredIds(calls)
<1> DEFINE S == {u \in Table : DOMAIN u \subseteq DOMAIN t \cup AnsweredIds(calls)}
<1>1. S \in SUBSET Table /\ t \in S
  OBVIOUS
<1>2. ASSUME NEW u \in S, NEW n \in DOMAIN calls PROVE Atomic!EnqueueAll(u, calls[n].requests) \in S
  <2>1. u \in Table /\ calls[n].requests \in Seq(Asked) /\ IdsOf(calls[n].requests) \subseteq AnsweredIds(calls)
    BY CallElements DEF AnsweredIds
  <2> QED
    BY <2>1, AllTable
<1> HIDE DEF S
<1>3. CallsUnfolds(S, t, calls)
  BY <1>1, <1>2, CallsIs
<1>4. Len(calls) \in 0..Len(calls)
  BY LenProperties
<1>5. Atomic!AfterCalls(t, calls) \in S
  BY <1>3, <1>4 DEF CallsUnfolds
<1> QED
  BY <1>5 DEF S

\* Calls in a table with rows that have other ids and keys.
LEMMA CallsJoin ==
    ASSUME NEW t \in Table, NEW s \in Table, NEW calls \in Seq(Call),
           DOMAIN t \cap DOMAIN s = {}, \A m \in DOMAIN calls : Foreign(s, calls[m].requests)
    PROVE  Atomic!AfterCalls(Join(t, s), calls) = Join(Atomic!AfterCalls(t, calls), s)
<1> DEFINE S == {u \in Table : DOMAIN u \cap DOMAIN s = {}}
           N == Len(calls)
<1>1. S \in SUBSET Table /\ t \in S
  OBVIOUS
<1>2. ASSUME NEW u \in S, NEW n \in DOMAIN calls
      PROVE  /\ Atomic!EnqueueAll(u, calls[n].requests) \in S
             /\ Atomic!EnqueueAll(Join(u, s), calls[n].requests) = Join(Atomic!EnqueueAll(u, calls[n].requests), s)
  <2>1. u \in Table /\ DOMAIN u \cap DOMAIN s = {} /\ calls[n].requests \in Seq(Asked)
    BY CallElements
  <2>2. Foreign(s, calls[n].requests)
    OBVIOUS
  <2>3. IdsOf(calls[n].requests) \cap DOMAIN s = {}
    BY <2>2 DEF Foreign, IdsOf
  <2>4. /\ Atomic!EnqueueAll(u, calls[n].requests) \in Table
        /\ DOMAIN Atomic!EnqueueAll(u, calls[n].requests) \subseteq DOMAIN u \cup IdsOf(calls[n].requests)
    BY <2>1, AllTable
  <2> QED
    BY <2>1, <2>2, <2>3, <2>4, AllJoin
<1> HIDE DEF S
<1>3. CallsUnfolds(S, t, calls)
  BY <1>1, <1>2, CallsIs
<1>4. PICK f \in [0..N -> S] :
         /\ f[0] = t
         /\ \A n \in DOMAIN calls : f[n] = Atomic!EnqueueAll(f[n - 1], calls[n].requests)
         /\ Atomic!AfterCalls(t, calls) = f[N]
  BY <1>3 DEF CallsUnfolds
<1>5. Join(t, s) \in Table
  BY JoinIs
<1>6. \A u \in Table, n \in DOMAIN calls : Atomic!EnqueueAll(u, calls[n].requests) \in Table
  BY AllTable, CallElements
<1>7. CallsUnfolds(Table, Join(t, s), calls)
  BY <1>5, <1>6, CallsIs
<1>8. PICK h \in [0..N -> Table] :
         /\ h[0] = Join(t, s)
         /\ \A n \in DOMAIN calls : h[n] = Atomic!EnqueueAll(h[n - 1], calls[n].requests)
         /\ Atomic!AfterCalls(Join(t, s), calls) = h[N]
  BY <1>7 DEF CallsUnfolds
<1>9. N \in Nat /\ DOMAIN calls = 1..N
  BY LenProperties
<1> DEFINE g == [n \in 0..N |-> Join(f[n], s)]
<1>10. Alike(h, g, N)
  <2>1. h[0] = g[0]
    BY <1>4, <1>8, <1>9
  <2>2. ASSUME NEW n \in 1..N, h[n - 1] = g[n - 1] PROVE h[n] = g[n]
    <3>1. n - 1 \in 0..N /\ n \in 0..N /\ n \in DOMAIN calls
      BY <1>9
    <3>2. f[n - 1] \in S
      BY <3>1
    <3>3. h[n] = Atomic!EnqueueAll(Join(f[n - 1], s), calls[n].requests)
      BY <1>8, <2>2, <3>1
    <3>4. h[n] = Join(f[n], s)
      BY <1>2, <1>4, <3>1, <3>2, <3>3
    <3> QED
      BY <3>1, <3>4
  <2> QED
    BY <2>1, <2>2 DEF Alike
<1>11. h[N] = g[N]
  <2> HIDE DEF g, N
  <2> QED
    BY <1>9, <1>10, Unique
<1>12. g[N] = Join(f[N], s)
  BY <1>9
<1> QED
  BY <1>4, <1>8, <1>11, <1>12

\* One more call.
LEMMA CallsAppend ==
    ASSUME NEW t \in Table, NEW calls \in Seq(Call), NEW call \in Call
    PROVE  Atomic!AfterCalls(t, Append(calls, call))
             = Atomic!EnqueueAll(Atomic!AfterCalls(t, calls), call.requests)
<1> DEFINE more == Append(calls, call)
           N == Len(calls)
<1>1. /\ N \in Nat /\ DOMAIN calls = 1..N
      /\ more \in Seq(Call) /\ Len(more) = N + 1 /\ DOMAIN more = 1..(N + 1)
      /\ more[N + 1] = call /\ \A n \in 1..N : more[n] = calls[n]
  BY LenProperties, AppendProperties
<1> HIDE DEF more
<1>2. \A u \in Table, n \in DOMAIN more : Atomic!EnqueueAll(u, more[n].requests) \in Table
  BY <1>1, AllTable, CallElements
<1>3. \A u \in Table, n \in DOMAIN calls : Atomic!EnqueueAll(u, calls[n].requests) \in Table
  BY <1>1, AllTable, CallElements
<1>4. CallsUnfolds(Table, t, calls) /\ CallsUnfolds(Table, t, more)
  BY <1>1, <1>2, <1>3, CallsIs
<1>5. PICK f \in [0..N -> Table] :
         /\ f[0] = t
         /\ \A n \in DOMAIN calls : f[n] = Atomic!EnqueueAll(f[n - 1], calls[n].requests)
         /\ Atomic!AfterCalls(t, calls) = f[N]
  BY <1>4 DEF CallsUnfolds
<1>6. PICK h \in [0..(N + 1) -> Table] :
         /\ h[0] = t
         /\ \A n \in 1..(N + 1) : h[n] = Atomic!EnqueueAll(h[n - 1], more[n].requests)
         /\ Atomic!AfterCalls(t, more) = h[N + 1]
  BY <1>1, <1>4 DEF CallsUnfolds
<1>7. Alike(h, f, N)
  <2>1. ASSUME NEW n \in 1..N, h[n - 1] = f[n - 1] PROVE h[n] = f[n]
    <3>1. n \in 1..(N + 1) /\ n \in DOMAIN calls /\ more[n] = calls[n]
      BY <1>1
    <3> QED
      BY <1>5, <1>6, <2>1, <3>1
  <2> QED
    BY <1>5, <1>6, <2>1 DEF Alike
<1>8. h[N] = f[N]
  <2> HIDE DEF N
  <2> QED
    BY <1>1, <1>7, Unique
<1>9. h[N + 1] = Atomic!EnqueueAll(h[N], call.requests)
  <2>1. N + 1 \in 1..(N + 1) /\ (N + 1) - 1 = N
    BY <1>1
  <2> QED
    BY <1>1, <1>6, <2>1
<1> QED
  BY <1>5, <1>6, <1>8, <1>9 DEF more

LEMMA CallsNone ==
    ASSUME NEW t \in Table
    PROVE  Atomic!AfterCalls(t, <<>>) = t
<1> DEFINE calls == <<>>
<1>1. calls \in Seq(Call) /\ Len(calls) = 0 /\ DOMAIN calls = {}
  OBVIOUS
<1> HIDE DEF calls
<1>2. CallsUnfolds(Table, t, calls)
  BY <1>1, CallsIs
<1>3. Atomic!AfterCalls(t, calls) = t
  BY <1>1, <1>2 DEF CallsUnfolds
<1> QED
  BY <1>3 DEF calls

-----------------------------------------------------------------------------
(* Batches in any order *)

Separate(t, requests) ==
    /\ Atomic!DistinctKeys(requests) /\ DistinctIds(requests)
    /\ IdsOf(requests) \cap DOMAIN t = {}

LEMMA EnqueuedKeeps ==
    ASSUME NEW t \in Table, NEW u, NEW requests \in Seq(Asked), NEW D \in SUBSET DOMAIN requests,
           Enqueued(u, t, requests, D), NEW i \in DOMAIN t
    PROVE  i \in DOMAIN u /\ u[i].status = t[i].status /\ u[i].job_key = t[i].job_key
<1>1. i \in DOMAIN u
  BY DEF Enqueued
<1>2. CASE \A n \in D : i \notin KeyHolders(t, requests[n].job_key)
  BY <1>1, <1>2 DEF Enqueued
<1>3. ASSUME NEW n \in D, i \in KeyHolders(t, requests[n].job_key)
      PROVE  u[i].status = t[i].status /\ u[i].job_key = t[i].job_key
  <2>1. requests[n] \in Asked /\ t[i] \in Row
    BY Elements, TableIs
  <2>2. u[i] = Upserted(t[i], requests[n].def, requests[n].mode, requests[n].run_at)
    BY <1>3 DEF Enqueued
  <2> QED
    BY <2>1, <2>2, UpsertedIs
<1> QED
  BY <1>1, <1>2, <1>3

\* What a request of a batch has added.
LEMMA EnqueuedAdds ==
    ASSUME NEW t \in Table, NEW u, NEW requests \in Seq(Asked), NEW D \in SUBSET DOMAIN requests,
           Enqueued(u, t, requests, D), NEW i \in DOMAIN u \ DOMAIN t
    PROVE  \E m \in D : /\ i = requests[m].id /\ KeyHolders(t, requests[m].job_key) = {}
                        /\ Active(u[i]) /\ u[i].job_key = requests[m].job_key
<1>1. PICK m \in D : i = requests[m].id /\ KeyHolders(t, requests[m].job_key) = {}
  BY DEF Enqueued
<1>2. u[i] = NewRow(requests[m].def, requests[m].job_key, requests[m].run_at)
  BY <1>1 DEF Enqueued
<1>3. requests[m] \in Asked
  BY Elements
<1> QED
  BY <1>1, <1>2, <1>3, NewRowIs

\* The holders of a key that no resolved request has.
LEMMA EnqueuedHolders ==
    ASSUME NEW t \in Table, NEW u, NEW requests \in Seq(Asked), NEW D \in SUBSET DOMAIN requests,
           Enqueued(u, t, requests, D), NEW k, k # NULL => \A m \in D : requests[m].job_key # k
    PROVE  KeyHolders(u, k) = KeyHolders(t, k)
<1>1. ASSUME NEW i \in DOMAIN t PROVE i \in KeyHolders(u, k) <=> i \in KeyHolders(t, k)
  <2>1. i \in DOMAIN u /\ u[i].status = t[i].status /\ u[i].job_key = t[i].job_key
    BY EnqueuedKeeps
  <2> QED
    BY <2>1 DEF KeyHolders, Active
<1>2. ASSUME NEW i \in KeyHolders(u, k), i \notin DOMAIN t PROVE FALSE
  <2>1. i \in DOMAIN u /\ k # NULL /\ u[i].job_key = k
    BY <1>2 DEF KeyHolders
  <2>2. PICK m \in D : u[i].job_key = requests[m].job_key
    BY <1>2, <2>1, EnqueuedAdds
  <2> QED
    BY <2>1, <2>2
<1>3. KeyHolders(t, k) \subseteq DOMAIN t
  BY DEF KeyHolders
<1> QED
  BY <1>1, <1>2, <1>3

LEMMA EnqueuedStep ==
    ASSUME NEW t \in Table, NEW u \in Table, NEW requests \in Seq(Asked), Separate(t, requests),
           NEW D \in SUBSET DOMAIN requests, NEW n \in DOMAIN requests \ D,
           Enqueued(u, t, requests, D)
    PROVE  Enqueued(Atomic!EnqueueOne(u, requests[n]), t, requests, D \cup {n})
<1> DEFINE q == requests[n]
           v == Atomic!EnqueueOne(u, q)
           H == KeyHolders(t, q.job_key)
           Fresh(E) == {requests[m].id : m \in {m \in E : KeyHolders(t, requests[m].job_key) = {}}}
<1>1. q \in Asked /\ q.id \notin DOMAIN t
  BY Elements DEF Separate, IdsOf
<1>2. \A m \in D : m # n /\ m \in DOMAIN requests
  OBVIOUS
<1>3. \A m \in D : q.job_key # NULL => requests[m].job_key # q.job_key
  BY <1>2 DEF Separate, Atomic!DistinctKeys
<1>4. \A m \in D : requests[m].id # q.id /\ requests[m].id \notin DOMAIN t
  BY <1>2 DEF Separate, DistinctIds, IdsOf
<1>5. KeyHolders(u, q.job_key) = H
  BY <1>3, EnqueuedHolders
<1>6. EnqueuedOne(v, u, q, H)
  BY <1>1, <1>5, OneIs
<1>7. H \subseteq DOMAIN t
  BY DEF KeyHolders
<1>8. DOMAIN u = DOMAIN t \cup Fresh(D)
  BY DEF Enqueued
<1>9. DOMAIN v = DOMAIN t \cup Fresh(D \cup {n})
  <2>1. Fresh(D \cup {n}) = IF H = {} THEN Fresh(D) \cup {q.id} ELSE Fresh(D)
    OBVIOUS
  <2> QED
    BY <1>6, <1>8, <2>1 DEF EnqueuedOne
<1>10. ASSUME NEW m \in D, NEW i \in KeyHolders(t, requests[m].job_key)
       PROVE  i \in DOMAIN t /\ i \notin H
  <2>1. i \in DOMAIN t /\ requests[m].job_key # NULL /\ t[i].job_key = requests[m].job_key
    BY DEF KeyHolders
  <2>2. i \in H => q.job_key # NULL /\ t[i].job_key = q.job_key
    BY DEF KeyHolders
  <2> QED
    BY <2>1, <2>2, <1>3
<1>11. \A i \in DOMAIN u : i \notin H /\ i # q.id => v[i] = u[i]
  BY <1>6 DEF EnqueuedOne
<1> HIDE DEF v
<1>12. ASSUME NEW m \in D
       PROVE  LET p == requests[m]
              IN  /\ KeyHolders(t, p.job_key) = {} => v[p.id] = NewRow(p.def, p.job_key, p.run_at)
                  /\ \A i \in KeyHolders(t, p.job_key) : v[i] = Upserted(t[i], p.def, p.mode, p.run_at)
  <2> DEFINE p == requests[m]
  <2>1. ASSUME KeyHolders(t, p.job_key) = {} PROVE v[p.id] = NewRow(p.def, p.job_key, p.run_at)
    <3>1. p.id \in DOMAIN u /\ u[p.id] = NewRow(p.def, p.job_key, p.run_at)
      BY <2>1, <1>8 DEF Enqueued
    <3>2. p.id \notin H /\ p.id # q.id
      BY <1>4, <1>7
    <3> QED
      BY <3>1, <3>2, <1>11
  <2>2. ASSUME NEW i \in KeyHolders(t, p.job_key) PROVE v[i] = Upserted(t[i], p.def, p.mode, p.run_at)
    <3>1. u[i] = Upserted(t[i], p.def, p.mode, p.run_at)
      BY DEF Enqueued
    <3>2. i \in DOMAIN t /\ i \notin H
      BY <1>10
    <3>3. i \in DOMAIN u /\ i # q.id
      BY <1>1, <1>8, <3>2
    <3> QED
      BY <3>1, <3>2, <3>3, <1>11
  <2> QED
    BY <2>1, <2>2
<1>13. /\ H = {} => v[q.id] = NewRow(q.def, q.job_key, q.run_at)
       /\ \A i \in H : v[i] = Upserted(t[i], q.def, q.mode, q.run_at)
  <2>1. ASSUME NEW i \in H PROVE u[i] = t[i]
    <3>1. \A m \in D : i \notin KeyHolders(t, requests[m].job_key)
      BY <1>10
    <3> QED
      BY <1>7, <3>1 DEF Enqueued
  <2> QED
    BY <2>1, <1>6 DEF EnqueuedOne
<1>14. ASSUME NEW i \in DOMAIN t, \A m \in D \cup {n} : i \notin KeyHolders(t, requests[m].job_key)
       PROVE  v[i] = t[i]
  <2>1. u[i] = t[i]
    BY <1>14 DEF Enqueued
  <2>2. i \notin H /\ i # q.id /\ i \in DOMAIN u
    BY <1>1, <1>8, <1>14
  <2> QED
    BY <2>1, <2>2, <1>11
<1> HIDE DEF H, q
<1>15. \A m \in D \cup {n} :
          LET p == requests[m]
          IN  /\ KeyHolders(t, p.job_key) = {} => v[p.id] = NewRow(p.def, p.job_key, p.run_at)
              /\ \A i \in KeyHolders(t, p.job_key) : v[i] = Upserted(t[i], p.def, p.mode, p.run_at)
  BY <1>12, <1>13 DEF H, q
<1> QED
  BY <1>9, <1>14, <1>15 DEF Enqueued, v, q

LEMMA EnqueuedNone ==
    ASSUME NEW t \in Table, NEW requests
    PROVE  Enqueued(t, t, requests, {})
  BY DEF Enqueued

LEMMA EnqueuedUnique ==
    ASSUME NEW t \in Table, NEW u \in Table, NEW v \in Table, NEW requests, NEW D,
           Enqueued(u, t, requests, D), Enqueued(v, t, requests, D)
    PROVE  u = v
<1>1. DOMAIN u = DOMAIN v
  BY DEF Enqueued
<1>2. ASSUME NEW i \in DOMAIN u PROVE u[i] = v[i]
  <2>1. CASE i \in DOMAIN t /\ \A n \in D : i \notin KeyHolders(t, requests[n].job_key)
    BY <2>1 DEF Enqueued
  <2>2. ASSUME NEW n \in D, i \in KeyHolders(t, requests[n].job_key) PROVE u[i] = v[i]
    BY <2>2 DEF Enqueued
  <2>3. CASE i \notin DOMAIN t
    <3>1. PICK n \in D : KeyHolders(t, requests[n].job_key) = {} /\ i = requests[n].id
      BY <2>3 DEF Enqueued
    <3> QED
      BY <3>1 DEF Enqueued
  <2> QED
    BY <2>1, <2>2, <2>3
<1> QED
  BY <1>1, <1>2, TablesEqual

\* A batch resolved in any order is the batch resolved in the order of its requests.
LEMMA EnqueuedAll ==
    ASSUME NEW t \in Table, NEW u \in Table, NEW requests \in Seq(Asked), Separate(t, requests),
           Enqueued(u, t, requests, DOMAIN requests)
    PROVE  u = Atomic!EnqueueAll(t, requests)
<1> DEFINE N == Len(requests)
<1>1. N \in Nat /\ DOMAIN requests = 1..N
  BY LenProperties
<1>2. \A v \in Table, n \in DOMAIN requests : Atomic!EnqueueOne(v, requests[n]) \in Table
  BY OneIs, Elements DEF EnqueuedOne
<1>3. AllUnfolds(Table, t, requests)
  BY <1>2, AllIs
<1>4. PICK f \in [0..N -> Table] :
         /\ f[0] = t
         /\ \A n \in DOMAIN requests : f[n] = Atomic!EnqueueOne(f[n - 1], requests[n])
         /\ Atomic!EnqueueAll(t, requests) = f[N]
  BY <1>3 DEF AllUnfolds
<1> HIDE DEF N
<1> DEFINE S == {n \in 0..N : Enqueued(f[n], t, requests, 1..n)}
<1>5. 0 \in S
  <2>1. 1..0 = {} /\ 0 \in 0..N
    BY <1>1
  <2> QED
    BY <1>4, <2>1, EnqueuedNone
<1>6. ASSUME NEW n \in 1..N, n - 1 \in S PROVE n \in S
  <2>1. n - 1 \in 0..N /\ n \in DOMAIN requests \ 1..(n - 1) /\ 1..(n - 1) \in SUBSET DOMAIN requests
    BY <1>1
  <2>2. f[n - 1] \in Table /\ Enqueued(f[n - 1], t, requests, 1..(n - 1))
    BY <1>6, <2>1
  <2>3. Enqueued(Atomic!EnqueueOne(f[n - 1], requests[n]), t, requests, 1..(n - 1) \cup {n})
    BY <2>1, <2>2, EnqueuedStep
  <2>4. 1..(n - 1) \cup {n} = 1..n /\ n \in 0..N
    BY <1>1
  <2>5. f[n] = Atomic!EnqueueOne(f[n - 1], requests[n])
    BY <1>4, <2>1
  <2> QED
    BY <2>3, <2>4, <2>5
<1> HIDE DEF S
<1>7. N \in S
  <2>1. 0..N \subseteq S
    BY <1>1, <1>5, <1>6, Induct
  <2> QED
    BY <1>1, <2>1
<1>8. Enqueued(f[N], t, requests, DOMAIN requests) /\ f[N] \in Table
  BY <1>1, <1>7 DEF S
<1> QED
  BY <1>4, <1>8, EnqueuedUnique

\* The rest of the table.
LEMMA EnqueuedJoin ==
    ASSUME NEW t \in Table, NEW u \in Table, NEW s \in Table, NEW requests \in Seq(Asked),
           NEW D \in SUBSET DOMAIN requests, Enqueued(u, t, requests, D),
           DOMAIN t \cap DOMAIN s = {},
           \A m \in D : requests[m].id \notin DOMAIN s /\ KeyHolders(s, requests[m].job_key) = {}
    PROVE  Enqueued(Join(u, s), Join(t, s), requests, D) /\ DOMAIN u \cap DOMAIN s = {}
<1>1. ASSUME NEW m \in D
      PROVE  KeyHolders(Join(t, s), requests[m].job_key) = KeyHolders(t, requests[m].job_key)
  <2>1. KeyHolders(Join(t, s), requests[m].job_key)
          = KeyHolders(t, requests[m].job_key) \cup KeyHolders(s, requests[m].job_key)
    BY JoinHolders
  <2> QED
    BY <2>1
<1>2. DOMAIN u \cap DOMAIN s = {}
  BY DEF Enqueued
<1>3. /\ DOMAIN Join(t, s) = DOMAIN t \cup DOMAIN s
      /\ \A i \in DOMAIN t : Join(t, s)[i] = t[i]
      /\ \A i \in DOMAIN s \ DOMAIN t : Join(t, s)[i] = s[i]
  BY JoinIs
<1>4. /\ DOMAIN Join(u, s) = DOMAIN u \cup DOMAIN s
      /\ \A i \in DOMAIN u : Join(u, s)[i] = u[i]
      /\ \A i \in DOMAIN s \ DOMAIN u : Join(u, s)[i] = s[i]
  BY JoinIs
<1>5. DOMAIN t \subseteq DOMAIN u
  BY DEF Enqueued
<1>6. DOMAIN Join(u, s) = DOMAIN Join(t, s)
           \cup {requests[n].id : n \in {m \in D : KeyHolders(Join(t, s), requests[m].job_key) = {}}}
  <2>1. {m \in D : KeyHolders(Join(t, s), requests[m].job_key) = {}}
          = {m \in D : KeyHolders(t, requests[m].job_key) = {}}
    BY <1>1
  <2> QED
    BY <1>3, <1>4, <2>1 DEF Enqueued
<1>7. ASSUME NEW n \in D
      PROVE  LET q == requests[n]
             IN  /\ KeyHolders(Join(t, s), q.job_key) = {} => Join(u, s)[q.id] = NewRow(q.def, q.job_key, q.run_at)
                 /\ \A i \in KeyHolders(Join(t, s), q.job_key) :
                       Join(u, s)[i] = Upserted(Join(t, s)[i], q.def, q.mode, q.run_at)
  <2> DEFINE q == requests[n]
  <2>1. ASSUME KeyHolders(t, q.job_key) = {} PROVE Join(u, s)[q.id] = NewRow(q.def, q.job_key, q.run_at)
    <3>1. q.id \in DOMAIN u /\ u[q.id] = NewRow(q.def, q.job_key, q.run_at)
      BY <2>1 DEF Enqueued
    <3> QED
      BY <3>1, <1>4
  <2>2. ASSUME NEW i \in KeyHolders(t, q.job_key)
        PROVE  Join(u, s)[i] = Upserted(Join(t, s)[i], q.def, q.mode, q.run_at)
    <3>1. i \in DOMAIN t
      BY DEF KeyHolders
    <3>2. u[i] = Upserted(t[i], q.def, q.mode, q.run_at)
      BY DEF Enqueued
    <3> QED
      BY <3>1, <3>2, <1>3, <1>4, <1>5
  <2> QED
    BY <1>1, <2>1, <2>2
<1>8. ASSUME NEW i \in DOMAIN Join(t, s),
             \A n \in D : i \notin KeyHolders(Join(t, s), requests[n].job_key)
      PROVE  Join(u, s)[i] = Join(t, s)[i]
  <2>1. \A n \in D : i \notin KeyHolders(t, requests[n].job_key)
    BY <1>1, <1>8
  <2>2. CASE i \in DOMAIN t
    <3>1. u[i] = t[i]
      BY <2>1, <2>2 DEF Enqueued
    <3> QED
      BY <2>2, <3>1, <1>3, <1>4, <1>5
  <2>3. CASE i \in DOMAIN s
    BY <2>3, <1>2, <1>3, <1>4
  <2> QED
    BY <2>2, <2>3, <1>3
<1>9. Enqueued(Join(u, s), Join(t, s), requests, D)
  BY <1>6, <1>7, <1>8 DEF Enqueued
<1> QED
  BY <1>2, <1>9

-----------------------------------------------------------------------------
(* A caller's record *)

LEMMA RestrictIs ==
    ASSUME NEW b \in Table, NEW X \in SUBSET DOMAIN b
    PROVE  /\ Restrict(b, X) \in Table /\ DOMAIN Restrict(b, X) = X
           /\ \A i \in X : Restrict(b, X)[i] = b[i]
<1>1. \A i \in X : b[i] \in Row /\ i \in Nat
  BY TableIs
<1> DEFINE u == Restrict(b, X)
<1>2. u = [i \in X |-> b[i]]
  BY DEF Restrict
<1> HIDE DEF u
<1>3. u \in [X -> Row] /\ X \in SUBSET Nat
  BY <1>1, <1>2
<1>4. u \in Table
  BY <1>3 DEF Table
<1>5. DOMAIN u = X /\ \A i \in X : u[i] = b[i]
  BY <1>2
<1> QED
  BY <1>4, <1>5 DEF u

LEMMA NoRowsIs == NoRows \in Table /\ DOMAIN NoRows = {}
<1>1. NoRows \in [{} -> Row]
  BY DEF NoRows
<1> QED
  BY <1>1 DEF Table, NoRows

LEMMA CallerIs ==
    ASSUME NEW r \in Caller
    PROVE  /\ r.pc \in {"idle", "inserting", "open"} /\ r.requests \in Seq(Asked)
           /\ r.left \in SUBSET Nat /\ r.wrote \in Table /\ r.saved \in Table
           /\ r.ids_by_job_key \in UNION {[S -> Nat] : S \in SUBSET Keys}
           /\ r.answered \in Seq(Call) /\ r.calls \in Nat
           /\ Kept(r) \in Table
  BY DEF Caller, Kept

LEMMA HoldersIs ==
    ASSUME NEW t, NEW k, NEW i
    PROVE  i \in KeyHolders(t, k) <=> i \in DOMAIN t /\ k # NULL /\ Active(t[i]) /\ t[i].job_key = k
  BY DEF KeyHolders

LEMMA OneHolderIs ==
    ASSUME NEW t \in Table
    PROVE  OneHolder(t) <=> \A i, j \in DOMAIN t : /\ Active(t[i]) /\ Active(t[j])
                                                   /\ t[i].job_key = t[j].job_key /\ t[i].job_key # NULL
                                                   => i = j
<1> DEFINE P(i, j) == /\ Active(t[i]) /\ Active(t[j])
                      /\ t[i].job_key = t[j].job_key /\ t[i].job_key # NULL
<1>1. \A i \in DOMAIN t : t[i].job_key \in Keys \cup {NULL}
  BY TableIs DEF Row
<1>2. ASSUME OneHolder(t), NEW i \in DOMAIN t, NEW j \in DOMAIN t, P(i, j)
      PROVE  i = j
  <2>1. i \in KeyHolders(t, t[i].job_key) /\ j \in KeyHolders(t, t[i].job_key) /\ t[i].job_key \in Keys
    BY <1>1, <1>2, HoldersIs
  <2> QED
    BY <1>2, <2>1 DEF OneHolder
<1>3. ASSUME \A i, j \in DOMAIN t : P(i, j) => i = j PROVE OneHolder(t)
  <2>1. ASSUME NEW k \in Keys, NEW i \in KeyHolders(t, k), NEW j \in KeyHolders(t, k) PROVE i = j
    <3>1. i \in DOMAIN t /\ j \in DOMAIN t /\ P(i, j)
      BY HoldersIs
    <3> QED
      BY <1>3, <3>1
  <2> QED
    BY <2>1 DEF OneHolder
<1> HIDE DEF P
<1>4. OneHolder(t) <=> \A i, j \in DOMAIN t : P(i, j) => i = j
  BY <1>2, <1>3
<1> QED
  BY <1>4 DEF P

\* A table with fewer active rows, under the same keys.
LEMMA FewerHolders ==
    ASSUME NEW t \in Table, NEW u \in Table, OneHolder(t),
           \A i \in DOMAIN u : Active(u[i]) => i \in DOMAIN t /\ Active(t[i]) /\ t[i].job_key = u[i].job_key
    PROVE  OneHolder(u)
  BY OneHolderIs

\* Other callers and the workers do not touch what r has locked.
LEMMA OthersSound ==
    ASSUME NEW b \in Table, NEW b1 \in Table, NEW n \in Nat, NEW n1 \in Nat, n <= n1,
           NEW r \in Caller, Sound(b, n, r),
           \A i \in DOMAIN r.wrote : /\ i \in DOMAIN b <=> i \in DOMAIN b1
                                     /\ i \in DOMAIN b => b1[i] = b[i],
           Ids(r) \cap DOMAIN b1 = {}, OneHolder(Join(r.wrote, b1))
    PROVE  Sound(b1, n1, r)
<1>1. DOMAIN r.saved \subseteq DOMAIN r.wrote /\ DOMAIN Kept(r) \subseteq DOMAIN r.wrote
  BY DEF Sound, Writes, Kept
<1>2. ASSUME NEW t, DOMAIN t \subseteq DOMAIN r.wrote PROVE Base(b1, t) = Base(b, t)
  <2>1. DOMAIN b1 \cap DOMAIN t = DOMAIN b \cap DOMAIN t
    BY <1>2
  <2>2. \A i \in DOMAIN b \cap DOMAIN t : b1[i] = b[i]
    BY <1>2
  <2> QED
    BY <2>1, <2>2 DEF Base, Restrict
<1>3. Base(b1, r.wrote) = Base(b, r.wrote) /\ Base(b1, Kept(r)) = Base(b, Kept(r))
  BY <1>1, <1>2
<1>4. Writes(b1, n1, r)
  BY DEF Sound, Writes
<1>5. Answers(b1, r)
  BY <1>1, <1>3 DEF Sound, Answers
<1>6. Inserts(b1, r)
  BY <1>3 DEF Sound, Inserts
<1> QED
  BY <1>4, <1>5, <1>6 DEF Sound

LEMMA IdleSound ==
    ASSUME NEW b \in Table, NEW n \in Nat, OneHolder(b), NEW k \in Nat
    PROVE  Idle(k) \in Caller /\ Ids(Idle(k)) = {} /\ Sound(b, n, Idle(k))
<1> DEFINE r == Idle(k)
<1>1. /\ r.pc = "idle" /\ r.requests = <<>> /\ r.left = {} /\ r.wrote = NoRows /\ r.saved = NoRows
      /\ r.ids_by_job_key = NoRows /\ r.answered = <<>> /\ r.calls = k
  BY DEF Idle
<1>2. r \in Caller
  <2>1. NoRows \in [{} -> Nat] /\ {} \in SUBSET Keys
    BY DEF NoRows
  <2>2. NoRows \in UNION {[S -> Nat] : S \in SUBSET Keys}
    BY <2>1
  <2>3. NoRows \in Table
    BY NoRowsIs
  <2>4. <<>> \in Seq(Asked) /\ <<>> \in Seq(Call)
    OBVIOUS
  <2> QED
    BY <2>2, <2>3, <2>4 DEF Idle, Caller
<1> HIDE DEF r
<1>3. Ids(r) = {}
  BY <1>1 DEF Ids, IdsOf, AnsweredIds
<1>4. Kept(r) = NoRows
  BY <1>1 DEF Kept
<1>5. Writes(b, n, r)
  <2>1. NoRows \in Table /\ DOMAIN NoRows = {}
    BY NoRowsIs
  <2>2. Join(NoRows, b) = b
    <3>1. /\ Join(NoRows, b) \in Table
          /\ DOMAIN Join(NoRows, b) = DOMAIN NoRows \cup DOMAIN b
          /\ \A i \in DOMAIN b \ DOMAIN NoRows : Join(NoRows, b)[i] = b[i]
      BY <2>1, JoinIs
    <3> QED
      BY <2>1, <3>1, TablesEqual
  <2> QED
    BY <1>1, <1>3, <2>1, <2>2 DEF Writes
<1>6. Answers(b, r)
  <2>1. NoRows \in Table /\ DOMAIN NoRows = {}
    BY NoRowsIs
  <2>2. Base(b, NoRows) = NoRows
    <3>1. DOMAIN b \cap DOMAIN NoRows = {}
      BY <2>1
    <3>2. Restrict(b, {}) \in Table /\ DOMAIN Restrict(b, {}) = {}
      BY RestrictIs
    <3> QED
      BY <2>1, <3>1, <3>2, TablesEqual DEF Base
  <2>3. Atomic!AfterCalls(NoRows, <<>>) = NoRows
    BY <2>1, CallsNone
  <2>4. Atomic!RightIds(NoRows, <<>>)
    BY DEF Atomic!RightIds
  <2> QED
    BY <1>1, <1>4, <2>1, <2>2, <2>3, <2>4 DEF Answers
<1>7. Inserts(b, r)
  BY <1>1 DEF Inserts
<1> QED
  BY <1>2, <1>3, <1>5, <1>6, <1>7 DEF Sound, r

\* Only the number of calls differs.
LEMMA SameSound ==
    ASSUME NEW b, NEW n, NEW r \in Caller, NEW r1, Sound(b, n, r),
           r1.pc = r.pc, r1.requests = r.requests, r1.left = r.left, r1.wrote = r.wrote,
           r1.saved = r.saved, r1.ids_by_job_key = r.ids_by_job_key, r1.answered = r.answered
    PROVE  Sound(b, n, r1) /\ Ids(r1) = Ids(r)
<1>1. Ids(r1) = Ids(r) /\ Kept(r1) = Kept(r)
  BY DEF Ids, Kept
<1>2. Writes(b, n, r1)
  BY <1>1 DEF Sound, Writes
<1>3. Answers(b, r1)
  BY <1>1 DEF Sound, Answers
<1>4. Inserts(b, r1)
  BY DEF Sound, Inserts
<1> QED
  BY <1>1, <1>2, <1>3, <1>4 DEF Sound

\* A batch begins: its ids are new.
Begun(n, n1, r, r1) ==
    /\ r1.requests \in Seq(Asked) /\ IdsOf(r1.requests) \subseteq n..(n1 - 1)
    /\ DistinctIds(r1.requests) /\ Atomic!DistinctKeys(r1.requests)
    /\ r1.pc = "inserting" /\ r1.left = DOMAIN r1.requests
    /\ r1.wrote = r.wrote /\ r1.saved = r.wrote /\ r1.answered = r.answered

LEMMA BeginSound ==
    ASSUME NEW b \in Table, NEW n \in Nat \ {0}, NEW n1 \in Nat, n <= n1, DOMAIN b \subseteq 1..(n - 1),
           NEW r \in Caller, Sound(b, n, r), r.pc # "inserting", NEW r1, Begun(n, n1, r, r1)
    PROVE  Sound(b, n1, r1) /\ Ids(r1) = IdsOf(r1.requests) \cup Ids(r)
<1> DEFINE requests == r1.requests
<1>0. /\ r1.requests \in Seq(Asked) /\ IdsOf(r1.requests) \subseteq n..(n1 - 1)
      /\ DistinctIds(r1.requests) /\ Atomic!DistinctKeys(r1.requests)
      /\ r1.pc = "inserting" /\ r1.left = DOMAIN r1.requests
      /\ r1.wrote = r.wrote /\ r1.saved = r.wrote /\ r1.answered = r.answered
  BY DEF Begun
<1> USE <1>0
<1>1. r.requests = <<>> /\ IdsOf(r.requests) = {}
  BY DEF Sound, Inserts, IdsOf
<1>2. Ids(r1) = IdsOf(requests) \cup Ids(r)
  BY <1>1 DEF Ids
<1>3. Kept(r) = r.wrote /\ Kept(r1) = r.wrote /\ r.wrote \in Table
  BY CallerIs DEF Kept
<1>4. DOMAIN r.wrote \subseteq 1..(n - 1) /\ Ids(r) \subseteq 1..(n - 1)
  BY DEF Sound, Writes
<1>5. Writes(b, n1, r1)
  <2>1. Ids(r1) \subseteq 1..(n1 - 1) /\ Ids(r1) \cap DOMAIN b = {}
    <3>1. Ids(r) \subseteq 1..(n1 - 1) /\ IdsOf(requests) \subseteq 1..(n1 - 1)
      BY <1>4
    <3>2. IdsOf(requests) \cap DOMAIN b = {}
      OBVIOUS
    <3>3. Ids(r) \cap DOMAIN b = {}
      BY DEF Sound, Writes
    <3> QED
      BY <1>2, <3>1, <3>2, <3>3
  <2> QED
    BY <1>2, <2>1 DEF Sound, Writes
<1>6. Answers(b, r1)
  BY <1>3 DEF Sound, Answers
<1>7. Inserts(b, r1)
  <2>1. Join(r.wrote, Base(b, r.wrote)) = r.wrote
    <3>1. Base(b, r.wrote) \in Table /\ DOMAIN Base(b, r.wrote) \subseteq DOMAIN r.wrote
      BY RestrictIs DEF Base
    <3>2. /\ Join(r.wrote, Base(b, r.wrote)) \in Table
          /\ DOMAIN Join(r.wrote, Base(b, r.wrote)) = DOMAIN r.wrote \cup DOMAIN Base(b, r.wrote)
          /\ \A i \in DOMAIN r.wrote : Join(r.wrote, Base(b, r.wrote))[i] = r.wrote[i]
      BY <1>3, <3>1, JoinIs
    <3> QED
      BY <1>3, <3>1, <3>2, TablesEqual
  <2>2. Enqueued(r.wrote, r.wrote, requests, {})
    BY <1>3, EnqueuedNone
  <2>3. IdsOf(requests) \cap DOMAIN r.wrote = {}
    BY <1>4
  <2>4. DOMAIN requests \ DOMAIN requests = {}
    OBVIOUS
  <2> QED
    BY <2>1, <2>2, <2>3, <2>4 DEF Inserts
<1> QED
  BY <1>2, <1>5, <1>6, <1>7 DEF Sound

\* Back to what the answered calls wrote.
LEMMA FailedSound ==
    ASSUME NEW b \in Table, NEW n \in Nat, NEW r \in Caller, Sound(b, n, r), r.pc = "inserting",
           NEW r1, r1.pc = "open", r1.requests = <<>>, r1.left = {}, r1.wrote = r.saved,
           r1.saved = NoRows, r1.answered = r.answered
    PROVE  Sound(b, n, r1) /\ Ids(r1) \subseteq Ids(r)
<1>1. IdsOf(r1.requests) = {} /\ Ids(r1) = AnsweredIds(r.answered)
  BY DEF IdsOf, Ids
<1>2. Kept(r) = r.saved /\ Kept(r1) = r.saved /\ r.saved \in Table /\ r.wrote \in Table
  BY CallerIs DEF Kept
<1>3. Writes(b, n, r1)
  <2>1. OneHolder(Join(r.saved, b))
    <3> DEFINE t == Join(r.wrote, b)
               u == Join(r.saved, b)
    <3>1. /\ t \in Table /\ DOMAIN t = DOMAIN r.wrote \cup DOMAIN b
          /\ \A i \in DOMAIN r.wrote : t[i] = r.wrote[i]
          /\ \A i \in DOMAIN b \ DOMAIN r.wrote : t[i] = b[i]
      BY <1>2, JoinIs
    <3>2. /\ u \in Table /\ DOMAIN u = DOMAIN r.saved \cup DOMAIN b
          /\ \A i \in DOMAIN r.saved : u[i] = r.saved[i]
          /\ \A i \in DOMAIN b \ DOMAIN r.saved : u[i] = b[i]
      BY <1>2, JoinIs
    <3>3. OneHolder(t)
      BY DEF Sound, Writes
    <3> HIDE DEF t, u
    <3>4. ASSUME NEW i \in DOMAIN u, Active(u[i])
          PROVE  i \in DOMAIN t /\ Active(t[i]) /\ t[i].job_key = u[i].job_key
      <4>1. CASE i \in DOMAIN r.saved
        BY <4>1, <3>1, <3>2, <3>4 DEF Sound, Writes, Active
      <4>2. CASE i \notin DOMAIN r.saved /\ i \in DOMAIN r.wrote
        BY <4>2, <3>1, <3>2, <3>4 DEF Sound, Writes, Active
      <4>3. CASE i \notin DOMAIN r.saved /\ i \notin DOMAIN r.wrote
        BY <4>3, <3>1, <3>2, <3>4
      <4> QED
        BY <4>1, <4>2, <4>3
    <3> QED
      BY <3>1, <3>2, <3>3, <3>4, FewerHolders DEF u
  <2>2. ASSUME NEW i \in DOMAIN r.saved
        PROVE  /\ Active(r.saved[i])
               /\ i \in DOMAIN b => b[i].status = r.saved[i].status /\ b[i].job_key = r.saved[i].job_key
               /\ i \in DOMAIN b \/ i \in Ids(r1)
    <3>1. i \in DOMAIN r.wrote /\ r.saved[i].status = r.wrote[i].status /\ r.saved[i].job_key = r.wrote[i].job_key
      BY DEF Sound, Writes
    <3>2. Active(r.wrote[i]) /\ (i \in DOMAIN b => b[i].status = r.wrote[i].status /\ b[i].job_key = r.wrote[i].job_key)
      BY <3>1 DEF Sound, Writes
    <3>3. i \in DOMAIN b \/ i \in Ids(r1)
      BY <1>1, <1>2 DEF Sound, Answers
    <3> QED
      BY <3>1, <3>2, <3>3 DEF Active
  <2>3. Ids(r1) \subseteq 1..(n - 1) /\ Ids(r1) \cap DOMAIN b = {}
    BY <1>1 DEF Sound, Writes, Ids
  <2>4. DOMAIN r1.saved = {}
    BY NoRowsIs
  <2> QED
    BY <2>1, <2>2, <2>3, <2>4 DEF Writes
<1>4. Answers(b, r1)
  BY <1>2 DEF Sound, Answers
<1>5. Inserts(b, r1)
  BY DEF Inserts
<1> QED
  BY <1>1, <1>3, <1>4, <1>5 DEF Sound, Ids

LEMMA RightIdsAre ==
    ASSUME NEW t, NEW calls, Atomic!RightIds(t, calls), NEW m \in DOMAIN calls,
           NEW i \in DOMAIN calls[m].requests
    PROVE  IF calls[m].requests[i].job_key = NULL THEN calls[m].ids[i] = calls[m].requests[i].id
           ELSE calls[m].ids[i] \in KeyHolders(t, calls[m].requests[i].job_key)
<1>1. calls[m].ids[i] \in Atomic!Resolved(t, calls[m].requests[i])
  BY DEF Atomic!RightIds
<1> QED
  BY <1>1, SameTables DEF Atomic!Resolved

\* Ids that are right in a table are right in one with more holders.
LEMMA RightIdsKeep ==
    ASSUME NEW t, NEW u, NEW calls, Atomic!RightIds(t, calls),
           \A k : KeyHolders(t, k) \subseteq KeyHolders(u, k)
    PROVE  Atomic!RightIds(u, calls)
<1>1. ASSUME NEW m \in DOMAIN calls, NEW i \in DOMAIN calls[m].requests
      PROVE  calls[m].ids[i] \in Atomic!Resolved(u, calls[m].requests[i])
  <2>1. calls[m].ids[i] \in Atomic!Resolved(t, calls[m].requests[i])
    BY DEF Atomic!RightIds
  <2>2. Atomic!Resolved(t, calls[m].requests[i]) \subseteq Atomic!Resolved(u, calls[m].requests[i])
    BY SameTables DEF Atomic!Resolved
  <2> QED
    BY <2>1, <2>2
<1> QED
  BY <1>1 DEF Atomic!RightIds

\* The answered calls leave the rows alone that r had not locked when they answered.
LEMMA CallsRest ==
    ASSUME NEW b \in Table, NEW n, NEW r \in Caller, Sound(b, n, r),
           NEW X \in SUBSET (DOMAIN b \ DOMAIN Kept(r))
    PROVE  Atomic!AfterCalls(Join(Base(b, Kept(r)), Restrict(b, X)), r.answered)
             = Join(Kept(r), Restrict(b, X))
<1> DEFINE t == Base(b, Kept(r))
           s == Restrict(b, X)
           v == Join(r.wrote, b)
<1>1. r.wrote \in Table /\ Kept(r) \in Table /\ r.answered \in Seq(Call)
  BY CallerIs
<1>2. t \in Table /\ DOMAIN t = DOMAIN b \cap DOMAIN Kept(r)
  BY RestrictIs DEF Base
<1>3. s \in Table /\ DOMAIN s = X /\ \A i \in X : s[i] = b[i]
  BY RestrictIs
<1>4. /\ v \in Table /\ DOMAIN v = DOMAIN r.wrote \cup DOMAIN b
      /\ \A i \in DOMAIN r.wrote : v[i] = r.wrote[i]
      /\ \A i \in DOMAIN b \ DOMAIN r.wrote : v[i] = b[i]
  BY <1>1, JoinIs
<1>5. OneHolder(v)
  BY DEF Sound, Writes
<1>6. Ids(r) \cap DOMAIN b = {}
  BY DEF Sound, Writes
<1>7. Atomic!RightIds(Kept(r), r.answered) /\ Atomic!AfterCalls(t, r.answered) = Kept(r)
  BY DEF Sound, Answers
<1>8. ASSUME NEW i \in DOMAIN Kept(r), Active(Kept(r)[i])
      PROVE  i \in DOMAIN v /\ Active(v[i]) /\ v[i].job_key = Kept(r)[i].job_key
  <2>1. CASE r.pc = "inserting"
    BY <2>1, <1>4, <1>8 DEF Kept, Sound, Writes, Active
  <2>2. CASE r.pc # "inserting"
    BY <2>2, <1>4, <1>8 DEF Kept
  <2> QED
    BY <2>1, <2>2
<1>9. ASSUME NEW i \in X, Active(b[i])
      PROVE  i \in DOMAIN v /\ Active(v[i]) /\ v[i].job_key = b[i].job_key
  <2>1. CASE i \in DOMAIN r.wrote
    BY <2>1, <1>4, <1>9 DEF Sound, Writes, Active
  <2>2. CASE i \notin DOMAIN r.wrote
    BY <2>2, <1>4, <1>9
  <2> QED
    BY <2>1, <2>2
<1> HIDE DEF t, s, v
<1>10. ASSUME NEW m \in DOMAIN r.answered PROVE Foreign(s, r.answered[m].requests)
  <2> DEFINE reqs == r.answered[m].requests
  <2>1. ASSUME NEW i \in DOMAIN reqs PROVE reqs[i].id \notin DOMAIN s
    <3>1. reqs[i].id \in Ids(r)
      BY DEF Ids, AnsweredIds, IdsOf
    <3> QED
      BY <3>1, <1>3, <1>6
  <2>2. ASSUME NEW i \in DOMAIN reqs, NEW y \in KeyHolders(s, reqs[i].job_key) PROVE FALSE
    <3> DEFINE k == reqs[i].job_key
               x == r.answered[m].ids[i]
    <3>1. y \in X /\ k # NULL /\ Active(b[y]) /\ b[y].job_key = k
      BY <1>3, HoldersIs
    <3>2. x \in KeyHolders(Kept(r), k)
      BY <1>7, <3>1, RightIdsAre
    <3>3. x \in DOMAIN Kept(r) /\ Active(Kept(r)[x]) /\ Kept(r)[x].job_key = k
      BY <3>2, HoldersIs
    <3> HIDE DEF k, x
    <3>4. x \in DOMAIN v /\ Active(v[x]) /\ v[x].job_key = k
      BY <1>8, <3>3
    <3>5. y \in DOMAIN v /\ Active(v[y]) /\ v[y].job_key = k
      BY <1>9, <3>1
    <3>6. x = y
      BY <1>4, <1>5, <3>1, <3>4, <3>5, OneHolderIs
    <3> QED
      BY <3>1, <3>3, <3>6
  <2> QED
    BY <2>1, <2>2 DEF Foreign
<1>11. Atomic!AfterCalls(Join(t, s), r.answered) = Join(Atomic!AfterCalls(t, r.answered), s)
  <2>1. DOMAIN t \cap DOMAIN s = {}
    BY <1>2, <1>3
  <2> QED
    BY <1>1, <1>2, <1>3, <1>10, <2>1, CallsJoin
<1> QED
  BY <1>7, <1>11 DEF t, s

\* What a commit does to the table is what the answered calls do to it.
LEMMA CommitIs ==
    ASSUME NEW b \in Table, NEW n, NEW r \in Caller, Sound(b, n, r), r.pc # "inserting"
    PROVE  /\ Join(r.wrote, b) = Atomic!AfterCalls(b, r.answered)
           /\ Atomic!RightIds(Join(r.wrote, b), r.answered)
<1> DEFINE w == r.wrote
           X == DOMAIN b \ DOMAIN w
           s == Restrict(b, X)
           t == Base(b, w)
<1>1. w \in Table /\ Kept(r) = w
  BY CallerIs DEF Kept
<1>2. t \in Table /\ DOMAIN t = DOMAIN b \cap DOMAIN w /\ \A i \in DOMAIN b \cap DOMAIN w : t[i] = b[i]
  BY RestrictIs DEF Base
<1>3. s \in Table /\ DOMAIN s = X /\ \A i \in X : s[i] = b[i]
  BY RestrictIs
<1>4. Atomic!AfterCalls(Join(t, s), r.answered) = Join(w, s)
  BY <1>1, CallsRest
<1> HIDE DEF s, t, w
<1>5. Join(t, s) = b
  <2>1. /\ Join(t, s) \in Table /\ DOMAIN Join(t, s) = DOMAIN t \cup DOMAIN s
        /\ \A i \in DOMAIN t : Join(t, s)[i] = t[i]
        /\ \A i \in DOMAIN s \ DOMAIN t : Join(t, s)[i] = s[i]
    BY <1>2, <1>3, JoinIs
  <2> QED
    BY <1>2, <1>3, <2>1, TablesEqual
<1>6. Join(w, s) = Join(w, b)
  <2>1. /\ Join(w, s) \in Table /\ DOMAIN Join(w, s) = DOMAIN w \cup DOMAIN s
        /\ \A i \in DOMAIN w : Join(w, s)[i] = w[i]
        /\ \A i \in DOMAIN s \ DOMAIN w : Join(w, s)[i] = s[i]
    BY <1>1, <1>3, JoinIs
  <2>2. /\ Join(w, b) \in Table /\ DOMAIN Join(w, b) = DOMAIN w \cup DOMAIN b
        /\ \A i \in DOMAIN w : Join(w, b)[i] = w[i]
        /\ \A i \in DOMAIN b \ DOMAIN w : Join(w, b)[i] = b[i]
    BY <1>1, JoinIs
  <2>3. DOMAIN Join(w, s) = DOMAIN Join(w, b)
    BY <1>3, <2>1, <2>2
  <2>4. \A i \in DOMAIN Join(w, s) : Join(w, s)[i] = Join(w, b)[i]
    BY <1>3, <2>1, <2>2
  <2> QED
    BY <2>1, <2>2, <2>3, <2>4, TablesEqual
<1>7. \A k : KeyHolders(w, k) \subseteq KeyHolders(Join(w, b), k)
  <2>1. DOMAIN Join(w, b) = DOMAIN w \cup DOMAIN b /\ \A i \in DOMAIN w : Join(w, b)[i] = w[i]
    BY <1>1, JoinIs
  <2> QED
    BY <2>1 DEF KeyHolders
<1>8. Atomic!RightIds(w, r.answered)
  BY <1>1 DEF Sound, Answers
<1>9. Atomic!RightIds(Join(w, b), r.answered)
  BY <1>7, <1>8, RightIdsKeep
<1> QED
  BY <1>4, <1>5, <1>6, <1>9 DEF w

\* The ids of a batch: `ordered_ids`.
Ordered(r) ==
    [i \in DOMAIN r.requests |-> IF r.requests[i].job_key = NULL THEN r.requests[i].id
                                 ELSE r.ids_by_job_key[r.requests[i].job_key]]

\* The call that r answers when its last row is upserted.
LEMMA AnswerIs ==
    ASSUME NEW b, NEW n, NEW r \in Caller, Sound(b, n, r), r.pc = "inserting", r.left = {}
    PROVE  /\ [requests |-> r.requests, ids |-> Ordered(r)] \in Call
           /\ Len(Ordered(r)) = Len(r.requests)
           /\ \A i \in DOMAIN r.requests :
                 Ordered(r)[i] \in Atomic!Resolved(r.wrote, r.requests[i])
<1> DEFINE ids == Ordered(r)
<1>1. r.requests \in Seq(Asked) /\ Len(r.requests) \in Nat /\ DOMAIN r.requests = 1..Len(r.requests)
  BY CallerIs, LenProperties
<1>2. PICK S \in SUBSET Keys : r.ids_by_job_key \in [S -> Nat]
  BY CallerIs
<1>3. ASSUME NEW i \in DOMAIN r.requests
      PROVE  ids[i] \in Nat /\ ids[i] \in Atomic!Resolved(r.wrote, r.requests[i])
  <2> DEFINE q == r.requests[i]
  <2>1. q.id \in Nat /\ q.job_key \in Keys \cup {NULL}
    BY <1>1, Elements, AskedIs
  <2>2. CASE q.job_key = NULL
    BY <2>1, <2>2 DEF Ordered, Atomic!Resolved
  <2>3. CASE q.job_key # NULL
    <3>1. i \in DOMAIN r.requests \ r.left
      OBVIOUS
    <3>2. q.job_key \in DOMAIN r.ids_by_job_key /\ r.ids_by_job_key[q.job_key] \in KeyHolders(r.wrote, q.job_key)
      BY <2>3, <3>1 DEF Sound, Inserts
    <3>3. ids[i] = r.ids_by_job_key[q.job_key]
      BY <2>3 DEF Ordered
    <3>4. ids[i] \in Nat
      BY <1>2, <3>2, <3>3
    <3>5. Atomic!Resolved(r.wrote, q) = KeyHolders(r.wrote, q.job_key)
      BY <2>3, SameTables DEF Atomic!Resolved
    <3> QED
      BY <3>2, <3>3, <3>4, <3>5
  <2> QED
    BY <2>2, <2>3
<1>4. ids = [i \in 1..Len(r.requests) |-> ids[i]]
  BY <1>1 DEF Ordered
<1> HIDE DEF ids
<1>5. ids \in [1..Len(r.requests) -> Nat]
  BY <1>1, <1>3, <1>4
<1>6. ids \in Seq(Nat) /\ Len(ids) = Len(r.requests)
  BY <1>1, <1>5
<1>7. [requests |-> r.requests, ids |-> ids] \in Call
  BY <1>1, <1>6 DEF Call
<1> QED
  BY <1>3, <1>6, <1>7 DEF ids

\* Every request is resolved: the batch is answered.
LEMMA ReturnSound ==
    ASSUME NEW b \in Table, NEW n \in Nat, NEW r \in Caller, Sound(b, n, r), r.pc = "inserting", r.left = {},
           NEW call, call = [requests |-> r.requests, ids |-> Ordered(r)],
           NEW r1, r1.pc = "open", r1.requests = <<>>, r1.left = {}, r1.wrote = r.wrote,
           r1.saved = NoRows, r1.answered = Append(r.answered, call)
    PROVE  Sound(b, n, r1) /\ Ids(r1) = Ids(r)
<1>1. /\ r.requests \in Seq(Asked) /\ r.wrote \in Table /\ r.saved \in Table /\ r.answered \in Seq(Call)
      /\ Kept(r) = r.saved /\ Kept(r1) = r.wrote
  BY CallerIs DEF Kept
<1>2. call \in Call /\ call.requests = r.requests /\ call.ids = Ordered(r)
  BY AnswerIs
<1>3. /\ DOMAIN r1.answered = 1..(Len(r.answered) + 1) /\ DOMAIN r.answered = 1..Len(r.answered)
      /\ Len(r.answered) \in Nat /\ r1.answered[Len(r.answered) + 1] = call
      /\ \A m \in 1..Len(r.answered) : r1.answered[m] = r.answered[m]
  BY <1>1, <1>2, AppendProperties, LenProperties
<1>4. \A m \in DOMAIN r1.answered :
         (m \in DOMAIN r.answered /\ r1.answered[m] = r.answered[m])
         \/ (m \notin DOMAIN r.answered /\ r1.answered[m] = call)
  BY <1>3
<1>5. AnsweredIds(r1.answered) = AnsweredIds(r.answered) \cup IdsOf(r.requests)
  BY <1>2, <1>3, <1>4 DEF AnsweredIds
<1>6. Ids(r1) = Ids(r) /\ Ids(r1) = AnsweredIds(r1.answered)
  BY <1>5 DEF Ids, IdsOf
<1>7. Writes(b, n, r1)
  <2>1. DOMAIN r1.saved = {}
    BY NoRowsIs
  <2> QED
    BY <1>6, <2>1 DEF Sound, Writes
<1> DEFINE X == (DOMAIN b \cap DOMAIN r.wrote) \ DOMAIN r.saved
           s == Restrict(b, X)
           t == Base(b, r.saved)
           start == Join(r.saved, Base(b, r.wrote))
<1>8. X \in SUBSET (DOMAIN b \ DOMAIN Kept(r)) /\ DOMAIN r.saved \subseteq DOMAIN r.wrote
  BY <1>1 DEF Sound, Writes
<1>9. Atomic!AfterCalls(Join(t, s), r.answered) = Join(r.saved, s)
  <2> HIDE DEF X
  <2> QED
    BY <1>1, <1>8, CallsRest
<1>10. s \in Table /\ DOMAIN s = X /\ \A i \in X : s[i] = b[i]
  BY RestrictIs
<1>11. t \in Table /\ DOMAIN t = DOMAIN b \cap DOMAIN r.saved /\ \A i \in DOMAIN b \cap DOMAIN r.saved : t[i] = b[i]
  BY RestrictIs DEF Base
<1> DEFINE w == Base(b, r.wrote)
<1>12. w \in Table /\ DOMAIN w = DOMAIN b \cap DOMAIN r.wrote /\ \A i \in DOMAIN b \cap DOMAIN r.wrote : w[i] = b[i]
  BY RestrictIs DEF Base
<1>13. Join(t, s) = w
  <2> HIDE DEF t, s, w
  <2>1. /\ Join(t, s) \in Table /\ DOMAIN Join(t, s) = DOMAIN t \cup DOMAIN s
        /\ \A i \in DOMAIN t : Join(t, s)[i] = t[i]
        /\ \A i \in DOMAIN s \ DOMAIN t : Join(t, s)[i] = s[i]
    BY <1>10, <1>11, JoinIs
  <2>2. DOMAIN Join(t, s) = DOMAIN w
    BY <1>8, <1>10, <1>11, <1>12, <2>1
  <2>3. \A i \in DOMAIN w : Join(t, s)[i] = w[i]
    BY <1>8, <1>10, <1>11, <1>12, <2>1
  <2> QED
    BY <1>12, <2>1, <2>2, <2>3, TablesEqual
<1>14. start \in Table /\ DOMAIN start = DOMAIN r.saved \cup DOMAIN w
       /\ (\A i \in DOMAIN r.saved : start[i] = r.saved[i])
       /\ \A i \in DOMAIN w \ DOMAIN r.saved : start[i] = w[i]
  BY <1>1, <1>12, JoinIs
<1>15. Join(r.saved, s) = start
  <2> HIDE DEF s, w, start
  <2>1. /\ Join(r.saved, s) \in Table /\ DOMAIN Join(r.saved, s) = DOMAIN r.saved \cup DOMAIN s
        /\ \A i \in DOMAIN r.saved : Join(r.saved, s)[i] = r.saved[i]
        /\ \A i \in DOMAIN s \ DOMAIN r.saved : Join(r.saved, s)[i] = s[i]
    BY <1>1, <1>10, JoinIs
  <2>2. DOMAIN Join(r.saved, s) = DOMAIN start
    BY <1>10, <1>12, <1>14, <2>1
  <2>3. \A i \in DOMAIN start : Join(r.saved, s)[i] = start[i]
    BY <1>10, <1>12, <1>14, <2>1
  <2> QED
    BY <1>14, <2>1, <2>2, <2>3, TablesEqual
<1>16. Separate(start, r.requests)
  <2>1. IdsOf(r.requests) \cap DOMAIN r.saved = {} /\ Atomic!DistinctKeys(r.requests) /\ DistinctIds(r.requests)
    BY DEF Sound, Inserts
  <2>2. IdsOf(r.requests) \cap DOMAIN b = {}
    BY DEF Sound, Writes, Ids
  <2> QED
    BY <1>12, <1>14, <2>1, <2>2 DEF Separate
<1>17. r.wrote = Atomic!EnqueueAll(start, r.requests)
  <2>1. Enqueued(r.wrote, start, r.requests, DOMAIN r.requests)
    BY DEF Sound, Inserts
  <2> HIDE DEF start
  <2> QED
    BY <1>1, <1>14, <1>16, <2>1, EnqueuedAll
<1>18. Answers(b, r1)
  <2>1. Atomic!AfterCalls(w, r1.answered) = r.wrote
    <3> HIDE DEF w, start, s, t
    <3>1. Atomic!AfterCalls(w, Append(r.answered, call))
            = Atomic!EnqueueAll(Atomic!AfterCalls(w, r.answered), call.requests)
      BY <1>1, <1>2, <1>12, CallsAppend
    <3> QED
      BY <1>2, <1>9, <1>13, <1>15, <1>17, <3>1
  <2>2. \A k : KeyHolders(r.saved, k) \subseteq KeyHolders(r.wrote, k)
    <3>1. ASSUME NEW k, NEW i \in KeyHolders(r.saved, k) PROVE i \in KeyHolders(r.wrote, k)
      BY HoldersIs DEF Sound, Writes, Active
    <3> QED
      BY <3>1
  <2>3. Atomic!RightIds(r.saved, r.answered)
    BY <1>1 DEF Sound, Answers
  <2>4. Atomic!RightIds(r.wrote, r.answered)
    BY <2>2, <2>3, RightIdsKeep
  <2>5. /\ Len(call.ids) = Len(call.requests)
        /\ \A i \in DOMAIN call.requests : call.ids[i] \in Atomic!Resolved(r.wrote, call.requests[i])
    BY <1>2, AnswerIs
  <2>6. Atomic!RightIds(r.wrote, r1.answered)
    BY <1>4, <2>4, <2>5 DEF Atomic!RightIds
  <2>7. \A i \in DOMAIN r.wrote : i \in DOMAIN b \/ i \in AnsweredIds(r1.answered)
    BY <1>6 DEF Sound, Writes
  <2> QED
    BY <1>1, <2>1, <2>6, <2>7 DEF Answers
<1>19. Inserts(b, r1)
  BY DEF Inserts
<1> QED
  BY <1>6, <1>7, <1>18, <1>19 DEF Sound

\* What the upsert of request q does to what r has written.  H: the active job of its key.
UpsertedRow(b, r, q, H, w, row) ==
    /\ w \in Table /\ DOMAIN w = DOMAIN r.wrote \cup {row}
    /\ H = {} => row = q.id /\ row \notin DOMAIN r.wrote /\ w[row] = NewRow(q.def, q.job_key, q.run_at)
    /\ H # {} => /\ H = {row} /\ row \in DOMAIN Join(r.wrote, b)
                 /\ w[row] = Upserted(Join(r.wrote, b)[row], q.def, q.mode, q.run_at)
    /\ \A i \in DOMAIN r.wrote : i # row => w[i] = r.wrote[i]

LEMMA UpsertIs ==
    ASSUME NEW b \in Table, NEW n, NEW r \in Caller, Sound(b, n, r),
           r.pc = "inserting", NEW m \in r.left
    PROVE  LET q     == r.requests[m]
               after == InsertJob(Join(r.wrote, b), q.id, q.def, q.job_key, q.mode, q.run_at)
               row   == IF q.job_key = NULL THEN q.id ELSE CHOOSE i \in KeyHolders(after, q.job_key) : TRUE
               w     == [i \in DOMAIN r.wrote \cup {row} |-> after[i]]
           IN  UpsertedRow(b, r, q, KeyHolders(Join(r.wrote, b), q.job_key), w, row)
<1> DEFINE q     == r.requests[m]
           v     == Join(r.wrote, b)
           after == InsertJob(v, q.id, q.def, q.job_key, q.mode, q.run_at)
           row   == IF q.job_key = NULL THEN q.id ELSE CHOOSE i \in KeyHolders(after, q.job_key) : TRUE
           w     == [i \in DOMAIN r.wrote \cup {row} |-> after[i]]
           H     == KeyHolders(v, q.job_key)
<1>1. m \in DOMAIN r.requests /\ q \in Asked /\ q.job_key \in Keys \cup {NULL} /\ r.wrote \in Table
  BY CallerIs, Elements, AskedIs DEF Sound, Inserts
<1>2. /\ v \in Table /\ DOMAIN v = DOMAIN r.wrote \cup DOMAIN b
      /\ \A i \in DOMAIN r.wrote : v[i] = r.wrote[i]
      /\ \A i \in DOMAIN b \ DOMAIN r.wrote : v[i] = b[i]
  BY <1>1, JoinIs
<1>3. EnqueuedOne(after, v, q, H)
  <2>1. after = Atomic!EnqueueOne(v, q)
    BY SameTables
  <2> HIDE DEF after, q, v
  <2> QED
    BY <1>1, <1>2, <2>1, OneIs
<1>4. q.id \notin DOMAIN v
  <2>1. q.id \in IdsOf(r.requests)
    BY <1>1 DEF IdsOf
  <2>2. q.id \notin DOMAIN b
    BY <2>1 DEF Sound, Writes, Ids
  <2>3. q.id \notin DOMAIN r.wrote
    <3> DEFINE t == Join(r.saved, Base(b, r.wrote))
               D == DOMAIN r.requests \ r.left
    <3>1. Base(b, r.wrote) \in Table /\ DOMAIN Base(b, r.wrote) \subseteq DOMAIN b /\ r.saved \in Table
      BY RestrictIs, CallerIs DEF Base
    <3>2. DOMAIN t = DOMAIN r.saved \cup DOMAIN Base(b, r.wrote)
      BY <3>1, JoinIs
    <3>3. q.id \notin DOMAIN r.saved
      BY <2>1 DEF Sound, Inserts
    <3>4. Enqueued(r.wrote, t, r.requests, D)
      BY DEF Sound, Inserts
    <3>5. \A i \in D : r.requests[i].id # q.id
      BY <1>1 DEF Sound, Inserts, DistinctIds
    <3> HIDE DEF t, D
    <3> QED
      BY <2>2, <3>1, <3>2, <3>3, <3>4, <3>5 DEF Enqueued
  <2> QED
    BY <1>2, <2>2, <2>3
<1>5. OneHolder(v)
  BY DEF Sound, Writes
<1> HIDE DEF after, v, q
<1>6. CASE H = {}
  <2>1. DOMAIN after = DOMAIN v \cup {q.id} /\ after[q.id] = NewRow(q.def, q.job_key, q.run_at)
        /\ \A i \in DOMAIN v : after[i] = v[i]
    BY <1>3, <1>4, <1>6 DEF EnqueuedOne
  <2>2. row = q.id
    <3>1. CASE q.job_key = NULL
      BY <3>1
    <3>2. CASE q.job_key # NULL
      <4>1. KeyHolders(after, q.job_key) = {q.id}
        <5>1. q.id \in KeyHolders(after, q.job_key)
          BY <1>1, <2>1, <3>2, HoldersIs, NewRowIs
        <5>2. ASSUME NEW i \in KeyHolders(after, q.job_key), i # q.id PROVE FALSE
          <6>1. i \in H
            BY <2>1, <5>2, HoldersIs
          <6> QED
            BY <6>1, <1>6
        <5> QED
          BY <5>1, <5>2
      <4> QED
        BY <3>2, <4>1
    <3> QED
      BY <3>1, <3>2
  <2>3. q.id \notin DOMAIN r.wrote
    BY <1>2, <1>4
  <2> HIDE DEF row
  <2>4. DOMAIN w = DOMAIN r.wrote \cup {row} /\ \A i \in DOMAIN w : w[i] = after[i]
    OBVIOUS
  <2>5. w = [i \in DOMAIN w |-> w[i]]
    OBVIOUS
  <2> HIDE DEF w
  <2>6. DOMAIN w \subseteq DOMAIN after
    BY <1>2, <2>1, <2>2, <2>4
  <2>7. w \in Table
    <3>1. after \in Table
      BY <1>3 DEF EnqueuedOne
    <3> QED
      BY <2>4, <2>5, <2>6, <3>1, TableIs
  <2>8. \A i \in DOMAIN r.wrote : w[i] = r.wrote[i]
    BY <1>2, <2>1, <2>4
  <2> QED
    BY <1>6, <2>1, <2>2, <2>3, <2>4, <2>7, <2>8 DEF UpsertedRow, w, row, q, after, v
<1>7. CASE H # {}
  <2>1. PICK j \in H : TRUE
    BY <1>7
  <2>2. j \in DOMAIN v /\ q.job_key # NULL /\ Active(v[j]) /\ v[j].job_key = q.job_key
    BY <2>1, HoldersIs
  <2>3. H = {j}
    <3>1. ASSUME NEW i \in H PROVE i = j
      BY <1>1, <1>5, <2>1, <2>2 DEF OneHolder
    <3> QED
      BY <2>1, <3>1
  <2>4. DOMAIN after = DOMAIN v /\ after[j] = Upserted(v[j], q.def, q.mode, q.run_at)
        /\ \A i \in DOMAIN v : i # j => after[i] = v[i]
    BY <1>3, <1>7, <2>3 DEF EnqueuedOne
  <2>5. v[j] \in Row
    BY <1>2, <2>2, TableIs
  <2>6. after[j].status = v[j].status /\ after[j].job_key = v[j].job_key
    BY <1>1, <2>4, <2>5, UpsertedIs
  <2>7. KeyHolders(after, q.job_key) = {j}
    <3>1. j \in KeyHolders(after, q.job_key)
      BY <2>2, <2>4, <2>6 DEF KeyHolders, Active
    <3>2. ASSUME NEW i \in KeyHolders(after, q.job_key), i # j PROVE FALSE
      <4>1. i \in H
        BY <2>4, <3>2, HoldersIs
      <4> QED
        BY <4>1, <2>3, <3>2
    <3> QED
      BY <3>1, <3>2
  <2>8. row = j
    BY <2>2, <2>7
  <2> HIDE DEF row
  <2>9. DOMAIN w = DOMAIN r.wrote \cup {row} /\ \A i \in DOMAIN w : w[i] = after[i]
    OBVIOUS
  <2>10. w = [i \in DOMAIN w |-> w[i]]
    OBVIOUS
  <2> HIDE DEF w
  <2>11. DOMAIN w \subseteq DOMAIN after
    BY <1>2, <2>2, <2>4, <2>8, <2>9
  <2>12. w \in Table
    <3>1. after \in Table
      BY <1>3 DEF EnqueuedOne
    <3> QED
      BY <2>9, <2>10, <2>11, <3>1, TableIs
  <2>13. \A i \in DOMAIN r.wrote : i # row => w[i] = r.wrote[i]
    BY <1>2, <2>4, <2>8, <2>9
  <2>14. w[row] = Upserted(v[row], q.def, q.mode, q.run_at) /\ row \in DOMAIN v /\ H = {row}
    BY <2>2, <2>3, <2>4, <2>8, <2>9
  <2> QED
    BY <1>7, <2>9, <2>12, <2>13, <2>14 DEF UpsertedRow, w, row, q, after, v
<1> QED
  BY <1>6, <1>7

\* The row of an upsert holds its key; the rows before it keep status and key.
RowKept(b, r, q, H, w, row) ==
    /\ \A i \in DOMAIN r.wrote : /\ i \in DOMAIN w /\ w[i].status = r.wrote[i].status
                                 /\ w[i].job_key = r.wrote[i].job_key
    /\ Active(w[row]) /\ w[row].job_key = q.job_key
    /\ row \in DOMAIN b => b[row].status = w[row].status /\ b[row].job_key = w[row].job_key
    /\ row \in DOMAIN b \/ row \in Ids(r)
    /\ row \notin DOMAIN b => row \in DOMAIN r.wrote \/ H = {}
    /\ H = {} => row = q.id

LEMMA UpsertedKeeps ==
    ASSUME NEW b \in Table, NEW n, NEW r \in Caller, Sound(b, n, r),
           r.pc = "inserting", NEW m \in r.left, NEW w, NEW row,
           UpsertedRow(b, r, r.requests[m], KeyHolders(Join(r.wrote, b), r.requests[m].job_key), w, row)
    PROVE  RowKept(b, r, r.requests[m], KeyHolders(Join(r.wrote, b), r.requests[m].job_key), w, row)
<1> DEFINE q == r.requests[m]
           v == Join(r.wrote, b)
           H == KeyHolders(v, q.job_key)
<1>1. m \in DOMAIN r.requests /\ q \in Asked /\ r.wrote \in Table /\ q.id \in IdsOf(r.requests)
  BY CallerIs, Elements DEF Sound, Inserts, IdsOf
<1>2. /\ v \in Table /\ DOMAIN v = DOMAIN r.wrote \cup DOMAIN b
      /\ \A i \in DOMAIN r.wrote : v[i] = r.wrote[i]
      /\ \A i \in DOMAIN b \ DOMAIN r.wrote : v[i] = b[i]
  BY <1>1, JoinIs
<1>3. q.id \in Ids(r) /\ q.id \notin DOMAIN b
  BY <1>1 DEF Sound, Writes, Ids
<1>4. UpsertedRow(b, r, q, H, w, row)
  OBVIOUS
<1>5. v = Join(r.wrote, b)
  OBVIOUS
<1>6. ASSUME NEW i \in H PROVE i \in DOMAIN v /\ Active(v[i]) /\ v[i].job_key = q.job_key
  BY HoldersIs
<1> HIDE DEF q, v, H
<1>7. CASE H = {}
  <2>1. row = q.id /\ row \notin DOMAIN r.wrote /\ w[row] = NewRow(q.def, q.job_key, q.run_at)
        /\ DOMAIN w = DOMAIN r.wrote \cup {row} /\ \A i \in DOMAIN r.wrote : i # row => w[i] = r.wrote[i]
    BY <1>4, <1>7 DEF UpsertedRow
  <2>2. Active(w[row]) /\ w[row].job_key = q.job_key
    BY <1>1, <2>1, NewRowIs
  <2> QED
    BY <1>3, <1>7, <2>1, <2>2 DEF q, H, v, RowKept
<1>8. CASE H # {}
  <2>1. H = {row} /\ row \in DOMAIN v /\ w[row] = Upserted(v[row], q.def, q.mode, q.run_at)
        /\ DOMAIN w = DOMAIN r.wrote \cup {row} /\ \A i \in DOMAIN r.wrote : i # row => w[i] = r.wrote[i]
    BY <1>4, <1>5, <1>8 DEF UpsertedRow
  <2>2. v[row] \in Row
    BY <1>2, <2>1, TableIs
  <2>3. w[row].status = v[row].status /\ w[row].job_key = v[row].job_key
    BY <1>1, <2>1, <2>2, UpsertedIs
  <2>4. Active(v[row]) /\ v[row].job_key = q.job_key
    BY <1>6, <2>1
  <2>5. Active(w[row]) /\ w[row].job_key = q.job_key
    BY <2>3, <2>4 DEF Active
  <2>6. row \in DOMAIN b => b[row].status = v[row].status /\ b[row].job_key = v[row].job_key
    BY <1>2 DEF Sound, Writes
  <2>7. row \in DOMAIN b \/ row \in Ids(r)
    BY <1>2, <2>1 DEF Sound, Writes
  <2>8. \A i \in DOMAIN r.wrote : i \in DOMAIN w /\ w[i].status = r.wrote[i].status /\ w[i].job_key = r.wrote[i].job_key
    BY <1>2, <2>1, <2>3
  <2> QED
    BY <1>2, <2>1, <2>3, <2>5, <2>6, <2>7, <2>8 DEF q, H, v, RowKept
<1> QED
  BY <1>7, <1>8

LEMMA UpsertSound ==
    ASSUME NEW b \in Table, NEW n, NEW r \in Caller, Sound(b, n, r),
           r.pc = "inserting", NEW m \in r.left, NEW row, NEW r1,
           UpsertedRow(b, r, r.requests[m], KeyHolders(Join(r.wrote, b), r.requests[m].job_key), r1.wrote, row),
           r1.pc = "inserting", r1.requests = r.requests, r1.left = r.left \ {m}, r1.saved = r.saved,
           r1.answered = r.answered,
           r1.ids_by_job_key =
               IF r.requests[m].job_key = NULL THEN r.ids_by_job_key
               ELSE [k \in DOMAIN r.ids_by_job_key \cup {r.requests[m].job_key} |->
                        IF k = r.requests[m].job_key THEN row ELSE r.ids_by_job_key[k]]
    PROVE  Sound(b, n, r1) /\ Ids(r1) = Ids(r)
<1> DEFINE q == r.requests[m]
           v == Join(r.wrote, b)
           H == KeyHolders(v, q.job_key)
           w == r1.wrote
           D == DOMAIN r.requests \ r.left
<1>1. /\ m \in DOMAIN r.requests \ D /\ q \in Asked /\ r.wrote \in Table /\ r.saved \in Table
      /\ r.requests \in Seq(Asked) /\ D \in SUBSET DOMAIN r.requests
  BY CallerIs, Elements DEF Sound, Inserts
<1>2. /\ v \in Table /\ DOMAIN v = DOMAIN r.wrote \cup DOMAIN b
      /\ \A i \in DOMAIN r.wrote : v[i] = r.wrote[i]
      /\ \A i \in DOMAIN b \ DOMAIN r.wrote : v[i] = b[i]
  BY <1>1, JoinIs
<1>3. Ids(r1) = Ids(r) /\ Kept(r1) = r.saved /\ Kept(r) = r.saved
  BY DEF Ids, Kept
<1>4. UpsertedRow(b, r, q, H, w, row)
  OBVIOUS
<1>5. /\ \A i \in DOMAIN r.wrote : i \in DOMAIN w /\ w[i].status = r.wrote[i].status /\ w[i].job_key = r.wrote[i].job_key
      /\ Active(w[row]) /\ w[row].job_key = q.job_key
      /\ row \in DOMAIN b => b[row].status = w[row].status /\ b[row].job_key = w[row].job_key
      /\ row \in DOMAIN b \/ row \in Ids(r)
      /\ row \notin DOMAIN b => row \in DOMAIN r.wrote \/ H = {}
  <2>1. RowKept(b, r, q, H, w, row)
    BY UpsertedKeeps
  <2> HIDE DEF q, H, w
  <2> QED
    BY <2>1 DEF RowKept
<1>6. w \in Table /\ DOMAIN w = DOMAIN r.wrote \cup {row}
  BY <1>4 DEF UpsertedRow
<1>7. \A i \in D : i # m /\ (q.job_key # NULL => r.requests[i].job_key # q.job_key)
  BY <1>1 DEF Sound, Inserts, Atomic!DistinctKeys
<1>8. ASSUME NEW i, i \in H PROVE i \in DOMAIN v /\ Active(v[i]) /\ v[i].job_key = q.job_key /\ q.job_key # NULL
  BY <1>8, HoldersIs
<1>9. OneHolder(v)
  BY DEF Sound, Writes
<1>10. \A i \in DOMAIN v : Active(v[i]) /\ v[i].job_key = q.job_key /\ q.job_key # NULL => i \in H
  BY HoldersIs
<1>11. H # {} => H = {row} /\ row \in DOMAIN v
  BY <1>4 DEF UpsertedRow
<1>12. Writes(b, n, r1)
  <2>1. OneHolder(Join(w, b))
    <3> DEFINE u == Join(w, b)
    <3>1. /\ u \in Table /\ DOMAIN u = DOMAIN w \cup DOMAIN b
          /\ \A i \in DOMAIN w : u[i] = w[i]
          /\ \A i \in DOMAIN b \ DOMAIN w : u[i] = b[i]
      BY <1>6, JoinIs
    <3> HIDE DEF u, v, H, q, w
    <3>2. ASSUME NEW i \in DOMAIN u, i # row
          PROVE  i \in DOMAIN v /\ (Active(u[i]) => Active(v[i])) /\ u[i].job_key = v[i].job_key
      BY <1>2, <1>5, <1>6, <3>1, <3>2 DEF Active
    <3>3. u[row] = w[row]
      BY <1>6, <3>1
    <3>4. row \in DOMAIN v /\ Active(v[row]) => v[row].job_key = w[row].job_key
      <4>1. CASE row \in DOMAIN r.wrote
        BY <4>1, <1>2, <1>5
      <4>2. CASE row \notin DOMAIN r.wrote
        BY <4>2, <1>2, <1>5
      <4> QED
        BY <4>1, <4>2
    <3>5. CASE H = {}
      <4>1. ASSUME NEW i \in DOMAIN u, NEW j \in DOMAIN u, Active(u[i]), Active(u[j]),
                   u[i].job_key = u[j].job_key, u[i].job_key # NULL
            PROVE  i = j
        <5>1. CASE i # row /\ j # row
          BY <5>1, <4>1, <1>2, <1>9, <3>2, OneHolderIs
        <5>2. CASE i = row /\ j # row
          BY <5>2, <4>1, <1>5, <1>10, <3>2, <3>3, <3>5
        <5>3. CASE i # row /\ j = row
          BY <5>3, <4>1, <1>5, <1>10, <3>2, <3>3, <3>5
        <5> QED
          BY <5>1, <5>2, <5>3
      <4> QED
        BY <3>1, <4>1, OneHolderIs DEF u
    <3>6. CASE H # {}
      <4>1. row \in DOMAIN v /\ Active(v[row]) /\ v[row].job_key = q.job_key
        BY <1>8, <1>11, <3>6
      <4>2. ASSUME NEW i \in DOMAIN u, Active(u[i])
            PROVE  i \in DOMAIN v /\ Active(v[i]) /\ v[i].job_key = u[i].job_key
        BY <1>5, <3>2, <3>3, <4>1, <4>2
      <4> QED
        BY <1>2, <1>9, <3>1, <4>2, FewerHolders DEF u
    <3> QED
      BY <3>5, <3>6
  <2>2. ASSUME NEW i \in DOMAIN w
        PROVE  /\ Active(w[i])
               /\ i \in DOMAIN b => b[i].status = w[i].status /\ b[i].job_key = w[i].job_key
               /\ i \in DOMAIN b \/ i \in Ids(r1)
    <3>1. CASE i = row
      BY <3>1, <1>3, <1>5
    <3>2. CASE i # row
      <4>1. i \in DOMAIN r.wrote
        BY <3>2, <1>6
      <4>2. w[i].status = r.wrote[i].status /\ w[i].job_key = r.wrote[i].job_key
        BY <4>1, <1>5
      <4> HIDE DEF w
      <4> QED
        BY <4>1, <4>2, <1>3 DEF Sound, Writes, Active
    <3> QED
      BY <3>1, <3>2
  <2>3. ASSUME NEW i \in DOMAIN r.saved
        PROVE  i \in DOMAIN w /\ r.saved[i].status = w[i].status /\ r.saved[i].job_key = w[i].job_key
    <3>1. i \in DOMAIN r.wrote /\ r.saved[i].status = r.wrote[i].status /\ r.saved[i].job_key = r.wrote[i].job_key
      BY DEF Sound, Writes
    <3> QED
      BY <1>5, <3>1
  <2> QED
    BY <1>3, <2>1, <2>2, <2>3 DEF Sound, Writes
<1>13. Answers(b, r1)
  BY <1>3 DEF Sound, Answers
<1>14. \A k : \A i \in KeyHolders(r.wrote, k) : i \in KeyHolders(w, k)
  <2> HIDE DEF w
  <2> QED
    BY <1>5 DEF KeyHolders, Active
<1> DEFINE t == Join(r.saved, Base(b, r.wrote))
           X == H \ DOMAIN r.wrote
           s == Restrict(b, X)
<1>15. X \subseteq DOMAIN b
  BY <1>2, <1>8
<1>16. s \in Table /\ DOMAIN s = X /\ \A i \in X : s[i] = b[i]
  <2> HIDE DEF X
  <2> QED
    BY <1>15, RestrictIs
<1>17. /\ Base(b, r.wrote) \in Table /\ DOMAIN Base(b, r.wrote) = DOMAIN b \cap DOMAIN r.wrote
       /\ \A i \in DOMAIN b \cap DOMAIN r.wrote : Base(b, r.wrote)[i] = b[i]
  BY RestrictIs DEF Base
<1>18. /\ Base(b, w) \in Table /\ DOMAIN Base(b, w) = DOMAIN b \cap DOMAIN w
       /\ \A i \in DOMAIN b \cap DOMAIN w : Base(b, w)[i] = b[i]
  BY RestrictIs DEF Base
<1>19. DOMAIN r.saved \subseteq DOMAIN r.wrote
  BY DEF Sound, Writes
<1>20. /\ t \in Table /\ DOMAIN t = DOMAIN r.saved \cup DOMAIN Base(b, r.wrote)
       /\ \A i \in DOMAIN r.saved : t[i] = r.saved[i]
       /\ \A i \in DOMAIN Base(b, r.wrote) \ DOMAIN r.saved : t[i] = Base(b, r.wrote)[i]
  BY <1>1, <1>17, JoinIs
<1>21. DOMAIN t \cap DOMAIN s = {}
  BY <1>16, <1>17, <1>19, <1>20
<1>22. Enqueued(r.wrote, t, r.requests, D)
  BY DEF Sound, Inserts
<1>23. IdsOf(r.requests) \cap DOMAIN b = {}
  BY DEF Sound, Writes, Ids
<1>24. ASSUME NEW i \in D
       PROVE  r.requests[i].id \notin DOMAIN s /\ KeyHolders(s, r.requests[i].job_key) = {}
  <2>1. r.requests[i].id \notin DOMAIN s
    BY <1>1, <1>15, <1>16, <1>23 DEF IdsOf
  <2>2. ASSUME NEW y \in KeyHolders(s, r.requests[i].job_key) PROVE FALSE
    <3>1. y \in X /\ r.requests[i].job_key # NULL /\ b[y].job_key = r.requests[i].job_key
      <4> HIDE DEF X, s
      <4> QED
        BY <1>16, HoldersIs
    <3>2. v[y] = b[y]
      BY <1>2, <1>15, <3>1
    <3>3. v[y].job_key = q.job_key
      BY <1>8, <3>1
    <3> HIDE DEF v, q, D, H, X
    <3> QED
      BY <1>7, <3>1, <3>2, <3>3 DEF q
  <2> QED
    BY <2>1, <2>2
<1>25. Enqueued(Join(r.wrote, s), Join(t, s), r.requests, D)
  <2> HIDE DEF t, s, D
  <2> QED
    BY <1>1, <1>16, <1>20, <1>21, <1>22, <1>24, EnqueuedJoin
<1>26. /\ Join(t, s) \in Table /\ DOMAIN Join(t, s) = DOMAIN t \cup DOMAIN s
       /\ \A i \in DOMAIN t : Join(t, s)[i] = t[i]
       /\ \A i \in DOMAIN s \ DOMAIN t : Join(t, s)[i] = s[i]
  <2>1. t \in Table /\ s \in Table
    BY <1>16, <1>20
  <2> HIDE DEF t, s
  <2> QED
    BY <2>1, JoinIs
<1>27. /\ Join(r.wrote, s) \in Table /\ DOMAIN Join(r.wrote, s) = DOMAIN r.wrote \cup DOMAIN s
       /\ \A i \in DOMAIN r.wrote : Join(r.wrote, s)[i] = r.wrote[i]
       /\ \A i \in DOMAIN s \ DOMAIN r.wrote : Join(r.wrote, s)[i] = s[i]
  <2>1. r.wrote \in Table /\ s \in Table
    BY <1>1, <1>16
  <2> HIDE DEF s
  <2> QED
    BY <2>1, JoinIs
<1>28. row \in DOMAIN b <=> (row \in DOMAIN b /\ row \in DOMAIN r.wrote) \/ row \in X
  <2>1. H = {} => row = q.id
    BY <1>4 DEF UpsertedRow
  <2>2. H = {} => row \notin DOMAIN b
    BY <1>1, <1>23, <2>1 DEF IdsOf
  <2> HIDE DEF H
  <2> QED
    BY <1>11, <1>15, <2>2
<1>29. \A i \in X : i = row
  BY <1>11
<1>30. Join(t, s) = Join(r.saved, Base(b, w))
  <2>1. /\ Join(r.saved, Base(b, w)) \in Table
        /\ DOMAIN Join(r.saved, Base(b, w)) = DOMAIN r.saved \cup DOMAIN Base(b, w)
        /\ \A i \in DOMAIN r.saved : Join(r.saved, Base(b, w))[i] = r.saved[i]
        /\ \A i \in DOMAIN Base(b, w) \ DOMAIN r.saved : Join(r.saved, Base(b, w))[i] = Base(b, w)[i]
    BY <1>1, <1>18, JoinIs
  <2> HIDE DEF t, s, w, X
  <2>2. DOMAIN b \cap DOMAIN w = (DOMAIN b \cap DOMAIN r.wrote) \cup X
    BY <1>6, <1>15, <1>28, <1>29
  <2>3. DOMAIN Join(t, s) = DOMAIN Join(r.saved, Base(b, w))
    BY <1>16, <1>17, <1>18, <1>20, <1>26, <2>1, <2>2
  <2>4. ASSUME NEW i \in DOMAIN Join(t, s) PROVE Join(t, s)[i] = Join(r.saved, Base(b, w))[i]
    <3>1. CASE i \in DOMAIN r.saved
      BY <3>1, <1>20, <1>26, <2>1
    <3>2. CASE i \notin DOMAIN r.saved /\ i \in DOMAIN b \cap DOMAIN r.wrote
      BY <3>2, <1>17, <1>18, <1>20, <1>26, <2>1, <2>2
    <3>3. CASE i \in X
      BY <3>3, <1>16, <1>18, <1>19, <1>20, <1>21, <1>26, <2>1, <2>2
    <3> QED
      BY <1>16, <1>17, <1>20, <1>26, <3>1, <3>2, <3>3
  <2> QED
    BY <1>26, <2>1, <2>3, <2>4, TablesEqual
<1>31. Separate(Join(t, s), r.requests)
  <2>1. IdsOf(r.requests) \cap DOMAIN r.saved = {} /\ Atomic!DistinctKeys(r.requests) /\ DistinctIds(r.requests)
    BY DEF Sound, Inserts
  <2> HIDE DEF t, s, X
  <2> QED
    BY <1>15, <1>16, <1>17, <1>20, <1>23, <1>26, <2>1 DEF Separate
<1>32. Enqueued(Atomic!EnqueueOne(Join(r.wrote, s), q), Join(t, s), r.requests, D \cup {m})
  <2> HIDE DEF t, s, D
  <2> QED
    BY <1>1, <1>25, <1>26, <1>27, <1>31, EnqueuedStep
<1>33. Atomic!EnqueueOne(Join(r.wrote, s), q) = w
  <2> DEFINE w2 == Join(r.wrote, s)
             u  == Atomic!EnqueueOne(w2, q)
  <2>1. KeyHolders(w2, q.job_key) = H
    <3>1. ASSUME NEW i \in KeyHolders(w2, q.job_key) PROVE i \in H
      <4>1. i \in DOMAIN w2 /\ q.job_key # NULL /\ Active(w2[i]) /\ w2[i].job_key = q.job_key
        BY HoldersIs
      <4>2. CASE i \in DOMAIN r.wrote
        BY <4>1, <4>2, <1>2, <1>10, <1>27
      <4>3. CASE i \notin DOMAIN r.wrote
        BY <4>1, <4>3, <1>16, <1>27
      <4> QED
        BY <4>2, <4>3
    <3>2. ASSUME NEW i \in H PROVE i \in KeyHolders(w2, q.job_key)
      <4>1. i \in DOMAIN v /\ Active(v[i]) /\ v[i].job_key = q.job_key /\ q.job_key # NULL
        BY <1>8
      <4>2. i \in DOMAIN r.wrote \/ (i \in X /\ i \notin DOMAIN r.wrote)
        BY <3>2
      <4> HIDE DEF X, H, v
      <4>3. i \in DOMAIN w2 /\ w2[i] = v[i]
        BY <4>2, <1>2, <1>15, <1>16, <1>27
      <4> HIDE DEF q, w2
      <4> QED
        BY <4>1, <4>3, HoldersIs
    <3> QED
      BY <3>1, <3>2
  <2>2. EnqueuedOne(u, w2, q, H)
    <3>1. EnqueuedOne(u, w2, q, KeyHolders(w2, q.job_key))
      <4> HIDE DEF w2, q, s
      <4> QED
        BY <1>1, <1>27, OneIs DEF w2
    <3> HIDE DEF u, w2, q, H
    <3> QED
      BY <2>1, <3>1
  <2>3. ASSUME NEW i \in X PROVE w2[i] = v[i] /\ i \in DOMAIN w2
    BY <1>2, <1>15, <1>16, <1>27
  <2>4. \A i \in DOMAIN r.wrote : w2[i] = r.wrote[i] /\ i \in DOMAIN w2 /\ v[i] = r.wrote[i]
    BY <1>2, <1>27
  <2>5. DOMAIN w2 = DOMAIN r.wrote \cup X
    BY <1>16, <1>27
  <2>6. row \in X \/ row \in DOMAIN r.wrote \/ H = {}
    BY <1>11
  <2>7. v = Join(r.wrote, b)
    OBVIOUS
  <2>8. q.id \notin DOMAIN r.wrote \/ H # {}
    BY <1>4 DEF UpsertedRow
  <2>9. H = {} => X = {}
    OBVIOUS
  <2> HIDE DEF w2, u, v, q, H, w, X
  <2>10. CASE H = {}
    <3>1. row = q.id /\ w[row] = NewRow(q.def, q.job_key, q.run_at)
          /\ \A i \in DOMAIN r.wrote : i # row => w[i] = r.wrote[i]
      BY <1>4, <2>10 DEF UpsertedRow
    <3>2. u \in Table /\ DOMAIN u = DOMAIN w2 \cup {q.id} /\ u[q.id] = NewRow(q.def, q.job_key, q.run_at)
          /\ \A i \in DOMAIN w2 : i # q.id => u[i] = w2[i]
      BY <2>2, <2>10 DEF EnqueuedOne
    <3>3. DOMAIN u = DOMAIN w
      BY <1>6, <2>5, <2>9, <2>10, <3>1, <3>2
    <3>4. \A i \in DOMAIN w : u[i] = w[i]
      BY <1>6, <2>4, <3>1, <3>2
    <3> QED
      BY <1>6, <3>2, <3>3, <3>4, TablesEqual DEF u, w2
  <2>11. CASE H # {}
    <3>1. H = {row} /\ w[row] = Upserted(v[row], q.def, q.mode, q.run_at)
          /\ \A i \in DOMAIN r.wrote : i # row => w[i] = r.wrote[i]
      BY <1>4, <2>7, <2>11 DEF UpsertedRow
    <3>2. u \in Table /\ DOMAIN u = DOMAIN w2 /\ u[row] = Upserted(w2[row], q.def, q.mode, q.run_at)
          /\ \A i \in DOMAIN w2 : i # row => u[i] = w2[i]
      BY <2>2, <2>11, <3>1 DEF EnqueuedOne
    <3>3. DOMAIN u = DOMAIN w
      BY <1>6, <1>29, <2>5, <2>6, <2>11, <3>2
    <3>4. \A i \in DOMAIN w : u[i] = w[i]
      BY <1>6, <2>3, <2>4, <2>6, <2>11, <3>1, <3>2
    <3> QED
      BY <1>6, <3>2, <3>3, <3>4, TablesEqual DEF u, w2
  <2> QED
    BY <2>10, <2>11
<1>34. Inserts(b, r1)
  <2>1. DOMAIN r1.requests \ r1.left = D \cup {m}
    BY <1>1
  <2>2. Enqueued(w, Join(r.saved, Base(b, w)), r.requests, D \cup {m})
    BY <1>30, <1>32, <1>33
  <2>3. ASSUME NEW i \in D \cup {m}, r.requests[i].job_key # NULL
        PROVE  LET k == r.requests[i].job_key
               IN  k \in DOMAIN r1.ids_by_job_key /\ r1.ids_by_job_key[k] \in KeyHolders(w, k)
    <3> DEFINE k == r.requests[i].job_key
    <3>1. CASE i = m
      <4>1. row \in KeyHolders(w, k)
        BY <3>1, <1>5, <1>6, <2>3, HoldersIs
      <4> HIDE DEF w
      <4> QED
        BY <3>1, <4>1, <2>3
    <3>2. CASE i # m
      <4>1. i \in D /\ k # NULL
        BY <2>3, <3>2
      <4>2. k \in DOMAIN r.ids_by_job_key /\ r.ids_by_job_key[k] \in KeyHolders(r.wrote, k)
        BY <4>1 DEF Sound, Inserts
      <4>3. r.ids_by_job_key[k] \in KeyHolders(w, k)
        BY <1>14, <4>2
      <4>4. q.job_key # NULL => k # q.job_key
        BY <1>7, <4>1
      <4> HIDE DEF w, D
      <4>5. k \in DOMAIN r1.ids_by_job_key /\ r1.ids_by_job_key[k] = r.ids_by_job_key[k]
        BY <4>2, <4>4
      <4> QED
        BY <4>3, <4>5
    <3> QED
      BY <3>1, <3>2
  <2>4. /\ Atomic!DistinctKeys(r.requests) /\ DistinctIds(r.requests)
        /\ IdsOf(r.requests) \cap DOMAIN r.saved = {} /\ r.left \subseteq DOMAIN r.requests
    BY DEF Sound, Inserts
  <2> HIDE DEF D
  <2> QED
    BY <2>1, <2>2, <2>3, <2>4 DEF Inserts
<1> QED
  BY <1>3, <1>12, <1>13, <1>34 DEF Sound

-----------------------------------------------------------------------------
(* Two callers *)

LEMMA ApartBack ==
    ASSUME NEW r, NEW s, Apart(r, s)
    PROVE  Apart(s, r)
  BY DEF Apart

LEMMA ApartIdle ==
    ASSUME NEW r, NEW s, DOMAIN r.wrote = {}, Ids(r) = {}
    PROVE  Apart(r, s)
  BY DEF Apart

\* Fewer rows and ids, the same keys.
LEMMA ApartFewer ==
    ASSUME NEW r, NEW r1, NEW s, Apart(r, s), Ids(r1) \subseteq Ids(r),
           \A i \in DOMAIN r1.wrote : i \in DOMAIN r.wrote /\ r1.wrote[i].job_key = r.wrote[i].job_key
    PROVE  Apart(r1, s)
  BY DEF Apart

\* New ids.
LEMMA ApartMore ==
    ASSUME NEW r, NEW r1, NEW s, Apart(r, s), NEW more, Ids(r1) = more \cup Ids(r),
           more \cap Ids(s) = {}, r1.wrote = r.wrote
    PROVE  Apart(r1, s)
  BY DEF Apart

\* A row whose key s does not hold.
LEMMA ApartUpsert ==
    ASSUME NEW b \in Table, NEW n, NEW r \in Caller, Sound(b, n, r),
           r.pc = "inserting", NEW m \in r.left, NEW row, NEW r1,
           UpsertedRow(b, r, r.requests[m], KeyHolders(Join(r.wrote, b), r.requests[m].job_key), r1.wrote, row),
           Ids(r1) = Ids(r), NEW s \in Caller, Sound(b, n, s), Apart(r, s),
           r.requests[m].job_key # NULL =>
               \A i \in DOMAIN s.wrote : s.wrote[i].job_key # r.requests[m].job_key
    PROVE  Apart(r1, s)
<1> DEFINE q == r.requests[m]
           H == KeyHolders(Join(r.wrote, b), q.job_key)
           w == r1.wrote
<1>1. RowKept(b, r, q, H, w, row)
  BY UpsertedKeeps
<1>2. DOMAIN w = DOMAIN r.wrote \cup {row}
  BY DEF UpsertedRow
<1>3. q.id \in Ids(r) /\ q.id \notin DOMAIN b
  <2>1. m \in DOMAIN r.requests
    BY DEF Sound, Inserts
  <2>2. q.id \in Ids(r)
    BY <2>1 DEF Ids, IdsOf
  <2> QED
    BY <2>2 DEF Sound, Writes
<1>4. H # {} => q.job_key # NULL
  BY DEF KeyHolders
<1>5. \A i \in DOMAIN s.wrote : i \in DOMAIN b \/ i \in Ids(s)
  BY DEF Sound, Writes
<1>6. \A i \in DOMAIN s.wrote : i \in DOMAIN b => b[i].job_key = s.wrote[i].job_key
  BY DEF Sound, Writes
<1>7. row \in DOMAIN r.wrote \/ row \notin DOMAIN s.wrote
  <2> HIDE DEF q, H, w
  <2>1. CASE H = {}
    <3>1. row = q.id
      BY <1>1, <2>1 DEF RowKept
    <3> QED
      BY <1>3, <1>5, <3>1 DEF Apart
  <2>2. CASE H # {} /\ row \in DOMAIN b
    <3>1. b[row].job_key = q.job_key /\ q.job_key # NULL
      BY <1>1, <1>4, <2>2 DEF RowKept
    <3> QED
      BY <1>6, <2>2, <3>1 DEF q
  <2>3. CASE H # {} /\ row \notin DOMAIN b
    BY <1>1, <2>3 DEF RowKept
  <2> QED
    BY <2>1, <2>2, <2>3
<1>8. w[row].job_key = q.job_key
  BY <1>1 DEF RowKept
<1>9. \A i \in DOMAIN r.wrote : w[i].job_key = r.wrote[i].job_key
  BY <1>1 DEF RowKept
<1>10. ASSUME NEW i \in DOMAIN w, NEW j \in DOMAIN s.wrote
       PROVE  i # j /\ (w[i].job_key # NULL => w[i].job_key # s.wrote[j].job_key)
  <2>1. CASE i \in DOMAIN r.wrote
    BY <1>9, <2>1 DEF Apart
  <2>2. CASE i \notin DOMAIN r.wrote
    <3>1. i = row
      BY <1>2, <2>2
    <3> QED
      BY <1>7, <1>8, <2>2, <3>1
  <2> QED
    BY <2>1, <2>2
<1> QED
  BY <1>10 DEF Apart
-----------------------------------------------------------------------------
(* The inductive invariant *)

LEMMA Constants ==
    /\ Own \subseteq Callers /\ MaxCalls \in [Callers -> Nat]
    /\ Batches \subseteq Seq([def : Defs, job_key : Keys \cup {NULL}, mode : Modes, run_at : Nat])
  BY BatchAssumption

\* A caller's step that leaves the table alone.
LEMMA CallerStep ==
    ASSUME IInv, NEW c \in Callers, NEW r1 \in Caller, r1.calls <= MaxCalls[c],
           caller' = [caller EXCEPT ![c] = r1], UNCHANGED jobs,
           nextId' \in Nat \ {0}, nextId <= nextId', Sound(jobs, nextId', r1),
           \A d \in Callers \ {c} : Apart(r1, caller[d])
    PROVE  IInv'
<1>1. /\ jobs \in Table /\ nextId \in Nat \ {0} /\ caller \in [Callers -> Caller]
      /\ \A d \in Callers : caller[d].calls <= MaxCalls[d]
  BY DEF IInv, TypeCorrect
<1>2. caller'[c] = r1 /\ \A d \in Callers \ {c} : caller'[d] = caller[d]
  BY <1>1
<1>3. TypeCorrect'
  <2>1. caller' \in [Callers -> Caller]
    BY <1>1
  <2>2. DOMAIN jobs \subseteq 1..(nextId' - 1)
    BY <1>1 DEF IInv, TypeCorrect
  <2> QED
    BY <1>1, <1>2, <2>1, <2>2 DEF TypeCorrect
<1>4. ASSUME NEW d \in Callers PROVE Sound(jobs', nextId', caller'[d])
  <2>1. CASE d = c
    BY <1>2, <2>1
  <2>2. CASE d # c
    <3> DEFINE r == caller[d]
    <3>1. r \in Caller /\ Sound(jobs, nextId, r)
      BY <1>1 DEF IInv
    <3>2. Ids(r) \cap DOMAIN jobs = {} /\ OneHolder(Join(r.wrote, jobs))
      BY <3>1 DEF Sound, Writes
    <3> HIDE DEF r
    <3>3. Sound(jobs, nextId', r)
      BY <1>1, <3>1, <3>2, OthersSound
    <3> QED
      BY <1>2, <2>2, <3>3 DEF r
  <2> QED
    BY <2>1, <2>2
<1>5. ASSUME NEW d \in Callers, NEW e \in Callers, d # e PROVE Apart(caller'[d], caller'[e])
  <2>1. CASE d = c
    BY <1>2, <1>5, <2>1
  <2>2. CASE e = c
    BY <1>2, <1>5, <2>2, ApartBack
  <2>3. CASE d # c /\ e # c
    BY <1>2, <1>5, <2>3 DEF IInv
  <2> QED
    BY <2>1, <2>2, <2>3
<1> QED
  BY <1>3, <1>4, <1>5 DEF IInv

LEMMA IInvIs ==
    ASSUME IInv, NEW c \in Callers
    PROVE  /\ jobs \in Table /\ nextId \in Nat \ {0} /\ DOMAIN jobs \subseteq 1..(nextId - 1) /\ OneHolder(jobs)
           /\ caller[c] \in Caller /\ Sound(jobs, nextId, caller[c]) /\ caller[c].calls <= MaxCalls[c]
           /\ \A d \in Callers \ {c} : Apart(caller[c], caller[d]) /\ Apart(caller[d], caller[c])
  BY DEF IInv, TypeCorrect

LEMMA RollbackStep ==
    ASSUME IInv, NEW c \in Callers, UNCHANGED <<jobs, nextId>>,
           caller' = [caller EXCEPT ![c] = Idle(caller[c].calls)]
    PROVE  IInv'
<1> DEFINE r1 == Idle(caller[c].calls)
<1>1. caller[c].calls \in Nat /\ nextId \in Nat \ {0} /\ nextId \in Nat
  BY IInvIs, CallerIs
<1>2. r1 \in Caller /\ Ids(r1) = {} /\ Sound(jobs, nextId, r1)
  BY <1>1, IInvIs, IdleSound
<1>3. r1.calls = caller[c].calls /\ DOMAIN r1.wrote = {}
  BY NoRowsIs DEF Idle
<1> HIDE DEF r1
<1>4. \A d \in Callers \ {c} : Apart(r1, caller[d])
  BY <1>2, <1>3, ApartIdle
<1>5. r1.calls <= MaxCalls[c]
  BY <1>3, IInvIs
<1>6. caller' = [caller EXCEPT ![c] = r1] /\ nextId' = nextId /\ nextId <= nextId'
  BY <1>1 DEF r1
<1> QED
  BY <1>1, <1>2, <1>4, <1>5, <1>6, CallerStep

LEMMA RefuseStep ==
    ASSUME IInv, NEW c \in Callers, NEW batch, Refuse(c, batch)
    PROVE  IInv'
<1> DEFINE r == caller[c]
           r1 == [r EXCEPT !.calls = @ + 1]
<1>1. r \in Caller /\ Sound(jobs, nextId, r) /\ nextId \in Nat \ {0} /\ caller \in [Callers -> Caller]
  BY DEF IInv, TypeCorrect
<1>2. MaxCalls[c] \in Nat /\ r.calls \in Nat /\ r.calls < MaxCalls[c]
  BY <1>1, Constants, CallerIs DEF Refuse
<1>3. caller' = [caller EXCEPT ![c] = r1] /\ jobs' = jobs /\ nextId' = nextId /\ nextId <= nextId'
  BY <1>1 DEF Refuse
<1> HIDE DEF r
<1>4. r1 \in Caller /\ r1.calls <= MaxCalls[c]
  <2>1. r.calls + 1 \in Nat /\ r.calls + 1 <= MaxCalls[c]
    BY <1>2
  <2>2. r1 \in Caller
    BY <1>1, <2>1 DEF Caller
  <2>3. r1.calls = r.calls + 1
    BY <1>1 DEF Caller
  <2> QED
    BY <2>1, <2>2, <2>3
<1>5. /\ r1.pc = r.pc /\ r1.requests = r.requests /\ r1.left = r.left /\ r1.wrote = r.wrote
      /\ r1.saved = r.saved /\ r1.ids_by_job_key = r.ids_by_job_key /\ r1.answered = r.answered
  BY <1>1 DEF Caller
<1> HIDE DEF r1
<1>6. Sound(jobs, nextId, r1) /\ Ids(r1) = Ids(r)
  BY <1>1, <1>5, SameSound
<1>7. ASSUME NEW d \in Callers \ {c} PROVE Apart(r1, caller[d])
  <2>1. Apart(r, caller[d])
    BY IInvIs DEF r
  <2> QED
    BY <1>5, <1>6, <2>1, ApartFewer
<1> QED
  BY <1>1, <1>3, <1>4, <1>6, <1>7, CallerStep

LEMMA BeginStep ==
    ASSUME IInv, NEW c \in Callers, NEW batch \in Batches, Begin(c, batch)
    PROVE  IInv'
<1> DEFINE N == Len(batch)
           requests == [i \in DOMAIN batch |->
                           [id |-> nextId + i - 1, def |-> batch[i].def, job_key |-> batch[i].job_key,
                            mode |-> batch[i].mode, run_at |-> batch[i].run_at]]
           r == caller[c]
           r1 == [r EXCEPT !.pc = "inserting", !.requests = requests, !.left = Indices(requests),
                           !.saved = r.wrote, !.ids_by_job_key = NoRows, !.calls = r.calls + 1]
           n1 == nextId + N
<1>1. /\ r \in Caller /\ Sound(jobs, nextId, r) /\ nextId \in Nat \ {0} /\ caller \in [Callers -> Caller]
      /\ jobs \in Table /\ DOMAIN jobs \subseteq 1..(nextId - 1)
  BY DEF IInv, TypeCorrect
<1>2. MaxCalls[c] \in Nat /\ r.calls \in Nat /\ r.calls < MaxCalls[c] /\ r.wrote \in Table
  BY <1>1, Constants, CallerIs DEF Begin
<1>3. batch \in Seq([def : Defs, job_key : Keys \cup {NULL}, mode : Modes, run_at : Nat])
  BY Constants
<1>4. N \in Nat /\ DOMAIN batch = 1..N
  BY <1>3, LenProperties
<1>5. ASSUME NEW i \in 1..N
      PROVE  /\ batch[i].def \in Defs /\ batch[i].job_key \in Keys \cup {NULL} /\ batch[i].mode \in Modes
             /\ batch[i].run_at \in Nat
  <2>1. batch[i] \in [def : Defs, job_key : Keys \cup {NULL}, mode : Modes, run_at : Nat]
    BY <1>3, <1>4, ElementOfSeq
  <2> QED
    BY <2>1
<1>6. /\ caller' = [caller EXCEPT ![c] = r1] /\ jobs' = jobs /\ nextId' = n1
      /\ r.pc # "inserting" /\ ~ DuplicateJobKey(batch)
  <2>1. caller' = [caller EXCEPT ![c] = r1]
    BY DEF Begin
  <2>2. r.pc = "idle" \/ r.pc = "open"
    BY DEF Begin
  <2>3. jobs' = jobs /\ nextId' = n1 /\ ~ DuplicateJobKey(batch)
    BY DEF Begin
  <2> QED
    BY <2>1, <2>2, <2>3
<1>7. requests \in [1..N -> Asked] /\ DOMAIN requests = 1..N
  <2>1. ASSUME NEW i \in 1..N PROVE requests[i] \in Asked
    <3>1. nextId + i - 1 \in Nat
      BY <1>1
    <3> QED
      BY <1>4, <1>5, <3>1 DEF Asked
  <2> HIDE DEF N
  <2> QED
    BY <1>4, <2>1
<1>8. \A i \in 1..N : requests[i].id = nextId + i - 1 /\ requests[i].job_key = batch[i].job_key
  BY <1>4
<1> HIDE DEF requests, N, r
<1>9. requests \in Seq(Asked)
  BY <1>4, <1>7
<1>10. /\ r1 \in Caller /\ r1.calls <= MaxCalls[c]
       /\ r1.pc = "inserting" /\ r1.requests = requests /\ r1.left = DOMAIN requests
       /\ r1.wrote = r.wrote /\ r1.saved = r.wrote /\ r1.answered = r.answered
  <2>1. Indices(requests) = DOMAIN requests /\ DOMAIN requests \in SUBSET Nat
    BY <1>4, <1>7 DEF Indices
  <2>2. NoRows \in [{} -> Nat] /\ {} \in SUBSET Keys
    BY DEF NoRows
  <2>3. NoRows \in UNION {[S -> Nat] : S \in SUBSET Keys}
    BY <2>2
  <2>4. r.calls + 1 \in Nat /\ r.calls + 1 <= MaxCalls[c]
    BY <1>2
  <2> QED
    BY <1>1, <1>2, <1>9, <2>1, <2>3, <2>4 DEF Caller
<1> HIDE DEF r1
<1>11. IdsOf(requests) \subseteq nextId..(n1 - 1) /\ DistinctIds(requests)
  BY <1>1, <1>4, <1>7, <1>8 DEF IdsOf, DistinctIds
<1>12. Atomic!DistinctKeys(requests)
  BY <1>4, <1>6, <1>7, <1>8 DEF Atomic!DistinctKeys, DuplicateJobKey
<1>13. n1 \in Nat \ {0} /\ nextId <= n1
  BY <1>1, <1>4
<1>14. Sound(jobs, n1, r1) /\ Ids(r1) = IdsOf(requests) \cup Ids(r)
  <2>1. r.pc # "inserting"
    BY <1>6
  <2>2. Begun(nextId, n1, r, r1)
    BY <1>9, <1>10, <1>11, <1>12 DEF Begun
  <2> HIDE DEF n1
  <2>3. Sound(jobs, n1, r1) /\ Ids(r1) = IdsOf(r1.requests) \cup Ids(r)
    BY <1>1, <1>13, <2>1, <2>2, BeginSound
  <2> QED
    BY <1>10, <2>3
<1>15. ASSUME NEW d \in Callers \ {c} PROVE Apart(r1, caller[d])
  <2>1. Apart(r, caller[d])
    BY IInvIs DEF r
  <2>2. Ids(caller[d]) \subseteq 1..(nextId - 1)
    BY IInvIs DEF Sound, Writes
  <2>3. IdsOf(requests) \cap Ids(caller[d]) = {}
    BY <1>1, <1>11, <2>2
  <2> QED
    BY <1>10, <1>14, <2>1, <2>3, ApartMore
<1> QED
  BY <1>6, <1>10, <1>13, <1>14, <1>15, CallerStep

\* The turn is that of a request that is left.
LEMMA TurnIs ==
    ASSUME NEW c \in Callers, NEW m \in Turn(c)
    PROVE  m \in caller[c].left
<1>1. Statement(c) \subseteq caller[c].left
  BY DEF Statement, Selected
<1> QED
  BY <1>1 DEF Turn

LEMMA UpsertStep ==
    ASSUME IInv, NEW c \in Callers, Upsert(c)
    PROVE  IInv'
<1> DEFINE r == caller[c]
<1>1. PICK m \in Turn(c) : caller' = [caller EXCEPT ![c] = UpsertRow(c, m)]
  BY DEF Upsert
<1> DEFINE r1 == UpsertRow(c, m)
           q == r.requests[m]
           v == Join(r.wrote, jobs)
           after == InsertJob(v, q.id, q.def, q.job_key, q.mode, q.run_at)
           row == IF q.job_key = NULL THEN q.id ELSE CHOOSE i \in KeyHolders(after, q.job_key) : TRUE
           w == [i \in DOMAIN r.wrote \cup {row} |-> after[i]]
           ids == IF q.job_key = NULL THEN r.ids_by_job_key
                  ELSE [k \in DOMAIN r.ids_by_job_key \cup {q.job_key} |->
                           IF k = q.job_key THEN row ELSE r.ids_by_job_key[k]]
<1>2. /\ r \in Caller /\ Sound(jobs, nextId, r) /\ nextId \in Nat \ {0} /\ nextId \in Nat
      /\ jobs \in Table /\ caller \in [Callers -> Caller] /\ r.calls <= MaxCalls[c]
  BY DEF IInv, TypeCorrect
<1>3. m \in r.left /\ r.pc = "inserting" /\ WaitsFor(c) = {} /\ jobs' = jobs /\ nextId' = nextId
  BY TurnIs DEF Upsert, Upserting
<1>4. v = View(c)
  <2>1. DOMAIN r.wrote \cup DOMAIN jobs = DOMAIN jobs \cup DOMAIN r.wrote
    OBVIOUS
  <2> QED
    BY <2>1 DEF View, Join
<1>5. r1 = [r EXCEPT !.left = @ \ {m}, !.wrote = w, !.ids_by_job_key = ids]
  <2> HIDE DEF v
  <2> QED
    BY <1>2, <1>4 DEF UpsertRow
<1>6. UpsertedRow(jobs, r, q, KeyHolders(v, q.job_key), w, row)
  BY <1>2, <1>3, UpsertIs
<1>7. w \in Table /\ DOMAIN w = DOMAIN r.wrote \cup {row}
  <2> HIDE DEF w, row, q, v
  <2> QED
    BY <1>6 DEF UpsertedRow
<1>8. row \in Nat
  <2> HIDE DEF w, row
  <2> QED
    BY <1>7, TableIs
<1>9. m \in DOMAIN r.requests /\ q.job_key \in Keys \cup {NULL}
  BY <1>2, <1>3, CallerIs, Elements, AskedIs DEF Sound, Inserts
<1>10. ids \in UNION {[S -> Nat] : S \in SUBSET Keys}
  <2> HIDE DEF row
  <2>1. PICK S \in SUBSET Keys : r.ids_by_job_key \in [S -> Nat]
    BY <1>2, CallerIs
  <2>2. CASE q.job_key = NULL
    BY <2>1, <2>2
  <2>3. CASE q.job_key # NULL
    <3> HIDE DEF q
    <3>1. S \cup {q.job_key} \in SUBSET Keys
      BY <1>9, <2>3
    <3>2. ids \in [S \cup {q.job_key} -> Nat]
      BY <1>8, <2>1, <2>3
    <3> HIDE DEF ids
    <3> QED
      BY <3>1, <3>2
  <2> QED
    BY <2>2, <2>3
<1> HIDE DEF w, row, r, ids
<1>11. /\ r1.pc = "inserting" /\ r1.requests = r.requests /\ r1.left = r.left \ {m} /\ r1.saved = r.saved
       /\ r1.answered = r.answered /\ r1.wrote = w /\ r1.ids_by_job_key = ids /\ r1.calls = r.calls
       /\ r1 \in Caller
  <2> HIDE DEF r1
  <2> QED
    BY <1>2, <1>3, <1>5, <1>7, <1>10 DEF Caller
<1> HIDE DEF r1
<1>12. Sound(jobs, nextId, r1) /\ Ids(r1) = Ids(r)
  <2>1. UpsertedRow(jobs, r, r.requests[m], KeyHolders(Join(r.wrote, jobs), r.requests[m].job_key), r1.wrote, row)
    BY <1>6, <1>11
  <2>2. r1.ids_by_job_key = IF r.requests[m].job_key = NULL THEN r.ids_by_job_key
               ELSE [k \in DOMAIN r.ids_by_job_key \cup {r.requests[m].job_key} |->
                        IF k = r.requests[m].job_key THEN row ELSE r.ids_by_job_key[k]]
    BY <1>11 DEF ids
  <2> QED
    BY <1>2, <1>3, <1>11, <2>1, <2>2, UpsertSound
<1>13. ASSUME NEW d \in Callers \ {c} PROVE Apart(r1, caller[d])
  <2> DEFINE s == caller[d]
  <2>1. Apart(r, s) /\ s \in Caller /\ Sound(jobs, nextId, s)
    BY IInvIs DEF r
  <2>2. q.job_key # NULL => \A i \in DOMAIN s.wrote : s.wrote[i].job_key # q.job_key
    BY <1>1, <1>3 DEF WaitsFor, r
  <2>3. UpsertedRow(jobs, r, r.requests[m], KeyHolders(Join(r.wrote, jobs), r.requests[m].job_key), r1.wrote, row)
    BY <1>6, <1>11
  <2> HIDE DEF s
  <2>4. Apart(r1, s)
    BY <1>2, <1>3, <1>12, <2>1, <2>2, <2>3, ApartUpsert
  <2> QED
    BY <2>4 DEF s
<1>14. caller' = [caller EXCEPT ![c] = r1] /\ r1.calls <= MaxCalls[c] /\ nextId <= nextId'
  BY <1>1, <1>2, <1>3, <1>11 DEF r1
<1> QED
  BY <1>2, <1>3, <1>11, <1>12, <1>13, <1>14, CallerStep


LEMMA ReturnStep ==
    ASSUME IInv, NEW c \in Callers, Return(c)
    PROVE  IInv'
<1> DEFINE r == caller[c]
           call == [requests |-> r.requests, ids |-> Ordered(r)]
           r1 == [r EXCEPT !.pc = "open", !.saved = NoRows, !.requests = <<>>, !.ids_by_job_key = NoRows,
                           !.answered = Append(r.answered, call)]
<1>1. /\ r \in Caller /\ Sound(jobs, nextId, r) /\ nextId \in Nat \ {0} /\ nextId \in Nat
      /\ jobs \in Table /\ r.calls <= MaxCalls[c] /\ r.answered \in Seq(Call)
  BY IInvIs, CallerIs
<1>2. r.pc = "inserting" /\ r.left = {} /\ jobs' = jobs /\ nextId' = nextId /\ nextId <= nextId'
  BY <1>1 DEF Return
<1>3. caller' = [caller EXCEPT ![c] = r1]
  BY DEF Return, OrderedIds, Ordered
<1>4. call \in Call
  BY <1>1, <1>2, AnswerIs
<1> HIDE DEF r, call
<1>5. /\ r1 \in Caller /\ r1.pc = "open" /\ r1.requests = <<>> /\ r1.left = {} /\ r1.wrote = r.wrote
      /\ r1.saved = NoRows /\ r1.answered = Append(r.answered, call) /\ r1.calls = r.calls
  <2>1. NoRows \in [{} -> Nat] /\ {} \in SUBSET Keys
    BY DEF NoRows
  <2>2. NoRows \in UNION {[S -> Nat] : S \in SUBSET Keys} /\ NoRows \in Table
    BY <2>1, NoRowsIs
  <2>3. Append(r.answered, call) \in Seq(Call)
    BY <1>1, <1>4, AppendProperties
  <2>4. <<>> \in Seq(Asked)
    OBVIOUS
  <2> QED
    BY <1>1, <1>2, <2>2, <2>3, <2>4 DEF Caller
<1> HIDE DEF r1
<1>6. Sound(jobs, nextId, r1) /\ Ids(r1) = Ids(r)
  BY <1>1, <1>2, <1>5, ReturnSound DEF call
<1>7. ASSUME NEW d \in Callers \ {c} PROVE Apart(r1, caller[d])
  <2>1. Apart(r, caller[d])
    BY IInvIs DEF r
  <2> QED
    BY <1>5, <1>6, <2>1, ApartFewer
<1> QED
  BY <1>1, <1>2, <1>3, <1>5, <1>6, <1>7, CallerStep

LEMMA FailStep ==
    ASSUME IInv, NEW c \in Callers, Fail(c)
    PROVE  IInv'
<1> DEFINE r == caller[c]
           r1 == [r EXCEPT !.pc = "open", !.requests = <<>>, !.left = {}, !.wrote = r.saved,
                           !.saved = NoRows, !.ids_by_job_key = NoRows]
<1>1. /\ r \in Caller /\ Sound(jobs, nextId, r) /\ nextId \in Nat \ {0} /\ nextId \in Nat
      /\ jobs \in Table /\ r.calls <= MaxCalls[c] /\ r.saved \in Table
  BY IInvIs, CallerIs
<1>2. r.pc = "inserting" /\ jobs' = jobs /\ nextId' = nextId /\ nextId <= nextId'
  BY <1>1 DEF Fail, Upserting
<1>3. CASE c \in Own
  <2>1. caller' = [caller EXCEPT ![c] = Idle(caller[c].calls)]
    BY <1>3 DEF Fail, Failed
  <2> QED
    BY <1>2, <2>1, RollbackStep
<1>4. CASE c \notin Own
  <2>1. caller' = [caller EXCEPT ![c] = r1]
    BY <1>4 DEF Fail, Failed
  <2> HIDE DEF r
  <2>2. /\ r1 \in Caller /\ r1.pc = "open" /\ r1.requests = <<>> /\ r1.left = {} /\ r1.wrote = r.saved
        /\ r1.saved = NoRows /\ r1.answered = r.answered /\ r1.calls = r.calls
    <3>1. NoRows \in [{} -> Nat] /\ {} \in SUBSET Keys
      BY DEF NoRows
    <3>2. NoRows \in UNION {[S -> Nat] : S \in SUBSET Keys} /\ NoRows \in Table
      BY <3>1, NoRowsIs
    <3>3. <<>> \in Seq(Asked) /\ {} \in SUBSET Nat
      OBVIOUS
    <3> QED
      BY <1>1, <3>2, <3>3 DEF Caller
  <2> HIDE DEF r1
  <2>3. Sound(jobs, nextId, r1) /\ Ids(r1) \subseteq Ids(r)
    BY <1>1, <1>2, <2>2, FailedSound
  <2>4. ASSUME NEW d \in Callers \ {c} PROVE Apart(r1, caller[d])
    <3>1. Apart(r, caller[d])
      BY IInvIs DEF r
    <3>2. \A i \in DOMAIN r1.wrote : i \in DOMAIN r.wrote /\ r1.wrote[i].job_key = r.wrote[i].job_key
      BY <1>1, <2>2 DEF Sound, Writes
    <3> QED
      BY <2>3, <3>1, <3>2, ApartFewer
  <2> QED
    BY <1>1, <1>2, <2>1, <2>2, <2>3, <2>4, CallerStep
<1> QED
  BY <1>3, <1>4


\* What r writes is committed while s holds its own rows.
LEMMA CommitOthers ==
    ASSUME NEW b \in Table, NEW n \in Nat, NEW r \in Caller, Sound(b, n, r),
           NEW s \in Caller, Sound(b, n, s), Apart(r, s)
    PROVE  Sound(Join(r.wrote, b), n, s)
<1> DEFINE b1 == Join(r.wrote, b)
           u == Join(s.wrote, b1)
           v == Join(s.wrote, b)
<1>1. r.wrote \in Table /\ s.wrote \in Table
  BY CallerIs
<1>2. /\ b1 \in Table /\ DOMAIN b1 = DOMAIN r.wrote \cup DOMAIN b
      /\ \A i \in DOMAIN r.wrote : b1[i] = r.wrote[i]
      /\ \A i \in DOMAIN b \ DOMAIN r.wrote : b1[i] = b[i]
  BY <1>1, JoinIs
<1>3. OneHolder(b1) /\ OneHolder(v)
  BY DEF Sound, Writes
<1>4. \A i \in DOMAIN s.wrote : i \notin DOMAIN r.wrote
  BY DEF Apart
<1>5. Ids(s) \cap DOMAIN b1 = {}
  <2>1. \A i \in DOMAIN r.wrote : i \in DOMAIN b \/ i \in Ids(r)
    BY DEF Sound, Writes
  <2>2. Ids(s) \cap Ids(r) = {} /\ Ids(s) \cap DOMAIN b = {}
    BY DEF Sound, Writes, Apart
  <2> HIDE DEF b1
  <2> QED
    BY <1>2, <2>1, <2>2
<1>6. /\ v \in Table /\ DOMAIN v = DOMAIN s.wrote \cup DOMAIN b
      /\ \A i \in DOMAIN s.wrote : v[i] = s.wrote[i]
      /\ \A i \in DOMAIN b \ DOMAIN s.wrote : v[i] = b[i]
  BY <1>1, JoinIs
<1> HIDE DEF b1, v
<1>7. /\ u \in Table /\ DOMAIN u = DOMAIN s.wrote \cup DOMAIN b1
      /\ \A i \in DOMAIN s.wrote : u[i] = s.wrote[i]
      /\ \A i \in DOMAIN b1 \ DOMAIN s.wrote : u[i] = b1[i]
  BY <1>1, <1>2, JoinIs
<1> HIDE DEF u
<1>8. OneHolder(u)
  <2>1. SUFFICES ASSUME NEW i \in DOMAIN u, NEW j \in DOMAIN u, Active(u[i]), Active(u[j]),
                        u[i].job_key = u[j].job_key, u[i].job_key # NULL
                 PROVE  i = j
    BY <1>7, OneHolderIs
  <2>2. CASE i \notin DOMAIN r.wrote /\ j \notin DOMAIN r.wrote
    <3>1. i \in DOMAIN v /\ j \in DOMAIN v /\ v[i] = u[i] /\ v[j] = u[j]
      BY <1>2, <1>6, <1>7, <2>2
    <3> QED
      BY <1>3, <1>6, <2>1, <3>1, OneHolderIs
  <2>3. CASE i \notin DOMAIN s.wrote /\ j \notin DOMAIN s.wrote
    <3>1. i \in DOMAIN b1 /\ j \in DOMAIN b1 /\ b1[i] = u[i] /\ b1[j] = u[j]
      BY <1>7, <2>3
    <3> QED
      BY <1>2, <1>3, <2>1, <3>1, OneHolderIs
  <2>4. CASE i \in DOMAIN r.wrote /\ j \in DOMAIN s.wrote
    <3>1. u[i] = r.wrote[i] /\ u[j] = s.wrote[j]
      BY <1>2, <1>4, <1>7, <2>4
    <3> QED
      BY <2>1, <2>4, <3>1 DEF Apart
  <2>5. CASE j \in DOMAIN r.wrote /\ i \in DOMAIN s.wrote
    <3>1. u[j] = r.wrote[j] /\ u[i] = s.wrote[i]
      BY <1>2, <1>4, <1>7, <2>5
    <3> QED
      BY <2>1, <2>5, <3>1 DEF Apart
  <2> QED
    BY <1>4, <2>2, <2>3, <2>4, <2>5
<1>9. \A i \in DOMAIN s.wrote : /\ i \in DOMAIN b <=> i \in DOMAIN b1
                                /\ i \in DOMAIN b => b1[i] = b[i]
  BY <1>2, <1>4
<1>10. n <= n
  OBVIOUS
<1>11. Sound(b1, n, s)
  BY <1>2, <1>5, <1>8, <1>9, <1>10, OthersSound DEF u
<1> QED
  BY <1>11 DEF b1

\* A worker changes the row j that r has not locked.
LEMMA WorkerSound ==
    ASSUME NEW b \in Table, NEW b1 \in Table, NEW n \in Nat, NEW r \in Caller, Sound(b, n, r),
           NEW j \in DOMAIN b, j \notin DOMAIN r.wrote,
           DOMAIN b1 = DOMAIN b, \A i \in DOMAIN b \ {j} : b1[i] = b[i],
           Active(b1[j]) => Active(b[j]) /\ b1[j].job_key = b[j].job_key
    PROVE  Sound(b1, n, r)
<1> DEFINE u == Join(r.wrote, b1)
           v == Join(r.wrote, b)
<1>1. r.wrote \in Table /\ OneHolder(v) /\ Ids(r) \cap DOMAIN b1 = {} /\ n <= n
  BY CallerIs DEF Sound, Writes
<1>2. /\ v \in Table /\ DOMAIN v = DOMAIN r.wrote \cup DOMAIN b
      /\ \A i \in DOMAIN r.wrote : v[i] = r.wrote[i]
      /\ \A i \in DOMAIN b \ DOMAIN r.wrote : v[i] = b[i]
  BY <1>1, JoinIs
<1>3. /\ u \in Table /\ DOMAIN u = DOMAIN r.wrote \cup DOMAIN b1
      /\ \A i \in DOMAIN r.wrote : u[i] = r.wrote[i]
      /\ \A i \in DOMAIN b1 \ DOMAIN r.wrote : u[i] = b1[i]
  BY <1>1, JoinIs
<1> HIDE DEF v, u
<1>4. OneHolder(u)
  <2>1. ASSUME NEW i \in DOMAIN u, Active(u[i])
        PROVE  i \in DOMAIN v /\ Active(v[i]) /\ v[i].job_key = u[i].job_key
    BY <1>2, <1>3, <2>1
  <2> QED
    BY <1>1, <1>2, <1>3, <2>1, FewerHolders
<1>5. \A i \in DOMAIN r.wrote : /\ i \in DOMAIN b <=> i \in DOMAIN b1
                                /\ i \in DOMAIN b => b1[i] = b[i]
  OBVIOUS
<1> QED
  BY <1>1, <1>4, <1>5, OthersSound DEF u


LEMMA CommitStep ==
    ASSUME IInv, NEW c \in Callers, Commit(c)
    PROVE  IInv'
<1> DEFINE r == caller[c]
           r1 == Idle(r.calls)
           b1 == Join(r.wrote, jobs)
<1>1. /\ r \in Caller /\ Sound(jobs, nextId, r) /\ nextId \in Nat \ {0} /\ nextId \in Nat
      /\ jobs \in Table /\ DOMAIN jobs \subseteq 1..(nextId - 1) /\ r.calls <= MaxCalls[c]
      /\ r.calls \in Nat /\ r.wrote \in Table
  BY IInvIs, CallerIs
<1>2. caller' = [caller EXCEPT ![c] = r1] /\ nextId' = nextId
  BY DEF Commit
<1>3. jobs' = b1
  <2>1. DOMAIN r.wrote \cup DOMAIN jobs = DOMAIN jobs \cup DOMAIN r.wrote
    OBVIOUS
  <2> QED
    BY <2>1 DEF Commit, View, Join
<1>4. b1 \in Table /\ DOMAIN b1 = DOMAIN r.wrote \cup DOMAIN jobs
  BY <1>1, JoinIs
<1>5. DOMAIN b1 \subseteq 1..(nextId - 1) /\ OneHolder(b1)
  <2>1. \A i \in DOMAIN r.wrote : i \in DOMAIN jobs \/ i \in 1..(nextId - 1)
    BY <1>1 DEF Sound, Writes
  <2>2. OneHolder(b1)
    BY <1>1 DEF Sound, Writes
  <2> HIDE DEF b1, r
  <2> QED
    BY <1>1, <1>4, <2>1, <2>2
<1>6. ASSUME NEW d \in Callers \ {c} PROVE Sound(b1, nextId, caller[d])
  <2> DEFINE s == caller[d]
  <2>1. s \in Caller /\ Sound(jobs, nextId, s) /\ Apart(r, s)
    BY IInvIs
  <2> HIDE DEF r, s, b1
  <2>2. Sound(b1, nextId, s)
    BY <1>1, <2>1, CommitOthers DEF b1
  <2> QED
    BY <2>2 DEF s
<1> HIDE DEF r, b1
<1>7. r1 \in Caller /\ Ids(r1) = {} /\ Sound(b1, nextId, r1)
  BY <1>1, <1>4, <1>5, IdleSound
<1>8. r1.calls = r.calls /\ DOMAIN r1.wrote = {}
  BY NoRowsIs DEF Idle
<1> HIDE DEF r1
<1>9. \A d \in Callers \ {c} : Apart(r1, caller[d]) /\ Apart(caller[d], r1)
  BY <1>7, <1>8, ApartIdle, ApartBack
<1>10. caller \in [Callers -> Caller] /\ \A d \in Callers : caller[d].calls <= MaxCalls[d]
  BY DEF IInv, TypeCorrect
<1>11. caller'[c] = r1 /\ \A d \in Callers \ {c} : caller'[d] = caller[d]
  BY <1>2, <1>10
<1>12. TypeCorrect'
  <2>1. caller' \in [Callers -> Caller]
    BY <1>2, <1>7, <1>10
  <2>2. \A d \in Callers : caller'[d].calls <= MaxCalls[d]
    BY <1>1, <1>8, <1>10, <1>11
  <2>3. DOMAIN b1 \subseteq 1..(nextId' - 1)
    BY <1>2, <1>5
  <2>4. jobs' \in Table /\ nextId' \in Nat \ {0} /\ DOMAIN jobs' \subseteq 1..(nextId' - 1)
    BY <1>1, <1>2, <1>3, <1>4, <2>3
  <2> QED
    BY <2>1, <2>2, <2>4 DEF TypeCorrect
<1>13. \A d \in Callers : Sound(jobs', nextId', caller'[d])
  BY <1>2, <1>3, <1>6, <1>7, <1>11
<1>14. ASSUME NEW d \in Callers, NEW e \in Callers, d # e PROVE Apart(caller'[d], caller'[e])
  <2>1. CASE d # c /\ e # c
    BY <1>11, <1>14, <2>1 DEF IInv
  <2>2. CASE d = c \/ e = c
    BY <1>9, <1>11, <1>14, <2>2
  <2> QED
    BY <2>1, <2>2
<1>15. OneHolder(jobs')
  BY <1>3, <1>5
<1> QED
  BY <1>12, <1>13, <1>14, <1>15 DEF IInv

\* A worker's statement on a row that nobody has locked.
LEMMA WorkerStep ==
    ASSUME IInv, NEW j \in DOMAIN jobs, ~ Locked(j), NEW x \in Row,
           jobs' = [jobs EXCEPT ![j] = x], UNCHANGED <<nextId, caller>>,
           Active(x) => Active(jobs[j]) /\ x.job_key = jobs[j].job_key
    PROVE  IInv'
<1>1. TypeCorrect /\ jobs \in Table /\ nextId \in Nat /\ OneHolder(jobs)
  BY DEF IInv, TypeCorrect
<1>2. /\ jobs = [i \in DOMAIN jobs |-> jobs[i]]
      /\ \A i \in DOMAIN jobs : jobs[i] \in Row /\ i \in Nat
  BY <1>1, TableIs
<1>3. DOMAIN jobs' = DOMAIN jobs /\ jobs'[j] = x /\ \A i \in DOMAIN jobs \ {j} : jobs'[i] = jobs[i]
  OBVIOUS
<1>4. jobs' \in Table
  <2>1. DOMAIN jobs \in SUBSET Nat
    BY <1>2
  <2>2. jobs' \in [DOMAIN jobs -> Row]
    BY <1>2
  <2> QED
    BY <2>1, <2>2 DEF Table
<1>5. TypeCorrect'
  BY <1>1, <1>3, <1>4 DEF TypeCorrect
<1>6. OneHolder(jobs')
  <2>1. ASSUME NEW i \in DOMAIN jobs', Active(jobs'[i])
        PROVE  i \in DOMAIN jobs /\ Active(jobs[i]) /\ jobs[i].job_key = jobs'[i].job_key
    BY <1>3, <2>1
  <2> QED
    BY <1>1, <1>4, <2>1, FewerHolders
<1>7. ASSUME NEW d \in Callers PROVE Sound(jobs', nextId', caller'[d])
  <2> DEFINE s == caller[d]
             b1 == jobs'
  <2>1. s \in Caller /\ Sound(jobs, nextId, s) /\ j \notin DOMAIN s.wrote
    BY IInvIs DEF Locked
  <2>2. /\ DOMAIN b1 = DOMAIN jobs /\ \A i \in DOMAIN jobs \ {j} : b1[i] = jobs[i]
        /\ (Active(b1[j]) => Active(jobs[j]) /\ b1[j].job_key = jobs[j].job_key)
        /\ b1 \in Table
    BY <1>3, <1>4
  <2> HIDE DEF s, b1
  <2>3. Sound(b1, nextId, s)
    BY <1>1, <2>1, <2>2, WorkerSound
  <2> QED
    BY <2>3 DEF s, b1
<1>8. \A d, e \in Callers : d # e => Apart(caller'[d], caller'[e])
  BY DEF IInv
<1> QED
  BY <1>5, <1>6, <1>7, <1>8 DEF IInv

LEMMA RowOf ==
    ASSUME IInv, NEW j \in DOMAIN jobs
    PROVE  jobs[j] \in Row
  BY TableIs DEF IInv, TypeCorrect

LEMMA TakeJobStep ==
    ASSUME IInv, NEW j \in DOMAIN jobs, TakeJob(j)
    PROVE  IInv'
<1> DEFINE x == [jobs[j] EXCEPT !.status = "running"]
<1>1. jobs[j] \in Row
  BY RowOf
<1>2. x \in Row /\ x.job_key = jobs[j].job_key
  BY <1>1 DEF Row, Statuses
<1>3. jobs' = [jobs EXCEPT ![j] = x] /\ ~ Locked(j) /\ UNCHANGED <<nextId, caller>>
  BY DEF TakeJob
<1>4. Active(jobs[j])
  BY DEF TakeJob, Active
<1> QED
  BY <1>2, <1>3, <1>4, WorkerStep

LEMMA FinishJobStep ==
    ASSUME IInv, NEW j \in DOMAIN jobs, FinishJob(j)
    PROVE  IInv'
<1> DEFINE x == Finished(jobs[j], "succeeded", 0)
<1>1. jobs[j] \in Row
  BY RowOf
<1>2. x \in Row /\ ~ Active(x)
  BY <1>1, TableAssumption DEF Row, Statuses, Finished, Active
<1>3. jobs' = [jobs EXCEPT ![j] = x] /\ ~ Locked(j) /\ UNCHANGED <<nextId, caller>>
  BY DEF FinishJob
<1> QED
  BY <1>2, <1>3, WorkerStep

LEMMA InitIInv ==
    ASSUME Init
    PROVE  IInv
<1> DEFINE N == Cardinality(DOMAIN jobs)
<1>1. /\ IsFiniteSet(DOMAIN jobs) /\ jobs \in [1..N -> Row]
      /\ \A k \in Keys : Cardinality(KeyHolders(jobs, k)) <= 1
  BY BatchAssumption DEF Init
<1>2. N \in Nat
  BY <1>1, FS_CardinalityType
<1>3. DOMAIN jobs = 1..N /\ nextId = N + 1 /\ caller = [c \in Callers |-> Idle(0)]
  BY <1>1 DEF Init
<1> HIDE DEF N
<1>4. jobs \in Table
  <2>1. 1..N \in SUBSET Nat
    OBVIOUS
  <2> QED
    BY <1>1, <2>1 DEF Table
<1>5. OneHolder(jobs)
  <2>1. SUFFICES ASSUME NEW k \in Keys, NEW i \in KeyHolders(jobs, k), NEW j \in KeyHolders(jobs, k), i # j
                 PROVE  FALSE
    BY DEF OneHolder
  <2>2. KeyHolders(jobs, k) \subseteq DOMAIN jobs
    BY DEF KeyHolders
  <2>3. IsFiniteSet(KeyHolders(jobs, k))
    BY <1>1, <2>2, FS_Subset
  <2>4. {i, j} \subseteq KeyHolders(jobs, k)
    OBVIOUS
  <2>5. Cardinality({i, j}) <= Cardinality(KeyHolders(jobs, k))
    BY <2>3, <2>4, FS_Subset
  <2>6. Cardinality({i, j}) = 2
    <3>1. IsFiniteSet({i}) /\ Cardinality({i}) = 1
      BY FS_Singleton
    <3>2. {i} \cup {j} = {i, j} /\ j \notin {i}
      BY <2>1
    <3>3. Cardinality({i} \cup {j}) = Cardinality({i}) + 1
      BY <3>1, <3>2, FS_AddElement
    <3> QED
      BY <3>1, <3>2, <3>3
  <2> QED
    BY <1>1, <2>3, <2>5, <2>6, FS_CardinalityType
<1>6. nextId \in Nat \ {0} /\ nextId \in Nat /\ DOMAIN jobs \subseteq 1..(nextId - 1)
  BY <1>2, <1>3
<1>7. /\ Idle(0) \in Caller /\ Ids(Idle(0)) = {} /\ Sound(jobs, nextId, Idle(0))
      /\ Apart(Idle(0), Idle(0)) /\ Idle(0).calls = 0
  <2>1. /\ Idle(0) \in Caller /\ Ids(Idle(0)) = {} /\ Sound(jobs, nextId, Idle(0))
    BY <1>4, <1>5, <1>6, IdleSound
  <2>2. Idle(0).calls = 0 /\ DOMAIN Idle(0).wrote = {}
    BY NoRowsIs DEF Idle
  <2> QED
    BY <2>1, <2>2, ApartIdle
<1>8. \A c \in Callers : caller[c] = Idle(0) /\ MaxCalls[c] \in Nat
  BY <1>3, Constants
<1>9. TypeCorrect
  BY <1>3, <1>4, <1>6, <1>7, <1>8 DEF TypeCorrect
<1> QED
  BY <1>5, <1>7, <1>8, <1>9 DEF IInv


LEMMA NextIInv ==
    ASSUME IInv, [Next]_vars
    PROVE  IInv'
<1>1. CASE UNCHANGED vars
  <2>1. jobs' = jobs /\ nextId' = nextId /\ caller' = caller
    BY <1>1 DEF vars
  <2>2. TypeCorrect'
    BY <2>1 DEF IInv, TypeCorrect
  <2>3. OneHolder(jobs') /\ \A c \in Callers : Sound(jobs', nextId', caller'[c])
    BY <2>1 DEF IInv
  <2>4. \A c, d \in Callers : c # d => Apart(caller'[c], caller'[d])
    BY <2>1 DEF IInv
  <2> QED
    BY <2>2, <2>3, <2>4 DEF IInv
<1>2. ASSUME NEW c \in Callers, NEW batch \in Batches, Begin(c, batch) \/ Refuse(c, batch) PROVE IInv'
  BY <1>2, BeginStep, RefuseStep
<1>3. ASSUME NEW c \in Callers, Upsert(c) \/ Return(c) PROVE IInv'
  BY <1>3, UpsertStep, ReturnStep
<1>4. ASSUME NEW c \in Callers, Commit(c) \/ Fail(c) PROVE IInv'
  BY <1>4, CommitStep, FailStep
<1>5. ASSUME NEW c \in Callers, Rollback(c) PROVE IInv'
  <2>1. UNCHANGED <<jobs, nextId>> /\ caller' = [caller EXCEPT ![c] = Idle(caller[c].calls)]
    BY <1>5 DEF Rollback
  <2> QED
    BY <2>1, RollbackStep
<1>6. ASSUME NEW j \in DOMAIN jobs, TakeJob(j) \/ FinishJob(j) PROVE IInv'
  BY <1>6, TakeJobStep, FinishJobStep
<1> QED
  BY <1>1, <1>2, <1>3, <1>4, <1>5, <1>6 DEF Next

LEMMA IInvTypes ==
    ASSUME IInv
    PROVE  TypeOK
<1>1. /\ jobs \in Table /\ DOMAIN jobs \subseteq 1..(nextId - 1) /\ nextId \in Nat \ {0}
  BY DEF IInv, TypeCorrect
<1>2. \A i \in DOMAIN jobs : jobs[i] \in Row
  BY <1>1, TableIs
<1>3. ASSUME NEW c \in Callers
      PROVE  /\ caller[c].pc \in {"idle", "inserting", "open"}
             /\ caller[c].left \subseteq DOMAIN caller[c].requests
             /\ DOMAIN caller[c].saved \subseteq DOMAIN caller[c].wrote
             /\ DOMAIN caller[c].wrote \subseteq 1..(nextId - 1)
             /\ caller[c].calls \in 0..MaxCalls[c]
  <2> DEFINE r == caller[c]
  <2>1. r \in Caller /\ Sound(jobs, nextId, r) /\ r.calls <= MaxCalls[c] /\ MaxCalls[c] \in Nat
    BY IInvIs, Constants
  <2>2. r.pc \in {"idle", "inserting", "open"} /\ r.calls \in Nat
    BY <2>1, CallerIs
  <2> HIDE DEF r
  <2>3. r.left \subseteq DOMAIN r.requests
    BY <2>1 DEF Sound, Inserts
  <2>4. DOMAIN r.saved \subseteq DOMAIN r.wrote
    BY <2>1 DEF Sound, Writes
  <2>5. DOMAIN r.wrote \subseteq 1..(nextId - 1)
    <3>1. Ids(r) \subseteq 1..(nextId - 1) /\ \A i \in DOMAIN r.wrote : i \in DOMAIN jobs \/ i \in Ids(r)
      BY <2>1 DEF Sound, Writes
    <3> QED
      BY <1>1, <3>1
  <2>6. r.calls \in 0..MaxCalls[c]
    BY <2>1, <2>2
  <2> QED
    BY <2>2, <2>3, <2>4, <2>5, <2>6 DEF r
<1> QED
  BY <1>1, <1>2, <1>3 DEF TypeOK

\* The inductive invariant: what every transaction of enqueue_many and enqueue_many_in has
\* written is what its answered calls and the rows done of the current one come to on the
\* committed rows it has locked, whatever other transactions and workers did meanwhile.
THEOREM InductiveInvariant == Spec => []IInv
<1>1. Init => IInv
  BY InitIInv
<1>2. IInv /\ [Next]_vars => IInv'
  BY NextIInv
<1> QED
  BY <1>1, <1>2, PTL DEF Spec

\* The types of the jobs table and of each caller of insert_job_batch: a savepoint keeps
\* rows the transaction wrote, and every row it wrote has an id that was handed out.
THEOREM TypesCorrect == Spec => []TypeOK
<1>1. IInv => TypeOK
  BY IInvTypes
<1> QED
  BY <1>1, InductiveInvariant, PTL
-----------------------------------------------------------------------------
(* BatchEnqueue implements EnqueueMany *)

Pending == [c \in Callers |-> caller[c].answered]

LEMMA AtomicInit ==
    ASSUME Init
    PROVE  Atomic!Init
<1>1. jobs \in [1..Cardinality(DOMAIN jobs) -> Row]
  BY BatchAssumption DEF Init
<1>2. jobs \in [DOMAIN jobs -> Row]
  BY <1>1
<1>3. Pending = [c \in Callers |-> <<>>]
  BY DEF Init, Idle, Pending
<1>4. Atomic!Row = Row
  BY DEF Atomic!Row, Row, Atomic!Statuses, Statuses
<1> QED
  BY <1>2, <1>3, <1>4 DEF Atomic!Init, Pending

LEMMA FrontOfAppend ==
    ASSUME NEW S, NEW s \in Seq(S), NEW x \in S
    PROVE  Append(s, x) # <<>> /\ Front(Append(s, x)) = s /\ Last(Append(s, x)) = x
<1>1. /\ Append(s, x) \in Seq(S) /\ Len(Append(s, x)) = Len(s) + 1 /\ Append(s, x)[Len(s) + 1] = x
      /\ \A i \in 1..Len(s) : Append(s, x)[i] = s[i]
  BY AppendProperties
<1>2. Len(s) \in Nat /\ s = [i \in 1..Len(s) |-> s[i]]
  BY LenProperties, SeqDef
<1>3. Front(Append(s, x)) = s
  <2>1. Front(Append(s, x)) = SubSeq(Append(s, x), 1, Len(s))
    BY <1>1, <1>2 DEF Front
  <2>2. SubSeq(Append(s, x), 1, Len(s)) = s
    OBVIOUS
  <2> QED
    BY <2>1, <2>2
<1>4. Last(Append(s, x)) = x
  BY <1>1 DEF Last
<1>5. Append(s, x) # <<>>
  BY AppendProperties
<1> QED
  BY <1>3, <1>4, <1>5


LEMMA PendingOf ==
    ASSUME IInv, NEW c \in Callers, NEW r1, caller' = [caller EXCEPT ![c] = r1]
    PROVE  Pending' = [Pending EXCEPT ![c] = r1.answered]
<1>1. caller \in [Callers -> Caller]
  BY DEF IInv, TypeCorrect
<1>2. \A d \in Callers : caller'[d] = IF d = c THEN r1 ELSE caller[d]
  BY <1>1
<1>3. Pending' = [d \in Callers |-> IF d = c THEN r1.answered ELSE caller[d].answered]
  BY <1>2 DEF Pending
<1> QED
  BY <1>3 DEF Pending

\* A step that answers nothing and commits nothing.
LEMMA AtomicStutter ==
    ASSUME IInv, NEW c \in Callers, NEW r1, caller' = [caller EXCEPT ![c] = r1],
           r1.answered = caller[c].answered, jobs' = jobs
    PROVE  UNCHANGED Atomic!vars
<1>1. Pending' = [Pending EXCEPT ![c] = r1.answered]
  BY PendingOf
<1>2. Pending' = Pending
  BY <1>1 DEF Pending
<1> QED
  BY <1>2 DEF Atomic!vars, Pending

LEMMA AtomicAnswer ==
    ASSUME IInv, NEW c \in Callers, Return(c)
    PROVE  Atomic!Answer(c)
<1> DEFINE r == caller[c]
           call == [requests |-> r.requests, ids |-> Ordered(r)]
           r1 == [r EXCEPT !.pc = "open", !.saved = NoRows, !.requests = <<>>, !.ids_by_job_key = NoRows,
                           !.answered = Append(r.answered, call)]
<1>1. r \in Caller /\ Sound(jobs, nextId, r) /\ r.answered \in Seq(Call)
  BY IInvIs, CallerIs
<1>2. r.pc = "inserting" /\ r.left = {} /\ jobs' = jobs
  BY DEF Return
<1>3. caller' = [caller EXCEPT ![c] = r1]
  BY DEF Return, OrderedIds, Ordered
<1>4. call \in Call /\ call.requests = r.requests
  BY <1>1, <1>2, AnswerIs
<1>5. Atomic!DistinctKeys(call.requests)
  BY <1>1, <1>2, <1>4 DEF Sound, Inserts
<1> HIDE DEF call
<1>6. r1.answered = Append(r.answered, call)
  BY <1>1 DEF Caller
<1> HIDE DEF r1
<1>7. Pending' = [Pending EXCEPT ![c] = Append(r.answered, call)]
  BY <1>3, <1>6, PendingOf
<1>8. Pending[c] = r.answered
  BY DEF Pending
<1> HIDE DEF r
<1>9. Pending'[c] = Append(r.answered, call)
  BY <1>7 DEF Pending
<1>10. Pending'[c] # <<>> /\ Front(Pending'[c]) = Pending[c] /\ Last(Pending'[c]) = call
  BY <1>1, <1>4, <1>8, <1>9, FrontOfAppend
<1>11. Pending' = [Pending EXCEPT ![c] = Pending'[c]]
  BY <1>7, <1>9
<1>12. /\ Atomic!Front(Pending'[c]) = Pending[c]
       /\ Atomic!Last(Pending'[c]) = call
  BY <1>10 DEF Atomic!Front, Front, Atomic!Last, Last
<1> HIDE DEF Pending
<1>13. Atomic!DistinctKeys(Atomic!Last(Pending'[c]).requests)
  BY <1>5, <1>12
<1>14. /\ Pending'[c] # <<>> /\ Atomic!Front(Pending'[c]) = Pending[c]
       /\ Atomic!DistinctKeys(Atomic!Last(Pending'[c]).requests)
       /\ Pending' = [Pending EXCEPT ![c] = Pending'[c]] /\ jobs' = jobs
  BY <1>2, <1>10, <1>11, <1>12, <1>13
<1> QED
  BY <1>14 DEF Atomic!Answer, Pending

LEMMA AtomicCommit ==
    ASSUME IInv, NEW c \in Callers, Commit(c)
    PROVE  Atomic!Commit(c)
<1> DEFINE r == caller[c]
           b1 == Join(r.wrote, jobs)
<1>1. r \in Caller /\ Sound(jobs, nextId, r) /\ jobs \in Table /\ r.pc # "inserting"
  BY IInvIs DEF Commit
<1>2. jobs' = b1
  <2>1. DOMAIN r.wrote \cup DOMAIN jobs = DOMAIN jobs \cup DOMAIN r.wrote
    OBVIOUS
  <2> QED
    BY <2>1 DEF Commit, View, Join
<1>3. b1 = Atomic!AfterCalls(jobs, r.answered) /\ Atomic!RightIds(b1, r.answered)
  <2> HIDE DEF r
  <2> QED
    BY <1>1, CommitIs
<1>4. caller' = [caller EXCEPT ![c] = Idle(r.calls)]
  BY DEF Commit
<1>5. Idle(r.calls).answered = <<>>
  BY DEF Idle
<1>6. Pending' = [Pending EXCEPT ![c] = <<>>]
  BY <1>4, <1>5, PendingOf
<1>7. Pending[c] = r.answered
  BY DEF Pending
<1> HIDE DEF r, b1
<1> QED
  BY <1>2, <1>3, <1>6, <1>7 DEF Atomic!Commit, Pending

LEMMA AtomicRollback ==
    ASSUME IInv, NEW c \in Callers, caller' = [caller EXCEPT ![c] = Idle(caller[c].calls)], jobs' = jobs
    PROVE  Atomic!Rollback(c)
<1>1. Idle(caller[c].calls).answered = <<>>
  BY DEF Idle
<1>2. Pending' = [Pending EXCEPT ![c] = <<>>]
  BY <1>1, PendingOf
<1> QED
  BY <1>2 DEF Atomic!Rollback, Pending

LEMMA AtomicWorker ==
    ASSUME NEW j \in DOMAIN jobs, TakeJob(j) \/ FinishJob(j)
    PROVE  Atomic!TakeJob(j) \/ Atomic!FinishJob(j)
<1>1. Pending' = Pending
  BY DEF TakeJob, FinishJob, Pending
<1>2. CASE TakeJob(j)
  BY <1>1, <1>2 DEF TakeJob, Atomic!TakeJob, Pending
<1>3. CASE FinishJob(j)
  BY <1>1, <1>3 DEF FinishJob, Atomic!FinishJob, Finished, Atomic!Finished, Pending
<1> QED
  BY <1>2, <1>3

LEMMA AtomicStep ==
    ASSUME IInv, [Next]_vars
    PROVE  [Atomic!Next]_Atomic!vars
<1>1. CASE UNCHANGED vars
  BY <1>1 DEF vars, Atomic!vars
<1>2. ASSUME NEW c \in Callers, NEW batch \in Batches, Begin(c, batch) PROVE UNCHANGED Atomic!vars
  <2>1. PICK r1 : caller' = [caller EXCEPT ![c] = r1] /\ r1.answered = caller[c].answered /\ jobs' = jobs
    <3>1. caller[c] \in Caller
      BY IInvIs
    <3>2. PICK x, y, z, k : caller' = [caller EXCEPT ![c] =
              [caller[c] EXCEPT !.pc = "inserting", !.requests = x, !.left = y, !.saved = z,
                                !.ids_by_job_key = NoRows, !.calls = k]]
      BY <1>2 DEF Begin
    <3>3. jobs' = jobs
      BY <1>2 DEF Begin
    <3> QED
      BY <3>1, <3>2, <3>3 DEF Caller
  <2> QED
    BY <2>1, AtomicStutter
<1>3. ASSUME NEW c \in Callers, NEW batch \in Batches, Refuse(c, batch) PROVE UNCHANGED Atomic!vars
  <2> DEFINE r1 == [caller[c] EXCEPT !.calls = caller[c].calls + 1]
  <2>1. caller' = [caller EXCEPT ![c] = r1] /\ jobs' = jobs
    BY <1>3 DEF Refuse
  <2>2. r1.answered = caller[c].answered
    BY IInvIs DEF Caller
  <2> HIDE DEF r1
  <2> QED
    BY <2>1, <2>2, AtomicStutter
<1>4. ASSUME NEW c \in Callers, Upsert(c) PROVE UNCHANGED Atomic!vars
  <2>1. PICK n : caller' = [caller EXCEPT ![c] = UpsertRow(c, n)]
    BY <1>4 DEF Upsert
  <2>2. UpsertRow(c, n).answered = caller[c].answered
    BY IInvIs DEF Caller, UpsertRow
  <2>3. jobs' = jobs
    BY <1>4 DEF Upsert
  <2> QED
    BY <2>1, <2>2, <2>3, AtomicStutter
<1>5. ASSUME NEW c \in Callers, Return(c) PROVE Atomic!Answer(c)
  BY <1>5, AtomicAnswer
<1>6. ASSUME NEW c \in Callers, Commit(c) PROVE Atomic!Commit(c)
  BY <1>6, AtomicCommit
<1>7. ASSUME NEW c \in Callers, Rollback(c) PROVE Atomic!Rollback(c)
  <2>1. caller' = [caller EXCEPT ![c] = Idle(caller[c].calls)] /\ jobs' = jobs
    BY <1>7 DEF Rollback
  <2> QED
    BY <2>1, AtomicRollback
<1>8. ASSUME NEW c \in Callers, Fail(c) PROVE Atomic!Rollback(c) \/ UNCHANGED Atomic!vars
  <2>1. jobs' = jobs /\ caller' = [caller EXCEPT ![c] = Failed(c)]
    BY <1>8 DEF Fail
  <2>2. CASE c \in Own
    BY <2>1, <2>2, AtomicRollback DEF Failed
  <2>3. CASE c \notin Own
    <3>1. Failed(c).answered = caller[c].answered
      BY <2>3, IInvIs DEF Failed, Caller
    <3> QED
      BY <2>1, <3>1, AtomicStutter
  <2> QED
    BY <2>2, <2>3
<1>9. ASSUME NEW j \in DOMAIN jobs, TakeJob(j) \/ FinishJob(j)
      PROVE  Atomic!TakeJob(j) \/ Atomic!FinishJob(j)
  BY <1>9, AtomicWorker
<1> QED
  BY <1>1, <1>2, <1>3, <1>4, <1>5, <1>6, <1>7, <1>8, <1>9 DEF Next, Atomic!Next

\* enqueue_many and enqueue_many_in implement the atomic batch: a batch inserted row by
\* row, one statement per job key mode, beside other transactions and workers, with errors
\* that roll back to a savepoint, commits as if its calls' requests had been enqueued one
\* after the other at that moment, in request order, and answers the ids of their jobs.
THEOREM BatchesAtomic == Spec => AtomicBatches
<1>1. Init => Atomic!Init
  BY AtomicInit
<1>2. IInv /\ [Next]_vars => [Atomic!Next]_Atomic!vars
  BY AtomicStep
<1> QED
  BY <1>1, <1>2, InductiveInvariant, PTL DEF Spec, AtomicBatches, Atomic!Spec
=============================================================================
