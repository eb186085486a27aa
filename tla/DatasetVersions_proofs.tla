------------------------ MODULE DatasetVersions_proofs ------------------------
(***************************************************************************)
(* Dataset versions, for any number of concurrent transactions, any lists  *)
(* of examples and any labels: a locked version never changes, and what a  *)
(* digest is computed from is densely numbered.                            *)
(***************************************************************************)
EXTENDS DatasetVersions, FiniteSetTheorems, SequenceTheorems, TLAPS

\* The rows of S carry the ordinals 0 .. n-1, each once, and no id twice.
Numbered(S, n) ==
  /\ S \in SUBSET Row /\ n \in Nat
  /\ \A x \in S : x.ordinal < n
  /\ \A i \in 0 .. n - 1 : \E x \in S : x.ordinal = i
  /\ \A x, y \in S : x.ordinal = y.ordinal \/ x.id = y.id => x = y

Size(l) == Cardinality(rows[l])
Placed(batch, next) ==
  {[ordinal |-> next + i - 1, id |-> batch[i]] : i \in DOMAIN batch}
Injective(batch) == \A i, j \in DOMAIN batch : batch[i] = batch[j] => i = j

Ops == {"append", "lock", "relock", "create", "clone", "promote"}
Pcs == Running \cup {"new", "done", "failed", "altered"}
VersionRange == [status : {"none", "draft", "locked"}, hash : SUBSET Row, count : Nat]
RequestRange == [pc : Pcs, op : Ops, v : Labels, batch : Seq(Ids), held : Nat, next : Nat,
                 rows : SUBSET Row, digest : SUBSET Row]

RangesOK ==
  /\ version \in [Labels -> VersionRange]
  /\ rows \in [Labels -> SUBSET Row]
  /\ owner \in [Labels -> Requests \cup {Nobody}]
  /\ req \in [Requests -> RequestRange]

\* What is committed: dense rows, and a count and a hash that are no more than they are.
VersionOK(l) ==
  /\ Numbered(rows[l], Size(l))
  /\ version[l].count <= Size(l)
  /\ ~Exists(l) => rows[l] = {}
  /\ Exists(l) /\ ~Locked(l) /\ <<>> \notin Batches => version[l].count = Size(l)
  /\ Locked(l) =>
       /\ version[l].hash \subseteq rows[l] /\ version[l].hash # {}
       /\ Numbered(version[l].hash, Cardinality(version[l].hash))
       /\ <<>> \notin Batches =>
            version[l].count \in {Cardinality(version[l].hash), Size(l)}

\* Who may have written a version's row: the request that is about to commit it, or that
\* has inserted it and is filling it.
OwnerOK(r) ==
  /\ \A l \in Labels : owner[l] = r =>
       /\ req[r].v = l /\ req[r].pc \in {"copy", "max", "seen", "insert", "count", "commit"}
       /\ Exists(l) => req[r].pc = "commit"
  /\ req[r].pc \in {"copy", "max", "seen", "insert", "count"} =>
       Exists(req[r].v) \/ owner[req[r].v] = r

\* What a request has read: no more than is there now.
ReadsOK(r) ==
  LET q == req[r] IN
  /\ q.held <= Size(q.v)
  /\ q.pc \in {"label", "insertVersion"} => q.held = 0
  /\ q.pc \in {"label", "insertVersion", "copy", "max", "seen", "insert", "count"} =>
       q.op \notin {"lock", "relock"}
  /\ q.pc \in {"insertVersion", "copy"} /\ q.op = "clone" => q.next \in Labels
  /\ q.pc = "copy" => q.op = "clone"
  /\ q.pc = "label" => q.op = "promote"
  /\ q.pc \in {"max", "seen"} => q.op \in {"append", "promote"}
  /\ q.op = "create" => q.next = 0
  /\ q.pc \in {"seen", "insert", "count", "commit"} => q.next <= Size(q.v)
  /\ q.pc \in {"insert", "count"} => Injective(q.batch)
  /\ (q.op \in {"append", "promote"} /\ q.pc \notin {"new", "failed", "done"})
       \/ q.pc \in {"insert", "count"} =>
       q.batch # <<>> \/ <<>> \in Batches
  /\ q.pc \in {"load", "lock"} => Exists(q.v) /\ q.op \in {"lock", "relock"}

\* What an append has inserted and not committed.
AppendOK(r) ==
  LET q == req[r] IN
  /\ q.rows # {} =>
       /\ q.pc \in {"count", "commit"} /\ q.op \notin {"lock", "relock"}
       /\ q.rows = NewRows(r) /\ Injective(q.batch) /\ ~Clash(q.rows, rows[q.v])
  /\ q.pc = "count" => q.rows = NewRows(r)
  /\ q.pc = "commit" /\ q.rows # {} => owner[q.v] = r /\ ~Locked(q.v)
  /\ q.pc = "commit" /\ q.op # "lock" /\ owner[q.v] = r /\ Exists(q.v) =>
       /\ q.rows = NewRows(r) /\ (q.batch # <<>> \/ <<>> \in Batches)
       /\ Locked(q.v) => NewCount(r) = version[q.v].count

\* What a lock has computed its digest from, and what it leaves.
LockOK(r) ==
  LET q == req[r] IN
  /\ q.pc = "lock" => q.op = "lock"
  /\ q.op = "lock" /\ q.pc \in {"lock", "commit"} =>
       /\ q.digest \subseteq rows[q.v] /\ q.digest # {}
       /\ Numbered(q.digest, Cardinality(q.digest))
  /\ q.op = "lock" /\ q.pc = "commit" =>
       /\ Exists(q.v) /\ owner[q.v] = r
       /\ Locked(q.v) => version[q.v].hash = q.digest /\ version[q.v].count = q.next
       /\ <<>> \notin Batches => q.next \in {Cardinality(q.digest), Size(q.v)}

\* The unique indexes keep what two appends have inserted apart.
Apart ==
  \A r, s \in Requests :
    r # s /\ req[r].v = req[s].v => ~Clash(req[r].rows, req[s].rows)

IInv ==
  /\ RangesOK /\ Apart
  /\ \A l \in Labels : VersionOK(l)
  /\ \A r \in Requests : OwnerOK(r) /\ ReadsOK(r) /\ AppendOK(r) /\ LockOK(r)

-----------------------------------------------------------------------------
(* Numbered sets of rows.                                                    *)
\* They are finite and as large as they say, in rows, in ordinals and in ids.
LEMMA NumberedSize ==
  ASSUME NEW S, NEW n, Numbered(S, n)
  PROVE  /\ IsFiniteSet(S) /\ Cardinality(S) = n
         /\ {x.ordinal : x \in S} = 0 .. n - 1
         /\ Cardinality({x.id : x \in S}) = n
<1> DEFINE f == [x \in S |-> x.ordinal]
           g == [x \in S |-> x.id]
           Named == {x.id : x \in S}
<1>1. n \in Nat /\ \A x \in S : x.ordinal \in 0 .. n - 1
  BY DEF Numbered, Row
<1>2. f \in Injection(S, 0 .. n - 1) /\ f \in Surjection(S, 0 .. n - 1)
  <2>1. f \in [S -> 0 .. n - 1]
    BY <1>1
  <2>2. \A x, y \in S : f[x] = f[y] => x = y
    BY DEF Numbered
  <2>3. \A i \in 0 .. n - 1 : \E x \in S : f[x] = i
    BY DEF Numbered
  <2> QED BY <2>1, <2>2, <2>3 DEF Injection, Surjection, IsInjective
<1>3. IsFiniteSet(0 .. n - 1) /\ Cardinality(0 .. n - 1) = n
  BY <1>1, FS_Interval
<1>4. IsFiniteSet(S) /\ Cardinality(S) = n
  BY <1>2, <1>3, FS_Injection
<1>5. g \in Injection(S, Named) /\ g \in Surjection(S, Named)
  <2>1. g \in [S -> Named]
    OBVIOUS
  <2>2. \A x, y \in S : g[x] = g[y] => x = y
    BY DEF Numbered
  <2>3. \A i \in Named : \E x \in S : g[x] = i
    OBVIOUS
  <2> QED BY <2>1, <2>2, <2>3 DEF Injection, Surjection, IsInjective
<1>6. Cardinality(Named) = n
  <2> HIDE DEF g, Named
  <2> QED BY <1>4, <1>5, FS_Surjection
<1>7. {x.ordinal : x \in S} = 0 .. n - 1
  BY <1>1 DEF Numbered
<1> QED BY <1>4, <1>6, <1>7

\* A numbered set inside another is its first rows.
LEMMA NumberedPrefix ==
  ASSUME NEW S, NEW n, Numbered(S, n), NEW T, NEW k, Numbered(T, k), T \subseteq S
  PROVE  k <= n /\ T = {x \in S : x.ordinal < k}
<1>1. k \in Nat /\ n \in Nat
  BY DEF Numbered
<1>2. ASSUME NEW x \in S, x.ordinal < k PROVE x \in T
  <2>1. x.ordinal \in 0 .. k - 1
    BY <1>1, <1>2 DEF Numbered, Row
  <2>2. PICK y \in T : y.ordinal = x.ordinal
    BY <2>1 DEF Numbered
  <2> QED BY <2>2 DEF Numbered
<1>3. ASSUME k > n PROVE FALSE
  <2>1. PICK y \in T : y.ordinal = n
    BY <1>1, <1>3 DEF Numbered
  <2> QED BY <1>1, <2>1 DEF Numbered
<1> QED BY <1>1, <1>2, <1>3 DEF Numbered

\* What an append adds continues the numbering: it has read no more rows than there are, and
\* clashes with none of them.
LEMMA Continued ==
  ASSUME NEW S, NEW n, Numbered(S, n), NEW batch \in Seq(Ids), Injective(batch),
         NEW next \in Nat, next <= n,
         Placed(batch, next) # {}, ~Clash(Placed(batch, next), S)
  PROVE  next = n /\ Len(batch) > 0 /\ Numbered(S \cup Placed(batch, next), n + Len(batch))
<1> DEFINE T == Placed(batch, next)
           placed(i) == [ordinal |-> next + i - 1, id |-> batch[i]]
<1>1. n \in Nat /\ Len(batch) \in Nat /\ DOMAIN batch = 1 .. Len(batch)
  BY DEF Numbered
<1>2. /\ \A i \in 1 .. Len(batch) : /\ placed(i) \in T /\ placed(i) \in Row
                                     /\ placed(i).ordinal = next + i - 1
                                     /\ placed(i).id = batch[i]
      /\ \A x \in T : \E i \in 1 .. Len(batch) : x = placed(i)
  <2>1. \A i \in 1 .. Len(batch) :
          batch[i] \in Ids /\ next + i - 1 \in Nat /\ placed(i).ordinal = next + i - 1
          /\ placed(i).id = batch[i]
    BY <1>1
  <2>2. T = {placed(i) : i \in 1 .. Len(batch)}
    BY <1>1 DEF Placed
  <2>3. \A i \in 1 .. Len(batch) : placed(i) \in Row
    BY <2>1 DEF Row
  <2> HIDE DEF placed
  <2> QED BY <2>1, <2>2, <2>3
<1>10. T # {} /\ ~Clash(T, S)
  OBVIOUS
<1> HIDE DEF placed, T
<1>3. Len(batch) > 0
  BY <1>1, <1>2, <1>10
<1>4. next = n
  <2>1. ASSUME next < n PROVE FALSE
    <3>1. PICK x \in S : x.ordinal = next
      BY <1>1, <2>1 DEF Numbered
    <3>2. placed(1) \in T /\ placed(1).ordinal = next
      BY <1>1, <1>2, <1>3
    <3> QED BY <1>10, <3>1, <3>2 DEF Clash
  <2> QED BY <1>1, <2>1
<1>5. \A x, y \in T : x.ordinal = y.ordinal \/ x.id = y.id => x = y
  <2>1. \A i, j \in 1 .. Len(batch) :
          next + i - 1 = next + j - 1 \/ batch[i] = batch[j] => i = j
    BY <1>1 DEF Injective
  <2> SUFFICES ASSUME NEW x \in T, NEW y \in T, x.ordinal = y.ordinal \/ x.id = y.id
               PROVE  x = y
    OBVIOUS
  <2>2. PICK i \in 1 .. Len(batch), j \in 1 .. Len(batch) : x = placed(i) /\ y = placed(j)
    BY <1>2
  <2>3. next + i - 1 = next + j - 1 \/ batch[i] = batch[j]
    BY <1>2, <2>2
  <2> QED BY <2>1, <2>2, <2>3
<1>6. \A i \in 0 .. n + Len(batch) - 1 : \E x \in S \cup T : x.ordinal = i
  <2> SUFFICES ASSUME NEW i \in 0 .. n + Len(batch) - 1 PROVE \E x \in S \cup T : x.ordinal = i
    OBVIOUS
  <2>1. CASE i < n
    BY <1>1, <2>1 DEF Numbered
  <2>2. CASE i >= n
    <3>1. i - n + 1 \in 1 .. Len(batch) /\ n + (i - n + 1) - 1 = i
      BY <1>1, <2>2
    <3>2. placed(i - n + 1) \in T /\ placed(i - n + 1).ordinal = i
      BY <1>2, <1>4, <3>1
    <3> QED BY <3>2
  <2> QED BY <1>1, <2>1, <2>2
<1>7. \A x \in S \cup T : x \in Row /\ x.ordinal < n + Len(batch)
  <2>1. \A x \in S : x \in Row /\ x.ordinal < n /\ x.ordinal \in Nat
    BY DEF Numbered, Row
  <2> QED BY <1>1, <1>2, <1>3, <1>4, <2>1
<1>8. \A x, y \in S \cup T : x.ordinal = y.ordinal \/ x.id = y.id => x = y
  <2>1. \A x \in T, y \in S : ~(x.ordinal = y.ordinal \/ x.id = y.id)
    BY <1>10 DEF Clash
  <2> QED BY <1>5, <2>1 DEF Numbered
<1>9. Numbered(S \cup T, n + Len(batch))
  BY <1>1, <1>3, <1>6, <1>7, <1>8 DEF Numbered
<1> QED BY <1>3, <1>4, <1>9 DEF T

\* max(ordinal) + 1, or 0 when there is no row, is the number of rows.
LEMMA NextOrdinalCounts ==
  ASSUME NEW v \in Labels, NEW n, Numbered(rows[v], n)
  PROVE  NextOrdinal(v) = n
<1>1. n \in Nat /\ {x.ordinal : x \in rows[v]} = 0 .. n - 1
  BY NumberedSize DEF Numbered
<1>2. CASE rows[v] = {}
  <2>1. ~(n > 0)
    <3>1. ASSUME n > 0 PROVE FALSE
      <4>1. 0 \in 0 .. n - 1
        BY <1>1, <3>1
      <4> QED BY <1>2, <4>1 DEF Numbered
    <3> QED BY <3>1
  <2> QED BY <1>1, <1>2, <2>1 DEF NextOrdinal
<1>3. CASE rows[v] # {}
  <2>1. n > 0
    <3>1. PICK x \in rows[v] : TRUE
      BY <1>3
    <3> QED BY <1>1, <3>1 DEF Numbered, Row
  <2>2. Max(0 .. n - 1) = n - 1
    BY <1>1, <2>1 DEF Max
  <2>3. NextOrdinal(v) = Max({x.ordinal : x \in rows[v]}) + 1
    BY <1>3 DEF NextOrdinal
  <2>4. Max({x.ordinal : x \in rows[v]}) = Max(0 .. n - 1)
    BY <1>1
  <2> QED BY <1>1, <2>2, <2>3, <2>4
<1> QED BY <1>2, <1>3

\* The examples of a version, read back in order, are as many and have different ids.
LEMMA ReadInOrder ==
  ASSUME NEW S, NEW n, Numbered(S, n)
  PROVE  InOrder(S) \in Seq(Ids) /\ Len(InOrder(S)) = n /\ Injective(InOrder(S))
<1> DEFINE at(i) == CHOOSE x \in S : x.ordinal = i - 1
<1>1. n \in Nat /\ Cardinality(S) = n
  BY NumberedSize DEF Numbered
<1>2. \A i \in 1 .. n : at(i) \in S /\ at(i).ordinal = i - 1 /\ at(i).id \in Ids
  <2> SUFFICES ASSUME NEW i \in 1 .. n
               PROVE  at(i) \in S /\ at(i).ordinal = i - 1 /\ at(i).id \in Ids
    OBVIOUS
  <2>1. i - 1 \in 0 .. n - 1
    BY <1>1
  <2>2. \E x \in S : x.ordinal = i - 1
    BY <2>1 DEF Numbered
  <2>3. at(i) \in S /\ at(i).ordinal = i - 1
    BY <2>2
  <2> QED BY <2>3 DEF Numbered, Row
<1>3. InOrder(S) = [i \in 1 .. n |-> at(i).id]
  BY <1>1 DEF InOrder
<1> HIDE DEF at
<1>4. InOrder(S) \in Seq(Ids) /\ Len(InOrder(S)) = n
  BY <1>1, <1>2, <1>3
<1>5. \A i, j \in 1 .. n : at(i).id = at(j).id => i = j
  BY <1>1, <1>2 DEF Numbered
<1>6. DOMAIN InOrder(S) = 1 .. n /\ \A i \in 1 .. n : InOrder(S)[i] = at(i).id
  BY <1>3
<1>7. Injective(InOrder(S))
  BY <1>5, <1>6 DEF Injective
<1> QED BY <1>4, <1>7

\* A list with as many members as positions has no id twice.
LEMMA NoneTwice ==
  ASSUME NEW batch \in Seq(Ids), ~(Cardinality(ToSet(batch)) < Len(batch))
  PROVE  Injective(batch)
<1>1. Len(batch) \in Nat /\ DOMAIN batch = 1 .. Len(batch)
  OBVIOUS
<1>2. IsFiniteSet(1 .. Len(batch)) /\ Cardinality(1 .. Len(batch)) = Len(batch)
  BY <1>1, FS_Interval, SMTT(20)
<1>3. batch \in Surjection(DOMAIN batch, ToSet(batch))
  BY DEF Surjection, ToSet
<1>4. Cardinality(ToSet(batch)) \in Nat /\ Cardinality(ToSet(batch)) <= Len(batch)
      /\ (Cardinality(ToSet(batch)) = Len(batch) => batch \in Injection(DOMAIN batch, ToSet(batch)))
  BY <1>1, <1>2, <1>3, FS_Surjection, FS_CardinalityType
<1> QED BY <1>1, <1>4 DEF Injection, IsInjective, Injective

-----------------------------------------------------------------------------
(* Steps of one request that commit nothing.                                 *)
\* Only r moves, and only r's claims on version rows change.
Alone(r) ==
  /\ UNCHANGED <<version, rows>>
  /\ \A s \in Requests \ {r} : req'[s] = req[s]
  /\ \A l \in Labels : \A s \in Requests \ {r} : owner'[l] = s <=> owner[l] = s

\* It is enough to look at the request that moves.
LEMMA OneMoves ==
  ASSUME IInv, NEW r \in Requests, Alone(r), RangesOK',
         OwnerOK(r)', ReadsOK(r)', AppendOK(r)', LockOK(r)',
         \A s \in Requests \ {r} :
           req[s].v = req'[r].v => ~Clash(req'[r].rows, req[s].rows)
  PROVE  IInv'
<1>1. \A l \in Labels : VersionOK(l)'
  BY DEF IInv, Alone, VersionOK, Numbered, Size, Exists, Locked
<1>2. ASSUME NEW s \in Requests, s # r
      PROVE  OwnerOK(s)' /\ ReadsOK(s)' /\ AppendOK(s)' /\ LockOK(s)'
  <2>1. /\ req'[s] = req[s] /\ version' = version /\ rows' = rows
        /\ \A l \in Labels : owner'[l] = s <=> owner[l] = s
        /\ req[s].v \in Labels
    BY <1>2 DEF Alone, IInv, RangesOK, RequestRange
  <2>2. OwnerOK(s) /\ ReadsOK(s) /\ AppendOK(s) /\ LockOK(s)
    BY DEF IInv
  <2>3. OwnerOK(s)'
    BY <2>1, <2>2 DEF OwnerOK, Exists
  <2>4. ReadsOK(s)'
    BY <2>1, <2>2 DEF ReadsOK, Exists, Size
  <2>5. AppendOK(s)'
    BY <2>1, <2>2 DEF AppendOK, Exists, Locked, NewRows, NewCount
  <2>6. LockOK(s)'
    BY <2>1, <2>2 DEF LockOK, Exists, Locked, Size
  <2> QED BY <2>3, <2>4, <2>5, <2>6
<1>3. Apart'
  BY DEF IInv, Apart, Alone, Clash
<1> QED BY <1>1, <1>2, <1>3 DEF IInv

\* A request that holds no inserted rows and is not about to write an append or a lock.
LEMMA Quiet ==
  ASSUME IInv, NEW r \in Requests, Alone(r), RangesOK', OwnerOK(r)', ReadsOK(r)',
         req'[r].rows = {}, req'[r].pc \notin {"count", "commit", "lock"}
  PROVE  IInv'
<1>1. AppendOK(r)' /\ LockOK(r)'
  BY DEF AppendOK, LockOK
<1>2. \A s \in Requests : ~Clash(req'[r].rows, req[s].rows)
  BY DEF Clash
<1> QED BY <1>1, <1>2, OneMoves

\* A request's record after a step that only gives it a new one.
LEMMA Moved ==
  ASSUME IInv, NEW r \in Requests, NEW q \in RequestRange, req' = [req EXCEPT ![r] = q],
         UNCHANGED <<version, rows, owner>>
  PROVE  Alone(r) /\ RangesOK' /\ req'[r] = q
BY DEF Alone, IInv, RangesOK

-----------------------------------------------------------------------------
\* The first draft is empty and nobody is at work.
LEMMA InitOK == Init => IInv
<1> SUFFICES ASSUME Init PROVE IInv
  OBVIOUS
<1>1. 1 \in Labels /\ Cardinality({}) = 0 /\ Numbered({}, 0)
  BY LabelAssumption, FS_EmptySet DEF Labels, Numbered
<1>2. RangesOK
  <2>1. None \in VersionRange /\ EmptyDraft \in VersionRange
    BY DEF None, EmptyDraft, VersionRange
  <2>2. Fresh \in RequestRange
    BY <1>1 DEF Fresh, RequestRange, Pcs, Ops
  <2> QED BY <2>1, <2>2 DEF Init, RangesOK
<1>3. \A l \in Labels : VersionOK(l)
  BY <1>1 DEF Init, VersionOK, Size, Exists, Locked, None, EmptyDraft
<1>4. ASSUME NEW r \in Requests PROVE OwnerOK(r) /\ ReadsOK(r) /\ AppendOK(r) /\ LockOK(r)
  <2>1. req[r].pc = "new" /\ req[r].rows = {} /\ req[r].op = "append" /\ req[r].held = 0
        /\ req[r].v = 1 /\ rows[1] = {} /\ \A l \in Labels : owner[l] # r
    BY <1>1, RequestAssumption DEF Init, Fresh
  <2> QED BY <1>1, <2>1 DEF OwnerOK, ReadsOK, AppendOK, LockOK, Size
<1>5. Apart
  BY DEF Init, Fresh, Apart, Clash
<1> QED BY <1>2, <1>3, <1>4, <1>5 DEF IInv

-----------------------------------------------------------------------------
(* The first statements.                                                     *)
\* A request that begins holds the count it loaded and nothing else.
LEMMA BeginOK ==
  ASSUME IInv, NEW r \in Requests, Begin(r)
  PROVE  IInv'
<1>1. /\ \A l \in Labels : version[l].count \in Nat /\ version[l].count <= Size(l)
      /\ \A l \in Labels : Size(l) \in Nat
      /\ 1 \in Labels
  BY LabelAssumption DEF IInv, RangesOK, VersionRange, VersionOK, Numbered, Labels
<1>2. ASSUME At(r, "new") PROVE \A l \in Labels : owner[l] # r
  BY <1>2 DEF IInv, OwnerOK, At
<1>3. ASSUME NEW q \in RequestRange, Start(r, q), q.rows = {}, q.held <= Size(q.v),
             q.op = "lock" \/ q.op = "relock" => q.pc = "load" /\ Exists(q.v),
             q.pc \in {"failed", "max", "load", "label", "insertVersion"},
             q.pc \in {"label", "insertVersion"} => q.held = 0,
             q.pc = "max" => Exists(q.v),
             q.pc = "label" => q.op = "promote",
             q.pc = "max" => q.op \in {"append", "promote"},
             q.pc = "load" => q.op \in {"lock", "relock"},
             q.op = "clone" => q.next \in Labels, q.op = "create" => q.next = 0,
             q.op \in {"append", "promote"} => q.batch # <<>> \/ <<>> \in Batches
      PROVE  IInv'
  <2>1. Alone(r) /\ RangesOK' /\ req'[r] = q
    BY <1>3, Moved DEF Start
  <2>2. OwnerOK(r)'
    BY <1>2, <1>3, <2>1 DEF OwnerOK, Start, Exists, At
  <2>3. ReadsOK(r)'
    BY <1>3, <2>1 DEF ReadsOK, Start, Exists, Size
  <2> QED BY <1>3, <2>1, <2>2, <2>3, Quiet
<1>4. /\ Fresh \in RequestRange /\ Fresh.rows = {} /\ Fresh.held = 0 /\ Fresh.v = 1
      /\ Fresh.next = 0
      /\ Fresh.op = "append"
  BY <1>1 DEF Fresh, RequestRange, Pcs, Ops
<1>4a. ASSUME NEW v \in Labels
       PROVE  /\ Holding(v) \in RequestRange /\ Holding(v).rows = {} /\ Holding(v).v = v
              /\ Holding(v).held = version[v].count /\ Holding(v).op = "append"
  BY <1>1, <1>4 DEF Holding, RequestRange
<1>5. CASE BeginAppend(r)
  <2>1. PICK v \in Existing, batch \in Batches :
          Start(r, [Holding(v) EXCEPT !.batch = batch,
                                      !.pc = IF Locked(v) THEN "failed" ELSE "max"])
    BY <1>5 DEF BeginAppend
  <2> DEFINE h == Holding(v)
             q == [h EXCEPT !.batch = batch,
                            !.pc = IF Locked(v) THEN "failed" ELSE "max"]
  <2>2. v \in Labels /\ Exists(v) /\ batch \in Seq(Ids)
    BY BatchAssumption DEF Existing
  <2>5. /\ h \in RequestRange /\ h.rows = {} /\ h.v = v /\ h.held = version[v].count
        /\ h.op = "append"
    BY <1>4a, <2>2
  <2>4. Start(r, q)
    BY <2>1
  <2> HIDE DEF h
  <2>3. /\ q \in RequestRange /\ q.rows = {} /\ q.v = v /\ q.held = version[v].count
        /\ q.op = "append" /\ q.pc \in {"failed", "max"} /\ q.batch = batch
    BY <2>5, <2>2 DEF RequestRange, Pcs, Running
  <2> HIDE DEF q
  <2> QED BY <1>1, <1>3, <2>2, <2>3, <2>4
<1>6. CASE BeginLock(r)
  <2>1. PICK v \in Existing :
          Start(r, [Holding(v) EXCEPT !.op = IF Locked(v) THEN "relock" ELSE "lock",
                                      !.pc = "load"])
    BY <1>6 DEF BeginLock
  <2> DEFINE h == Holding(v)
             q == [h EXCEPT !.op = IF Locked(v) THEN "relock" ELSE "lock", !.pc = "load"]
  <2>2. v \in Labels /\ Exists(v)
    BY DEF Existing
  <2>5. /\ h \in RequestRange /\ h.rows = {} /\ h.v = v /\ h.held = version[v].count
    BY <1>4a, <2>2
  <2>4. Start(r, q)
    BY <2>1
  <2> HIDE DEF h
  <2>3. /\ q \in RequestRange /\ q.rows = {} /\ q.v = v /\ q.held = version[v].count
        /\ q.op \in {"lock", "relock"} /\ q.pc = "load"
    BY <2>5, <2>2 DEF RequestRange, Pcs, Running, Ops
  <2> HIDE DEF q
  <2> QED BY <1>1, <1>3, <2>2, <2>3, <2>4
<1>7. CASE BeginCreate(r)
  <2>1. PICK l \in Chosen :
          Start(r, [Fresh EXCEPT !.op = "create", !.v = l, !.pc = "insertVersion"])
    BY <1>7 DEF BeginCreate
  <2> DEFINE q == [Fresh EXCEPT !.op = "create", !.v = l, !.pc = "insertVersion"]
  <2>2. l \in Labels
    BY LabelAssumption
  <2>3. /\ q \in RequestRange /\ q.rows = {} /\ q.v = l /\ q.held = 0
        /\ q.op = "create" /\ q.pc = "insertVersion" /\ q.next = 0
    BY <1>4, <2>2 DEF RequestRange, Pcs, Running, Ops
  <2>4. Start(r, q)
    BY <2>1
  <2> HIDE DEF q
  <2> QED BY <1>1, <1>3, <2>2, <2>3, <2>4
<1>8. CASE BeginClone(r)
  <2>1. PICK l \in Chosen, source \in Existing :
          Start(r, [Fresh EXCEPT !.op = "clone", !.v = l, !.next = source,
                                 !.pc = "insertVersion"])
    BY <1>8 DEF BeginClone
  <2> DEFINE q == [Fresh EXCEPT !.op = "clone", !.v = l, !.next = source, !.pc = "insertVersion"]
  <2>2. l \in Labels /\ source \in Labels /\ source \in Nat
    BY LabelAssumption DEF Existing, Labels
  <2>3. /\ q \in RequestRange /\ q.rows = {} /\ q.v = l /\ q.held = 0 /\ q.next = source
        /\ q.op = "clone" /\ q.pc = "insertVersion"
    BY <1>4, <2>2 DEF RequestRange, Pcs, Running, Ops
  <2>4. Start(r, q)
    BY <2>1
  <2> HIDE DEF q
  <2> QED BY <1>1, <1>3, <2>2, <2>3, <2>4
<1>9. CASE BeginPromote(r)
  <2> DEFINE into(id, v) ==
               Start(r, [Holding(v) EXCEPT !.op = "promote", !.batch = <<id>>, !.pc = "max"])
             opening(id) ==
               Start(r, [Fresh EXCEPT !.op = "promote", !.batch = <<id>>, !.pc = "label"])
  <2>1. PICK id \in Promoted : (\E v \in Drafts : into(id, v)) \/ opening(id)
    BY <1>9 DEF BeginPromote
  <2>2. <<id>> \in Seq(Ids) /\ <<id>> # <<>>
    <3>1. id \in Ids
      BY <2>1 DEF Ids
    <3> QED BY <3>1
  <2>3. ASSUME NEW v \in Drafts, into(id, v)
        PROVE  IInv'
    <3> DEFINE h == Holding(v)
               q == [h EXCEPT !.op = "promote", !.batch = <<id>>, !.pc = "max"]
    <3>1. v \in Labels /\ Exists(v)
      BY DEF Drafts, Existing
    <3>4. /\ h \in RequestRange /\ h.rows = {} /\ h.v = v /\ h.held = version[v].count
      BY <1>4a, <3>1
    <3>3. Start(r, q)
      BY <2>3
    <3> HIDE DEF h
    <3>2. /\ q \in RequestRange /\ q.rows = {} /\ q.v = v /\ q.held = version[v].count
          /\ q.op = "promote" /\ q.pc = "max" /\ q.batch = <<id>>
      BY <3>4, <2>2, <3>1 DEF RequestRange, Pcs, Running, Ops
    <3> HIDE DEF q
    <3> QED BY <1>1, <1>3, <2>2, <3>1, <3>2, <3>3
  <2>4. ASSUME opening(id)
        PROVE  IInv'
    <3> DEFINE q == [Fresh EXCEPT !.op = "promote", !.batch = <<id>>, !.pc = "label"]
    <3>1. /\ q \in RequestRange /\ q.rows = {} /\ q.v = 1 /\ q.held = 0
          /\ q.op = "promote" /\ q.pc = "label" /\ q.batch = <<id>>
      BY <1>4, <2>2 DEF RequestRange, Pcs, Running, Ops
    <3>2. Start(r, q)
      BY <2>4
    <3> HIDE DEF q
    <3>3. q.held <= Size(q.v) /\ q.batch # <<>>
      BY <1>1, <2>2, <3>1
    <3>4. q.pc = "label" /\ q.op = "promote" /\ q.held = 0 /\ q.rows = {} /\ q \in RequestRange
      BY <3>1
    <3> QED BY <1>3, <3>2, <3>3, <3>4
  <2> HIDE DEF into, opening
  <2> QED BY <2>1, <2>3, <2>4
<1> QED BY <1>5, <1>6, <1>7, <1>8, <1>9 DEF Begin

-----------------------------------------------------------------------------
\* What the invariant says of a request and the version it works on.
LEMMA Facts ==
  ASSUME IInv, NEW r \in Requests
  PROVE  /\ req[r] \in RequestRange /\ req[r].v \in Labels
         /\ OwnerOK(r) /\ ReadsOK(r) /\ AppendOK(r) /\ LockOK(r)
         /\ VersionOK(req[r].v) /\ Numbered(rows[req[r].v], Size(req[r].v))
         /\ Size(req[r].v) \in Nat
BY DEF IInv, RangesOK, RequestRange, VersionOK, Numbered

\* A request that fails or is aborted leaves nothing behind.
LEMMA EndOK ==
  ASSUME IInv, NEW r \in Requests, Release(r), UNCHANGED <<version, rows>>,
         req' = [req EXCEPT ![r].pc = "failed", ![r].rows = {}]
  PROVE  IInv'
<1>1. PICK q : q = [req[r] EXCEPT !.pc = "failed", !.rows = {}]
  OBVIOUS
<1>2. /\ q \in RequestRange /\ q.pc = "failed" /\ q.rows = {} /\ q.v = req[r].v
      /\ q.op = req[r].op /\ q.held = req[r].held
  BY <1>1, Facts DEF RequestRange, Pcs
<1>3. req'[r] = q /\ req' \in [Requests -> RequestRange]
      /\ \A s \in Requests \ {r} : req'[s] = req[s]
  BY <1>1, <1>2 DEF IInv, RangesOK
<1>4. /\ owner' \in [Labels -> Requests \cup {Nobody}] /\ \A l \in Labels : owner'[l] # r
      /\ \A l \in Labels : \A s \in Requests \ {r} : owner'[l] = s <=> owner[l] = s
  BY RequestAssumption DEF Release, IInv, RangesOK
<1>5. Alone(r) /\ RangesOK'
  BY <1>3, <1>4 DEF Alone, IInv, RangesOK
<1>6. OwnerOK(r)'
  BY <1>2, <1>3, <1>4 DEF OwnerOK
<1>7. ReadsOK(r)'
  BY <1>2, <1>3, Facts DEF ReadsOK, Size
<1> QED BY <1>2, <1>3, <1>5, <1>6, <1>7, Quiet

-----------------------------------------------------------------------------
(* Opening a version.                                                        *)
\* A promotion that finds no draft opens one under the next label.
LEMMA ChooseOK ==
  ASSUME IInv, NEW r \in Requests, ChooseLabel(r)
  PROVE  IInv'
<1>1. PICK q : q = [req[r] EXCEPT !.v = NextLabel, !.pc = "insertVersion"]
  OBVIOUS
<1>2. req[r].pc = "label" /\ NextLabel \in Labels
  BY DEF ChooseLabel, At
<1>3. /\ q \in RequestRange /\ q.pc = "insertVersion" /\ q.rows = req[r].rows
      /\ q.v = NextLabel /\ q.op = req[r].op /\ q.held = req[r].held /\ q.batch = req[r].batch
      /\ q.next = req[r].next
  BY <1>1, <1>2, Facts DEF RequestRange, Pcs, Running
<1>4. Alone(r) /\ RangesOK' /\ req'[r] = q /\ UNCHANGED <<version, rows, owner>>
  BY <1>1, <1>3, Moved, ZenonT(40) DEF ChooseLabel
<1>5. /\ req[r].held = 0 /\ Size(q.v) \in Nat /\ req[r].rows = {}
      /\ req[r].op = "promote"
      /\ \A l \in Labels : owner[l] # r
  <2>1. q.v \in Labels /\ VersionOK(q.v)
    BY <1>2, <1>3 DEF IInv
  <2>2. Size(q.v) \in Nat
    BY <2>1 DEF VersionOK, Numbered
  <2>3. req[r].held = 0 /\ req[r].op = "promote"
    BY <1>2, Facts DEF ReadsOK
  <2>4. req[r].rows = {}
    BY <1>2, Facts DEF AppendOK
  <2>5. \A l \in Labels : owner[l] # r
    BY <1>2, Facts DEF OwnerOK
  <2> QED BY <2>2, <2>3, <2>4, <2>5
<1>6. OwnerOK(r)'
  BY <1>3, <1>4, <1>5 DEF OwnerOK
<1>7. ReadsOK(r)'
  BY <1>2, <1>3, <1>4, <1>5, Facts DEF ReadsOK, Size
<1> QED BY <1>3, <1>4, <1>5, <1>6, <1>7, Quiet

\* An insert that succeeds is the first of its label, and the request's until it commits.
LEMMA InsertVersionOK ==
  ASSUME IInv, NEW r \in Requests, InsertVersion(r)
  PROVE  IInv'
<1>1. CASE Fail(r)
  BY <1>1, EndOK DEF Fail
<1>2. CASE ~Fail(r)
  <2>1. PICK pc : pc = CASE req[r].op = "create" -> "commit"
                         [] req[r].op = "clone" -> "copy"
                         [] OTHER -> "max"
    OBVIOUS
  <2>2. PICK q : q = [req[r] EXCEPT !.pc = pc]
    OBVIOUS
  <2>3. /\ req[r].pc = "insertVersion" /\ ~Exists(req[r].v) /\ owner[req[r].v] = Nobody
        /\ owner' = [owner EXCEPT ![req[r].v] = r] /\ UNCHANGED <<version, rows>>
        /\ req' = [req EXCEPT ![r] = q]
    BY <1>2, <2>1, <2>2 DEF InsertVersion, At, Step
  <2>4. /\ pc \in {"commit", "copy", "max"} /\ (pc = "commit" => req[r].op = "create")
        /\ (pc = "copy" => req[r].op = "clone")
        /\ (pc = "max" => req[r].op \notin {"create", "clone"})
    BY <2>1
  <2>5. /\ q \in RequestRange /\ q.pc = pc /\ q.rows = req[r].rows
        /\ q.v = req[r].v /\ q.op = req[r].op /\ q.held = req[r].held /\ q.batch = req[r].batch
        /\ q.next = req[r].next
    <3>1. pc \in Pcs
      BY <2>4 DEF Pcs, Running
    <3> QED BY <2>2, <3>1, Facts DEF RequestRange
  <2>6. Alone(r) /\ RangesOK' /\ req'[r] = q
    BY <2>3, <2>5, Facts, RequestAssumption DEF Alone, IInv, RangesOK
  <2>7. /\ q.rows = {} /\ q.held = 0 /\ q.op \notin {"lock", "relock"}
        /\ owner'[q.v] = r /\ \A l \in Labels \ {q.v} : owner'[l] # r
        /\ q.op = "clone" => q.next \in Labels
        /\ q.op = "create" => q.next = 0
        /\ q.op \in {"append", "promote"} => q.batch # <<>> \/ <<>> \in Batches
    BY <2>3, <2>5, Facts DEF ReadsOK, AppendOK, OwnerOK, IInv, RangesOK
  <2>8. ~Exists(q.v)' /\ Size(q.v)' = Size(q.v) /\ Size(q.v) \in Nat /\ q.v \in Labels
    BY <2>3, <2>5, Facts DEF Exists, Size
  <2>9. OwnerOK(r)'
    BY <2>4, <2>5, <2>6, <2>7, <2>8 DEF OwnerOK
  <2>10. ReadsOK(r)'
    <3>1. q.op \in Ops
      BY <2>5 DEF RequestRange
    <3> QED BY <3>1, <2>4, <2>5, <2>6, <2>7, <2>8 DEF ReadsOK, Ops
  <2>11. AppendOK(r)' /\ LockOK(r)'
    BY <2>4, <2>5, <2>6, <2>7, <2>8 DEF AppendOK, LockOK
  <2>12. \A s \in Requests : ~Clash(q.rows, req[s].rows)
    BY <2>7 DEF Clash
  <2> QED BY <2>6, <2>9, <2>10, <2>11, <2>12, OneMoves
<1> QED BY <1>1, <1>2

\* A clone copies the source's examples under ids and ordinals of their own.
LEMMA CopyOK ==
  ASSUME IInv, NEW r \in Requests, CopyExamples(r)
  PROVE  IInv'
<1>1. PICK source : source = rows[req[r].next]
  OBVIOUS
<1>2. PICK batch : batch = InOrder(source)
  OBVIOUS
<1>3. PICK pc : pc = IF source = {} THEN "commit" ELSE "insert"
  OBVIOUS
<1>4. PICK q : q = [req[r] EXCEPT !.batch = batch, !.next = 0, !.pc = pc]
  OBVIOUS
<1>5. /\ req[r].pc = "copy" /\ UNCHANGED <<version, rows, owner>>
      /\ req' = [req EXCEPT ![r] = q]
  BY <1>1, <1>2, <1>3, <1>4 DEF CopyExamples, At
<1>6. /\ req[r].op = "clone" /\ req[r].next \in Labels /\ req[r].rows = {}
      /\ (Exists(req[r].v) \/ owner[req[r].v] = r)
      /\ (\A l \in Labels : owner[l] = r => req[r].v = l /\ ~Exists(l))
  BY <1>5, Facts DEF ReadsOK, AppendOK, OwnerOK
<1>7. \E n : Numbered(source, n) /\ (source # {} => n # 0) /\ n \in Nat
  <2>1. Numbered(source, Size(req[r].next))
    BY <1>1, <1>6 DEF IInv, VersionOK
  <2>2. Size(req[r].next) = 0 => source = {}
    BY <2>1 DEF Numbered, Row
  <2> QED BY <2>1, <2>2 DEF Numbered
<1>8. batch \in Seq(Ids) /\ Injective(batch) /\ (source # {} => batch # <<>>)
  BY <1>2, <1>7, ReadInOrder
<1>9. /\ q \in RequestRange /\ q.pc = pc /\ q.rows = {} /\ q.v = req[r].v /\ q.op = "clone"
      /\ q.held = req[r].held /\ q.batch = batch /\ q.next = 0
  <2>1. pc \in Pcs
    BY <1>3 DEF Pcs, Running
  <2> QED BY <1>4, <1>6, <1>8, <2>1, Facts DEF RequestRange
<1>10. Alone(r) /\ RangesOK' /\ req'[r] = q
  BY <1>5, <1>9, Moved
<1>11. OwnerOK(r)'
  BY <1>3, <1>5, <1>6, <1>9, <1>10 DEF OwnerOK, Exists
<1>12. ReadsOK(r)'
  BY <1>3, <1>5, <1>8, <1>9, <1>10, Facts DEF ReadsOK, Exists, Size
<1>13. AppendOK(r)' /\ LockOK(r)'
  BY <1>3, <1>5, <1>6, <1>9, <1>10, Facts DEF AppendOK, LockOK, Exists
<1>14. \A s \in Requests : ~Clash(q.rows, req[s].rows)
  BY <1>9 DEF Clash
<1> QED BY <1>10, <1>11, <1>12, <1>13, <1>14, OneMoves

-----------------------------------------------------------------------------
(* Appending.                                                                *)
\* The next ordinal is the number of rows there are.
LEMMA ReadMaxOK ==
  ASSUME IInv, NEW r \in Requests, ReadMax(r)
  PROVE  IInv'
<1>1. PICK q : q = [req[r] EXCEPT !.next = NextOrdinal(req[r].v), !.pc = "seen"]
  OBVIOUS
<1>2. NextOrdinal(req[r].v) = Size(req[r].v) /\ Size(req[r].v) \in Nat
  BY Facts, NextOrdinalCounts
<1>3. /\ req[r].pc = "max" /\ UNCHANGED <<version, rows, owner>> /\ req' = [req EXCEPT ![r] = q]
  BY <1>1 DEF ReadMax, At
<1>4. /\ q \in RequestRange /\ q.pc = "seen" /\ q.rows = req[r].rows /\ q.v = req[r].v
      /\ q.op = req[r].op /\ q.held = req[r].held /\ q.batch = req[r].batch
      /\ q.next = Size(req[r].v)
  BY <1>1, <1>2, Facts DEF RequestRange, Pcs, Running
<1>5. Alone(r) /\ RangesOK' /\ req'[r] = q
  BY <1>3, <1>4, Moved
<1>6. req[r].rows = {} /\ req[r].op # "create"
  BY <1>3, Facts DEF AppendOK, ReadsOK
<1>7. OwnerOK(r)'
  BY <1>3, <1>4, <1>5, Facts DEF OwnerOK, Exists
<1>8. ReadsOK(r)'
  BY <1>2, <1>3, <1>4, <1>5, <1>6, Facts DEF ReadsOK, Exists, Size
<1> QED BY <1>4, <1>5, <1>6, <1>7, <1>8, Quiet

\* A list that goes on to be inserted names no id twice.
LEMMA ReadSeenOK ==
  ASSUME IInv, NEW r \in Requests, ReadSeen(r)
  PROVE  IInv'
<1>1. CASE Fail(r)
  BY <1>1, EndOK DEF Fail
<1>2. CASE ~Fail(r)
  <2>1. PICK pc : pc = IF Duplicate(r) THEN "commit" ELSE "insert"
    OBVIOUS
  <2>2. PICK q : q = [req[r] EXCEPT !.pc = pc]
    OBVIOUS
  <2>3. /\ req[r].pc = "seen" /\ UNCHANGED <<version, rows, owner>>
        /\ req' = [req EXCEPT ![r] = q] /\ (Duplicate(r) => req[r].op = "promote")
    BY <1>2, <2>1, <2>2 DEF ReadSeen, At, Step
  <2>4. /\ q \in RequestRange /\ q.pc = pc /\ q.rows = req[r].rows /\ q.v = req[r].v
        /\ q.op = req[r].op /\ q.held = req[r].held /\ q.batch = req[r].batch
        /\ q.next = req[r].next /\ q.batch \in Seq(Ids)
    <3>1. pc \in Pcs
      BY <2>1 DEF Pcs, Running
    <3> QED BY <2>2, <3>1, Facts DEF RequestRange
  <2>5. Alone(r) /\ RangesOK' /\ req'[r] = q
    BY <2>3, <2>4, Moved
  <2>6. pc = "insert" => Injective(q.batch)
    BY <2>1, <2>4, NoneTwice DEF Duplicate
  <2>7. /\ req[r].rows = {} /\ req[r].op # "lock" /\ req[r].op # "relock"
        /\ (Exists(req[r].v) \/ owner[req[r].v] = r)
        /\ (\A l \in Labels : owner[l] = r => req[r].v = l /\ ~Exists(l))
    BY <2>3, Facts DEF AppendOK, ReadsOK, OwnerOK
  <2>8. OwnerOK(r)'
    BY <2>1, <2>3, <2>4, <2>5, <2>7 DEF OwnerOK, Exists
  <2>9. ReadsOK(r)'
    BY <2>1, <2>3, <2>4, <2>5, <2>6, <2>7, Facts DEF ReadsOK, Exists, Size
  <2>10. AppendOK(r)' /\ LockOK(r)'
    BY <2>1, <2>3, <2>4, <2>5, <2>7, Facts DEF AppendOK, LockOK, Exists
  <2>11. \A s \in Requests : ~Clash(q.rows, req[s].rows)
    BY <2>4, <2>7 DEF Clash
  <2> QED BY <2>5, <2>8, <2>9, <2>10, <2>11, OneMoves
<1> QED BY <1>1, <1>2

\* The rows a request would insert depend on its list and its first ordinal only.
LEMMA NewRowsAre ==
  ASSUME IInv, NEW r \in Requests
  PROVE  /\ NewRows(r) \in SUBSET Row /\ NewCount(r) \in Nat
         /\ req'[r].next = req[r].next /\ req'[r].batch = req[r].batch =>
              NewRows(r)' = NewRows(r) /\ NewCount(r)' = NewCount(r)
<1>1. req[r].batch \in Seq(Ids) /\ req[r].next \in Nat
  BY Facts DEF RequestRange
<1>2. \A i \in DOMAIN req[r].batch : req[r].next + i - 1 \in Nat /\ req[r].batch[i] \in Ids
  BY <1>1
<1> QED BY <1>1, <1>2 DEF NewRows, NewCount, Row

\* What an append has inserted goes on where the committed rows end.
LEMMA Appended ==
  ASSUME IInv, NEW r \in Requests, req[r].rows # {}
  PROVE  /\ req[r].next = Size(req[r].v)
         /\ NewCount(r) = Size(req[r].v) + Len(req[r].batch) /\ Len(req[r].batch) > 0
         /\ Len(req[r].batch) \in Nat
         /\ Numbered(rows[req[r].v] \cup req[r].rows, NewCount(r))
<1>1. /\ req[r].batch \in Seq(Ids) /\ req[r].next \in Nat /\ req[r].next <= Size(req[r].v)
      /\ Injective(req[r].batch) /\ req[r].rows = NewRows(r)
      /\ ~Clash(req[r].rows, rows[req[r].v]) /\ Numbered(rows[req[r].v], Size(req[r].v))
  BY Facts DEF RequestRange, AppendOK, ReadsOK
<1>2. req[r].rows = Placed(req[r].batch, req[r].next)
  BY <1>1 DEF NewRows, Placed
<1>3. /\ req[r].next = Size(req[r].v) /\ Len(req[r].batch) > 0
      /\ Numbered(rows[req[r].v] \cup req[r].rows, Size(req[r].v) + Len(req[r].batch))
  <2>1. PICK S, n, batch, next : /\ S = rows[req[r].v] /\ n = Size(req[r].v)
                                  /\ batch = req[r].batch /\ next = req[r].next
    OBVIOUS
  <2>2. /\ next \in Nat /\ next <= n /\ batch \in Seq(Ids) /\ Injective(batch) /\ Numbered(S, n)
        /\ Placed(batch, next) # {} /\ ~Clash(Placed(batch, next), S)
    BY <1>1, <1>2, <2>1
  <2>3. next = n /\ Len(batch) > 0 /\ Numbered(S \cup Placed(batch, next), n + Len(batch))
    BY <2>2, Continued
  <2> QED BY <1>2, <2>1, <2>3
<1> QED BY <1>1, <1>3 DEF NewCount

\* An insert that succeeds clashes with nothing that is committed or under way.
LEMMA InsertOK ==
  ASSUME IInv, NEW r \in Requests, InsertExamples(r)
  PROVE  IInv'
<1>1. CASE Fail(r)
  BY <1>1, EndOK DEF Fail
<1>2. CASE ~Fail(r)
  <2>1. PICK q : q = [req[r] EXCEPT !.rows = NewRows(r), !.pc = "count"]
    OBVIOUS
  <2>2. /\ req[r].pc = "insert" /\ UNCHANGED <<version, rows, owner>>
        /\ req' = [req EXCEPT ![r] = q] /\ ~Clash(NewRows(r), rows[req[r].v])
        /\ \A s \in Requests \ {r} : req[s].v = req[r].v => ~Clash(NewRows(r), req[s].rows)
    BY <1>2, <2>1 DEF InsertExamples, At
  <2>3. /\ q \in RequestRange /\ q.pc = "count" /\ q.rows = NewRows(r) /\ q.v = req[r].v
        /\ q.op = req[r].op /\ q.held = req[r].held /\ q.batch = req[r].batch
        /\ q.next = req[r].next
    BY <2>1, NewRowsAre, Facts DEF RequestRange, Pcs, Running
  <2>4. Alone(r) /\ RangesOK' /\ req'[r] = q
    BY <2>2, <2>3, Moved
  <2>5. NewRows(r)' = NewRows(r)
    BY <2>3, <2>4, NewRowsAre
  <2>6. OwnerOK(r)'
    BY <2>2, <2>3, <2>4, Facts DEF OwnerOK, Exists
  <2>7. ReadsOK(r)'
    BY <2>2, <2>3, <2>4, Facts DEF ReadsOK, Exists, Size
  <2>8. AppendOK(r)'
    <3>1. /\ Injective(q.batch) /\ q.op \notin {"lock", "relock"}
          /\ ~Clash(q.rows, rows'[q.v]) /\ q.rows = NewRows(r)'
      BY <2>2, <2>3, <2>5, Facts DEF ReadsOK
    <3> QED BY <2>3, <2>4, <3>1 DEF AppendOK
  <2>9. LockOK(r)'
    BY <2>2, <2>3, <2>4, Facts DEF LockOK, ReadsOK
  <2> QED BY <2>2, <2>3, <2>4, <2>6, <2>7, <2>8, <2>9, OneMoves
<1> QED BY <1>1, <1>2

\* An UPDATE that goes through leaves a locked version's count what it is, and one that is
\* not sent belongs to an append of nothing.
LEMMA UpdateOK ==
  ASSUME IInv, NEW r \in Requests, UpdateCount(r)
  PROVE  IInv'
<1>1. CASE Fail(r)
  BY <1>1, EndOK DEF Fail
<1>2. CASE ~Fail(r)
  <2>1. PICK q : q = [req[r] EXCEPT !.pc = "commit"]
    OBVIOUS
  <2>2. /\ req[r].pc = "count" /\ UNCHANGED <<version, rows>> /\ req' = [req EXCEPT ![r] = q]
        /\ \/ NewCount(r) = req[r].held /\ UNCHANGED owner
           \/ /\ owner[req[r].v] \in {Nobody, r} /\ owner' = [owner EXCEPT ![req[r].v] = r]
              /\ Locked(req[r].v) => NewCount(r) = version[req[r].v].count
    BY <1>2, <2>1 DEF UpdateCount, At, Step, RelockRejected
  <2>3. /\ q \in RequestRange /\ q.pc = "commit" /\ q.rows = req[r].rows /\ q.v = req[r].v
        /\ q.op = req[r].op /\ q.held = req[r].held /\ q.batch = req[r].batch
        /\ q.next = req[r].next
    BY <2>1, Facts DEF RequestRange, Pcs, Running
  <2>4. Alone(r) /\ RangesOK' /\ req'[r] = q
    BY <2>2, <2>3, Facts, RequestAssumption DEF Alone, IInv, RangesOK
  <2>5. NewRows(r)' = NewRows(r) /\ NewCount(r)' = NewCount(r)
    BY <2>3, <2>4, NewRowsAre
  <2>6. /\ req[r].op \notin {"lock", "relock"} /\ req[r].rows = NewRows(r)
        /\ \A l \in Labels : owner[l] = r => req[r].v = l /\ ~Exists(l)
        /\ Exists(req[r].v) \/ owner[req[r].v] = r
        /\ req[r].v \in Labels
    BY <2>2, Facts DEF AppendOK, ReadsOK, OwnerOK
  <2>7. OwnerOK(r)'
    BY <2>2, <2>3, <2>4, <2>6 DEF OwnerOK, IInv, RangesOK
  <2>8. ReadsOK(r)'
    BY <2>2, <2>3, <2>4, <2>6, Facts DEF ReadsOK, Size
  <2>9. q.batch # <<>> \/ <<>> \in Batches
    BY <2>2, <2>3, Facts DEF ReadsOK
  <2>10. ASSUME req[r].rows # {} PROVE owner'[q.v] = r /\ ~Locked(q.v)
    <3>1. version[q.v].count <= Size(q.v) /\ req[r].held <= Size(q.v)
      BY <2>3, Facts DEF VersionOK, ReadsOK
    <3>2. version[q.v].count \in Nat /\ req[r].held \in Nat /\ Size(q.v) \in Nat
      BY <2>3, Facts DEF IInv, RangesOK, VersionRange, RequestRange
    <3>3. NewCount(r) > Size(q.v)
      <4>1. /\ NewCount(r) = Size(req[r].v) + Len(req[r].batch) /\ Len(req[r].batch) > 0
            /\ Len(req[r].batch) \in Nat
        BY <2>10, Appended
      <4> QED BY <2>3, <3>2, <4>1
    <3> QED BY <2>2, <2>3, <2>6, <3>1, <3>2, <3>3 DEF IInv, RangesOK
  <2>11. AppendOK(r)'
    <3>1. q.rows # {} => Injective(q.batch) /\ ~Clash(q.rows, rows'[q.v])
      BY <2>2, <2>3, Facts DEF AppendOK
    <3>2. owner'[q.v] = r /\ Exists(q.v) /\ Locked(q.v) => NewCount(r)' = version'[q.v].count
      BY <2>2, <2>3, <2>5, <2>6
    <3>3. Exists(q.v)' = Exists(q.v) /\ Locked(q.v)' = Locked(q.v)
      BY <2>2 DEF Exists, Locked
    <3> QED BY <2>3, <2>4, <2>5, <2>6, <2>9, <2>10, <3>1, <3>2, <3>3 DEF AppendOK
  <2>12. LockOK(r)'
    BY <2>3, <2>4, <2>6 DEF LockOK
  <2>13. \A s \in Requests \ {r} : req[s].v = q.v => ~Clash(q.rows, req[s].rows)
    BY <2>3 DEF IInv, Apart
  <2> QED BY <2>4, <2>7, <2>8, <2>11, <2>12, <2>13, OneMoves
<1> QED BY <1>1, <1>2

-----------------------------------------------------------------------------
(* Locking.                                                                  *)
\* The digest is taken over the rows there are.
LEMMA LoadOK ==
  ASSUME IInv, NEW r \in Requests, LoadExamples(r)
  PROVE  IInv'
<1>1. PICK pc : pc = Judged(r)
  OBVIOUS
<1>2. PICK q : q = [req[r] EXCEPT !.digest = rows[req[r].v], !.pc = pc]
  OBVIOUS
<1>3. req[r].pc = "load" /\ UNCHANGED <<version, rows, owner>> /\ req' = [req EXCEPT ![r] = q]
  BY <1>1, <1>2 DEF LoadExamples, At
<1>4. /\ pc \in {"failed", "lock", "done", "altered"}
      /\ pc = "lock" => rows[req[r].v] # {} /\ req[r].op = "lock"
  BY <1>1 DEF Judged
<1>5. /\ q \in RequestRange /\ q.pc = pc /\ q.rows = req[r].rows /\ q.v = req[r].v
      /\ q.op = req[r].op /\ q.held = req[r].held /\ q.batch = req[r].batch
      /\ q.next = req[r].next /\ q.digest = rows[req[r].v]
  <2>1. pc \in Pcs /\ rows[req[r].v] \in SUBSET Row
    BY <1>4, Facts DEF Pcs, Running, Numbered
  <2> QED BY <1>2, <2>1, Facts DEF RequestRange
<1>6. Alone(r) /\ RangesOK' /\ req'[r] = q
  BY <1>3, <1>5, Moved
<1>7. req[r].rows = {} /\ req[r].op \in {"lock", "relock"} /\ \A l \in Labels : owner[l] # r
  BY <1>3, Facts DEF AppendOK, ReadsOK, OwnerOK
<1>8. OwnerOK(r)'
  BY <1>3, <1>4, <1>5, <1>6, <1>7 DEF OwnerOK
<1>9. ReadsOK(r)'
  BY <1>3, <1>4, <1>5, <1>6, <1>7, Facts DEF ReadsOK, Exists, Size
<1>10. AppendOK(r)'
  BY <1>4, <1>5, <1>6, <1>7 DEF AppendOK
<1>11. LockOK(r)'
  BY <1>3, <1>4, <1>5, <1>6, Facts DEF LockOK, Size
<1>12. \A s \in Requests : ~Clash(q.rows, req[s].rows)
  BY <1>5, <1>7 DEF Clash
<1> QED BY <1>6, <1>8, <1>9, <1>10, <1>11, <1>12, OneMoves

\* A lock that goes through is the first of its version, or writes what is already there.
LEMMA LockVersionOK ==
  ASSUME IInv, NEW r \in Requests, LockVersion(r)
  PROVE  IInv'
<1>1. CASE Fail(r)
  BY <1>1, EndOK DEF Fail
<1>2. CASE ~Fail(r)
  <2>1. PICK q : q = [req[r] EXCEPT !.pc = "commit", !.next = CountLeft(r)]
    OBVIOUS
  <2>2. /\ req[r].pc = "lock" /\ UNCHANGED <<version, rows>> /\ req' = [req EXCEPT ![r] = q]
        /\ owner[req[r].v] = Nobody /\ owner' = [owner EXCEPT ![req[r].v] = r]
        /\ Locked(req[r].v) => /\ version[req[r].v].hash = req[r].digest
                               /\ version[req[r].v].count = CountLeft(r)
    BY <1>2, <2>1 DEF LockVersion, At, RelockRejected
  <2>3. /\ req[r].op = "lock" /\ Exists(req[r].v) /\ req[r].rows = {}
        /\ \A l \in Labels : owner[l] # r
    BY <2>2, Facts DEF LockOK, ReadsOK, AppendOK, OwnerOK
  <2>4. /\ req[r].digest \subseteq rows[req[r].v] /\ req[r].digest # {}
        /\ Numbered(req[r].digest, Cardinality(req[r].digest))
    BY <2>2, <2>3, Facts DEF LockOK
  <2>5. /\ CountLeft(r) \in {Cardinality(req[r].digest), version[req[r].v].count}
        /\ CountLeft(r) \in Nat /\ CountLeft(r) <= Size(req[r].v)
    <3>1. CountLeft(r) \in {Cardinality(req[r].digest), version[req[r].v].count}
      BY DEF CountLeft, LockedCount
    <3>2. Cardinality(req[r].digest) \in Nat /\ Cardinality(req[r].digest) <= Size(req[r].v)
      BY <2>4, Facts, NumberedPrefix DEF Numbered
    <3>3. version[req[r].v].count \in Nat /\ version[req[r].v].count <= Size(req[r].v)
      BY Facts DEF IInv, RangesOK, VersionRange, VersionOK
    <3> QED BY <3>1, <3>2, <3>3
  <2>6. <<>> \notin Batches => CountLeft(r) \in {Cardinality(req[r].digest), Size(req[r].v)}
    BY <2>2, <2>3, <2>5, Facts DEF VersionOK
  <2>7. /\ q \in RequestRange /\ q.pc = "commit" /\ q.rows = {} /\ q.v = req[r].v
        /\ q.op = "lock" /\ q.held = req[r].held /\ q.batch = req[r].batch
        /\ q.next = CountLeft(r) /\ q.digest = req[r].digest
    BY <2>1, <2>3, <2>5, Facts DEF RequestRange, Pcs, Running
  <2>8. Alone(r) /\ RangesOK' /\ req'[r] = q
    BY <2>2, <2>7, Facts, RequestAssumption DEF Alone, IInv, RangesOK
  <2>9. owner'[q.v] = r /\ \A l \in Labels \ {q.v} : owner'[l] # r
    BY <2>2, <2>3, <2>7, Facts DEF IInv, RangesOK
  <2>10. OwnerOK(r)'
    BY <2>7, <2>8, <2>9 DEF OwnerOK
  <2>11. ReadsOK(r)'
    BY <2>2, <2>5, <2>7, <2>8, Facts DEF ReadsOK, Size
  <2>12. AppendOK(r)'
    BY <2>7, <2>8 DEF AppendOK
  <2>13. LockOK(r)'
    BY <2>2, <2>3, <2>4, <2>6, <2>7, <2>8, <2>9 DEF LockOK, Exists, Locked, Size
  <2>14. \A s \in Requests : ~Clash(q.rows, req[s].rows)
    BY <2>7 DEF Clash
  <2> QED BY <2>8, <2>10, <2>11, <2>12, <2>13, <2>14, OneMoves
<1> QED BY <1>1, <1>2

-----------------------------------------------------------------------------
(* Committing.                                                               *)
\* What a commit makes of its version and of no other.
LEMMA CommitWrites ==
  ASSUME IInv, NEW r \in Requests, Commit(r)
  PROVE  /\ version'[req[r].v] = Written(r)
         /\ rows'[req[r].v] = rows[req[r].v] \cup req[r].rows
         /\ \A l \in Labels \ {req[r].v} : version'[l] = version[l] /\ rows'[l] = rows[l]
BY Facts DEF Commit, IInv, RangesOK

\* The request is done and owns nothing; the others are as they were.
LEMMA Done ==
  ASSUME IInv, NEW r \in Requests, Commit(r)
  PROVE  /\ req[r].pc = "commit"
         /\ req'[r].pc = "done" /\ req'[r].rows = {} /\ req'[r].v = req[r].v
         /\ req'[r].held = req[r].held /\ req'[r].op = req[r].op /\ req'[r].next = req[r].next
         /\ \A s \in Requests \ {r} : req'[s] = req[s]
         /\ req' \in [Requests -> RequestRange]
         /\ owner' \in [Labels -> Requests \cup {Nobody}]
         /\ \A l \in Labels : owner'[l] # r
         /\ \A l \in Labels : \A s \in Requests \ {r} : owner'[l] = s <=> owner[l] = s
<1>1. PICK q : q = [req[r] EXCEPT !.pc = "done", !.rows = {}]
  OBVIOUS
<1>2. /\ q \in RequestRange /\ q.pc = "done" /\ q.rows = {} /\ q.v = req[r].v
      /\ q.held = req[r].held /\ q.op = req[r].op /\ q.next = req[r].next
  BY <1>1, Facts DEF RequestRange, Pcs
<1>3. req' = [req EXCEPT ![r] = q] /\ req[r].pc = "commit"
  BY <1>1 DEF Commit, At
<1>4. req'[r] = q /\ req' \in [Requests -> RequestRange]
      /\ \A s \in Requests \ {r} : req'[s] = req[s]
  BY <1>2, <1>3 DEF IInv, RangesOK
<1>5. /\ owner' \in [Labels -> Requests \cup {Nobody}] /\ \A l \in Labels : owner'[l] # r
      /\ \A l \in Labels : \A s \in Requests \ {r} : owner'[l] = s <=> owner[l] = s
  BY RequestAssumption DEF Commit, Release, IInv, RangesOK
<1> QED BY <1>2, <1>3, <1>4, <1>5

\* A commit to a version it does not own writes nothing.
LEMMA NothingWritten ==
  ASSUME IInv, NEW r \in Requests, Commit(r), owner[req[r].v] # r
  PROVE  version'[req[r].v] = version[req[r].v] /\ rows'[req[r].v] = rows[req[r].v]
<1>1. req[r].rows = {}
  BY Facts, Done DEF AppendOK
<1>2. Written(r) = version[req[r].v]
  BY DEF Written
<1> QED BY <1>1, <1>2, CommitWrites

\* A commit to a locked version writes what is there.
LEMMA NothingChanged ==
  ASSUME IInv, NEW r \in Requests, Commit(r), Locked(req[r].v)
  PROVE  version'[req[r].v] = version[req[r].v] /\ rows'[req[r].v] = rows[req[r].v]
<1>1. version[req[r].v] \in VersionRange /\ version[req[r].v].status = "locked"
  BY Facts DEF IInv, RangesOK, Locked
<1>2. CASE owner[req[r].v] # r
  BY <1>2, NothingWritten
<1>3. CASE owner[req[r].v] = r /\ req[r].op = "lock"
  <2>1. /\ req[r].rows = {} /\ version[req[r].v].hash = req[r].digest
        /\ version[req[r].v].count = req[r].next
    BY <1>3, Facts, Done DEF AppendOK, LockOK
  <2>2. Written(r) = [status |-> "locked", hash |-> req[r].digest, count |-> req[r].next]
    BY <1>3 DEF Written
  <2>3. Written(r) = version[req[r].v]
    BY <1>1, <2>1, <2>2 DEF VersionRange
  <2> QED BY <2>1, <2>3, CommitWrites
<1>4. CASE owner[req[r].v] = r /\ req[r].op # "lock"
  <2>1. Exists(req[r].v)
    BY <1>1 DEF Exists
  <2>2. req[r].rows = {} /\ NewCount(r) = version[req[r].v].count
    BY <1>4, <2>1, Facts, Done DEF AppendOK
  <2>3. Written(r) = [version[req[r].v] EXCEPT !.count = NewCount(r)]
    BY <1>4, <2>1 DEF Written
  <2>4. Written(r) = version[req[r].v]
    BY <1>1, <2>2, <2>3 DEF VersionRange
  <2> QED BY <2>2, <2>4, CommitWrites
<1> QED BY <1>2, <1>3, <1>4

\* The version a commit leaves: an append's rows continue the numbering, a lock's hash is in it.
LEMMA CommitVersionOK ==
  ASSUME IInv, NEW r \in Requests, Commit(r), NEW v \in Labels, req[r].v = v
  PROVE  VersionOK(v)' /\ version'[v] \in VersionRange
         /\ (owner[v] = r => Exists(v)')
<1>1. /\ version[v] \in VersionRange /\ VersionOK(v) /\ req[r].pc = "commit"
      /\ req[r] \in RequestRange /\ Size(v) \in Nat
      /\ Numbered(rows[v], Size(v))
  BY Facts, Done DEF IInv, RangesOK
<1>7. version'[v] = Written(r) /\ rows'[v] = rows[v] \cup req[r].rows
  BY CommitWrites
<1>2. CASE owner[v] # r \/ Locked(v)
  <2>1. version'[v] = version[v] /\ rows'[v] = rows[v]
    BY <1>2, NothingWritten, NothingChanged
  <2>2. owner[v] = r => Exists(v)
    BY <1>2 DEF Exists, Locked
  <2> QED BY <1>1, <2>1, <2>2 DEF VersionOK, Size, Exists, Locked
<1>3. CASE owner[v] = r /\ ~Locked(v) /\ req[r].op = "lock"
  <2>1. /\ req[r].rows = {} /\ req[r].digest \subseteq rows[v] /\ req[r].digest # {}
        /\ Numbered(req[r].digest, Cardinality(req[r].digest)) /\ req[r].next <= Size(v)
        /\ <<>> \notin Batches => req[r].next \in {Cardinality(req[r].digest), Size(v)}
    BY <1>1, <1>3, Facts DEF AppendOK, LockOK, ReadsOK
  <2>2. PICK w : w = [status |-> "locked", hash |-> req[r].digest, count |-> req[r].next]
    OBVIOUS
  <2>3. w \in VersionRange /\ w.status = "locked" /\ w.hash = req[r].digest
        /\ w.count = req[r].next
    BY <1>1, <2>2 DEF VersionRange, RequestRange
  <2>4. version'[v] = w /\ rows'[v] = rows[v]
    BY <1>3, <2>1, <2>2, <1>7 DEF Written
  <2> QED BY <1>1, <2>1, <2>3, <2>4 DEF VersionOK, Size, Exists, Locked
<1>4. CASE owner[v] = r /\ ~Locked(v) /\ req[r].op # "lock" /\ Exists(v)
  <2>1. /\ req[r].rows = NewRows(r) /\ (req[r].batch # <<>> \/ <<>> \in Batches)
        /\ req[r].next <= Size(v)
    BY <1>1, <1>4, Facts DEF AppendOK, ReadsOK
  <2>2. PICK w : w = [version[v] EXCEPT !.count = NewCount(r)]
    OBVIOUS
  <2>3. w \in VersionRange /\ w.status = version[v].status /\ w.count = NewCount(r)
    BY <1>1, <2>2, NewRowsAre DEF VersionRange
  <2>4. version'[v] = w /\ rows'[v] = rows[v] \cup req[r].rows
    BY <1>4, <2>2, <1>7 DEF Written
  <2>5. CASE req[r].rows = {}
    <3>1. req[r].batch = <<>>
      <4>1. req[r].batch \in Seq(Ids)
        BY <1>1 DEF RequestRange
      <4>2. DOMAIN req[r].batch = {}
        BY <2>1, <2>5 DEF NewRows, Placed
      <4>3. ASSUME Len(req[r].batch) # 0 PROVE FALSE
        <5>1. 1 \in DOMAIN req[r].batch
          BY <4>1, <4>3
        <5> QED BY <4>2, <5>1
      <4> QED BY <4>1, <4>3, EmptySeq
    <3>2. NewCount(r) = req[r].next /\ <<>> \in Batches
      BY <1>1, <2>1, <3>1 DEF NewCount, RequestRange
    <3> QED BY <1>1, <1>4, <2>1, <2>3, <2>4, <2>5, <3>2 DEF VersionOK, Size, Exists, Locked
  <2>6. CASE req[r].rows # {}
    <3>1. Numbered(rows'[v], NewCount(r)) /\ NewCount(r) \in Nat
      BY <2>4, <2>6, Appended, NewRowsAre
    <3>2. Cardinality(rows'[v]) = NewCount(r)
      BY <3>1, NumberedSize
    <3> QED BY <1>4, <2>3, <2>4, <3>1, <3>2 DEF VersionOK, Size, Exists, Locked
  <2> QED BY <2>5, <2>6
<1>5. CASE owner[v] = r /\ ~Exists(v) /\ req[r].op # "lock"
  <2>1. rows[v] = {}
    BY <1>1, <1>5 DEF VersionOK
  <2>2. Numbered(req[r].rows, Cardinality(req[r].rows))
    <3>1. CASE req[r].rows = {}
      BY <3>1, FS_EmptySet DEF Numbered
    <3>2. CASE req[r].rows # {}
      <4>1. Numbered(req[r].rows, NewCount(r))
        BY <2>1, <3>2, Appended
      <4> QED BY <4>1, NumberedSize
    <3> QED BY <3>1, <3>2
  <2>3. PICK w : w = [EmptyDraft EXCEPT !.count = Cardinality(req[r].rows)]
    OBVIOUS
  <2>4. w \in VersionRange /\ w.status = "draft" /\ w.count = Cardinality(req[r].rows)
        /\ Cardinality(req[r].rows) \in Nat
    BY <2>2, <2>3 DEF VersionRange, EmptyDraft, Numbered
  <2>5. version'[v] = w /\ rows'[v] = req[r].rows
    BY <1>5, <2>1, <2>3, <1>7 DEF Written
  <2> QED BY <2>2, <2>4, <2>5 DEF VersionOK, Size, Exists, Locked
<1>6. req[r].op = "lock" => Exists(v)
  BY <1>1, Facts DEF LockOK
<1> QED BY <1>2, <1>3, <1>4, <1>5, <1>6

\* Versions only grow, and only their owner's commit changes them.
LEMMA Grown ==
  ASSUME IInv, NEW r \in Requests, Commit(r), NEW l \in Labels
  PROVE  /\ rows[l] \subseteq rows'[l] /\ Size(l) <= Size(l)'
         /\ Size(l) \in Nat /\ Size(l)' \in Nat
         /\ Exists(l) => Exists(l)'
         /\ owner[l] # r => version'[l] = version[l] /\ rows'[l] = rows[l]
         /\ VersionOK(l)' /\ version'[l] \in VersionRange /\ rows'[l] \in SUBSET Row
<1>1. VersionOK(l) /\ version[l] \in VersionRange /\ Numbered(rows[l], Size(l))
  BY DEF IInv, RangesOK, VersionOK
<1>2. CASE req[r].v # l
  <2>1. version'[l] = version[l] /\ rows'[l] = rows[l]
    BY <1>2, CommitWrites
  <2> QED BY <1>1, <2>1 DEF VersionOK, Size, Exists, Locked, Numbered
<1>3. CASE req[r].v = l
  <2>1. VersionOK(l)' /\ version'[l] \in VersionRange /\ (owner[l] = r => Exists(l)')
    BY <1>3, CommitVersionOK
  <2>2. rows'[l] = rows[l] \cup req[r].rows
    BY <1>3, CommitWrites
  <2>3. owner[l] # r => version'[l] = version[l] /\ rows'[l] = rows[l]
    BY <1>3, NothingWritten
  <2>4. Exists(l) => Exists(l)'
    BY <2>1, <2>3 DEF Exists
  <2>5. Numbered(rows'[l], Cardinality(rows'[l]))
    BY <2>1 DEF VersionOK, Size
  <2>6. Cardinality(rows[l]) <= Cardinality(rows'[l])
    BY <1>1, <2>2, <2>5, NumberedPrefix DEF Size
  <2> QED BY <1>1, <2>1, <2>2, <2>3, <2>4, <2>5, <2>6 DEF Size, Numbered
<1> QED BY <1>2, <1>3

\* A commit keeps the invariant: what others have read is still no more than there is, and
\* what they have inserted still clashes with nothing.
LEMMA CommitOK ==
  ASSUME IInv, NEW r \in Requests, Commit(r)
  PROVE  IInv'
<1>1. RangesOK'
  <2>1. DOMAIN version' = Labels /\ DOMAIN rows' = Labels
    BY DEF Commit, IInv, RangesOK
  <2>2. version' = [l \in Labels |-> version'[l]] /\ rows' = [l \in Labels |-> rows'[l]]
    BY <2>1 DEF Commit, IInv, RangesOK
  <2>3. \A l \in Labels : version'[l] \in VersionRange /\ rows'[l] \in SUBSET Row
    BY Grown
  <2>4. version' \in [Labels -> VersionRange] /\ rows' \in [Labels -> SUBSET Row]
    BY <2>2, <2>3
  <2> QED BY <2>4, Done DEF RangesOK
<1>2. \A l \in Labels : VersionOK(l)'
  BY Grown
<1>3. OwnerOK(r)' /\ ReadsOK(r)' /\ AppendOK(r)' /\ LockOK(r)'
  <2>1. OwnerOK(r)'
    BY Done DEF OwnerOK
  <2>2. req[r].held <= Size(req[r].v) /\ req[r].held \in Nat /\ req[r].v \in Labels
        /\ (req[r].op = "create" => req[r].next = 0)
    BY Facts DEF ReadsOK, RequestRange
  <2>3. PICK v \in Labels : v = req[r].v
    BY <2>2
  <2>4. req[r].held <= Size(v)'
    BY <2>2, <2>3, Grown
  <2>5. ReadsOK(r)'
    BY <2>2, <2>3, <2>4, Done DEF ReadsOK, Size
  <2> QED BY <2>1, <2>5, Done DEF AppendOK, LockOK
<1>4. ASSUME NEW s \in Requests, s # r
      PROVE  OwnerOK(s)' /\ ReadsOK(s)' /\ AppendOK(s)' /\ LockOK(s)'
  <2>1. PICK v \in Labels : v = req[s].v
    BY Facts
  <2>2. req'[s] = req[s] /\ (\A l \in Labels : owner'[l] = s <=> owner[l] = s)
        /\ req[s] \in RequestRange
    BY <1>4, Facts, Done
  <2>3. OwnerOK(s) /\ ReadsOK(s) /\ AppendOK(s) /\ LockOK(s)
    BY Facts
  <2>4. \A l \in Labels : owner[l] = s => version'[l] = version[l] /\ rows'[l] = rows[l]
    BY <1>4, Grown
  <2>5. /\ rows[v] \subseteq rows'[v] /\ Size(v) <= Size(v)' /\ Size(v) \in Nat /\ Size(v)' \in Nat
        /\ Exists(v) => Exists(v)'
    BY Grown
  <2>6. OwnerOK(s)'
    <3>1. \A l \in Labels : owner[l] = s => (Exists(l)' <=> Exists(l))
      BY <2>4 DEF Exists
    <3> QED BY <2>1, <2>2, <2>3, <2>5, <3>1 DEF OwnerOK
  <2>7. ReadsOK(s)'
    <3>1. req[s].held \in Nat /\ req[s].next \in Nat
      BY <2>2 DEF RequestRange
    <3> QED BY <2>1, <2>2, <2>3, <2>5, <3>1 DEF ReadsOK, Exists, Size
  <2>8. AppendOK(s)'
    <3>1. ASSUME req[s].rows # {} PROVE ~Clash(req[s].rows, rows'[v])
      <4>1. ~Clash(req[s].rows, rows[v])
        BY <2>1, <2>3, <3>1 DEF AppendOK
      <4>2. CASE req[r].v = v
        <5>1. rows'[v] = rows[v] \cup req[r].rows
          BY <4>2, CommitWrites
        <5>2. ~Clash(req[s].rows, req[r].rows)
          BY <1>4, <2>1, <4>2 DEF IInv, Apart
        <5> QED BY <4>1, <5>1, <5>2 DEF Clash
      <4>3. CASE req[r].v # v
        BY <4>1, <4>3, CommitWrites
      <4> QED BY <4>2, <4>3
    <3>2. owner[v] = s => version'[v] = version[v]
      BY <2>4
    <3> QED BY <2>1, <2>2, <2>3, <3>1, <3>2 DEF AppendOK, Exists, Locked, NewRows, NewCount
  <2>9. LockOK(s)'
    <3>1. owner[v] = s => version'[v] = version[v] /\ rows'[v] = rows[v]
      BY <2>4
    <3>2. rows[v] \subseteq rows'[v]
      BY <2>5
    <3> QED BY <2>1, <2>2, <2>3, <3>1, <3>2 DEF LockOK, Exists, Locked, Size
  <2> QED BY <2>6, <2>7, <2>8, <2>9
<1>5. Apart'
  <2>1. \A s \in Requests : s # r => req'[s] = req[s]
    BY Done
  <2>2. req'[r].rows = {}
    BY Done
  <2> QED BY <2>1, <2>2 DEF IInv, Apart, Clash
<1> QED BY <1>1, <1>2, <1>3, <1>4, <1>5 DEF IInv

-----------------------------------------------------------------------------
\* Every step keeps the invariant.
THEOREM Inductive == IInv /\ [Next]_vars => IInv'
<1> SUFFICES ASSUME IInv, [Next]_vars PROVE IInv'
  OBVIOUS
<1>1. CASE UNCHANGED vars
  BY <1>1 DEF vars, IInv, RangesOK, Apart, VersionOK, OwnerOK, ReadsOK, AppendOK, LockOK,
     Size, Exists, Locked, NewRows, NewCount, Numbered, Clash
<1>2. ASSUME NEW r \in Requests, Begin(r) PROVE IInv'
  BY <1>2, BeginOK
<1>3. ASSUME NEW r \in Requests, Progress(r) PROVE IInv'
  BY <1>3, ChooseOK, InsertVersionOK, CopyOK, ReadMaxOK, ReadSeenOK, InsertOK, UpdateOK,
     LoadOK, LockVersionOK, CommitOK DEF Progress
<1>4. ASSUME NEW r \in Requests, Abort(r) PROVE IInv'
  BY <1>4, EndOK DEF Abort
<1> QED BY <1>1, <1>2, <1>3, <1>4 DEF Next

\* The invariant holds in every reachable state.
THEOREM InductiveInvariant == Spec => []IInv
BY InitOK, Inductive, PTL DEF Spec

-----------------------------------------------------------------------------
\* Type correctness.
THEOREM TypeCorrect == Spec => []TypeOK
<1>1. IInv => TypeOK
  BY DEF IInv, RangesOK, TypeOK, VersionRange, RequestRange, Pcs
<1> QED BY <1>1, InductiveInvariant, PTL

\* Whatever appends, promotions, clones and locks run at once, and whatever lists they are
\* given, the examples of a draft are numbered without a gap or a repeated id, and what the
\* hash of a locked version covers are its first examples.
THEOREM DigestsSound == Spec => []DigestSound
<1>1. ASSUME IInv, NEW l \in Drafts
      PROVE  LET n == Cardinality(rows[l]) IN
             /\ {x.ordinal : x \in rows[l]} = 0 .. n - 1
             /\ Cardinality({x.id : x \in rows[l]}) = n
             /\ version[l].count <= n
             /\ <<>> \notin Batches => version[l].count = n
  <2>1. VersionOK(l) /\ Exists(l) /\ ~Locked(l)
    BY <1>1 DEF IInv, Drafts, Existing
  <2>2. Numbered(rows[l], Cardinality(rows[l]))
    BY <2>1 DEF VersionOK, Size
  <2> QED BY <2>1, <2>2, NumberedSize DEF VersionOK, Size
<1>2. ASSUME IInv, NEW l \in Existing, Locked(l)
      PROVE  LET n == Cardinality(rows[l])
                 covered == Cardinality(version[l].hash) IN
             /\ version[l].hash = {x \in rows[l] : x.ordinal < covered}
             /\ covered # 0
             /\ version[l].count <= n
             /\ <<>> \notin Batches => version[l].count \in {covered, n}
  <2> DEFINE covered == Cardinality(version[l].hash)
  <2>1. VersionOK(l)
    BY <1>2 DEF IInv, Existing
  <2>2. /\ Numbered(rows[l], Size(l)) /\ Numbered(version[l].hash, covered)
        /\ version[l].hash \subseteq rows[l] /\ version[l].hash # {}
    BY <1>2, <2>1 DEF VersionOK
  <2>3. version[l].hash = {x \in rows[l] : x.ordinal < covered}
    BY <2>2, NumberedPrefix
  <2>4. covered # 0
    BY <2>2 DEF Numbered, Row
  <2> QED BY <1>2, <2>1, <2>3, <2>4 DEF VersionOK, Size
<1>3. IInv => DigestSound
  BY <1>1, <1>2 DEF DigestSound, DraftsDense, HashCoversPrefix
<1> QED BY <1>3, InductiveInvariant, PTL

\* "Immutable once locked": no step changes a locked version's examples, hash or count, with
\* any number of requests that read it before it was locked still to insert and to commit.
THEOREM LockedVersionsAreFrozen == Spec => LockedFrozen
<1>1. ASSUME IInv, [Next]_vars, NEW l \in Labels, Locked(l)
      PROVE  rows'[l] = rows[l] /\ version'[l] = version[l]
  <2>1. CASE UNCHANGED <<version, rows>>
    BY <2>1
  <2>2. ASSUME NEW r \in Requests, Commit(r)
        PROVE  rows'[l] = rows[l] /\ version'[l] = version[l]
    <3>1. CASE req[r].v = l
      BY <1>1, <2>2, <3>1, NothingChanged
    <3>2. CASE req[r].v # l
      BY <1>1, <2>2, <3>2, CommitWrites
    <3> QED BY <3>1, <3>2
  <2>3. UNCHANGED <<version, rows>> \/ \E r \in Requests : Commit(r)
    BY <1>1, ZenonT(40) DEF Next, vars, Begin, Progress, Start, BeginAppend, BeginLock, BeginCreate,
       BeginClone, BeginPromote, ChooseLabel, InsertVersion, CopyExamples, ReadMax, ReadSeen,
       InsertExamples, UpdateCount, LoadExamples, LockVersion, Abort, Fail
  <2> QED BY <2>1, <2>2, <2>3
<1>2. IInv /\ [Next]_vars =>
        [\A l \in Labels : Locked(l) => rows'[l] = rows[l] /\ version'[l] = version[l]]_vars
  BY <1>1
<1> QED BY <1>2, InductiveInvariant, PTL DEF Spec, LockedFrozen

=============================================================================
