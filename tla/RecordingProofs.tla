-------------------------- MODULE RecordingProofs --------------------------
(***************************************************************************)
(* What becomes of a recording, proved for every number of receivers and   *)
(* every size of queue and segment: its files were given what was counted, *)
(* a disk that failed ends it, and a stop comes to its end.                *)
(***************************************************************************)
EXTENDS RecorderProofs, WellFoundedInduction

-----------------------------------------------------------------------------
(* Induction, and sequences of sequences *)

\* A set that holds zero and is closed under the successor holds every number.
LEMMA Induction ==
    ASSUME NEW S, 0 \in S, \A n \in Nat : n \in S => n + 1 \in S
    PROVE  \A n \in Nat : n \in S
<1> DEFINE T == Nat \ S
<1> DEFINE R == OpToRel(<, Nat)
<1> SUFFICES ASSUME T # {} PROVE FALSE
  OBVIOUS
<1>1. IsWellFoundedOn(R, Nat)
  BY NatLessThanWellFounded
<1>2. T \subseteq Nat
  OBVIOUS
<1>3. \A x, y \in Nat : y < x => <<y, x>> \in R
  BY DEF OpToRel
<1> HIDE DEF R, T
<1>4. PICK x \in T : \A y \in T : ~(<<y, x>> \in R)
  BY <1>1, <1>2, WFMin
<1>5. x \in Nat /\ x # 0
  BY <1>2, <1>4 DEF T
<1>6. x - 1 \in Nat /\ x - 1 < x /\ (x - 1) + 1 = x
  BY <1>5
<1>7. x - 1 \in T
  BY <1>4, <1>5, <1>6 DEF T
<1> QED
  BY <1>3, <1>4, <1>5, <1>6, <1>7

\* The prefixes FlattenSeq builds, up to the m-th part.
IsTable(u, parts, m) ==
    u = [i \in 1..m |-> IF i = 1 THEN parts[i] ELSE u[i - 1] \o parts[i]]

LEMMA TableRow ==
    ASSUME NEW parts, NEW m \in Nat, NEW u, IsTable(u, parts, m)
    PROVE  \A i \in 1..m : u[i] = IF i = 1 THEN parts[i] ELSE u[i - 1] \o parts[i]
BY DEF IsTable

LEMMA TableExists ==
    ASSUME NEW parts, NEW m \in Nat
    PROVE  \E u : IsTable(u, parts, m)
<1> DEFINE S == {k \in Nat : \E u : IsTable(u, parts, k)}
<1>1. 0 \in S
  <2>1. IsTable(<< >>, parts, 0)
    BY DEF IsTable
  <2> QED
    BY <2>1
<1>2. ASSUME NEW k \in Nat, k \in S
      PROVE  k + 1 \in S
  <2>1. PICK u : IsTable(u, parts, k)
    BY <1>2
  <2> DEFINE last == IF k = 0 THEN parts[1] ELSE u[k] \o parts[k + 1]
  <2> DEFINE v == [i \in 1..(k + 1) |-> IF i = k + 1 THEN last ELSE u[i]]
  <2>2. \A i \in 1..k : v[i] = u[i]
    OBVIOUS
  <2>3. \A i \in 1..k : u[i] = IF i = 1 THEN parts[i] ELSE u[i - 1] \o parts[i]
    BY <2>1, TableRow
  <2>4. \A i \in 1..k : v[i] = IF i = 1 THEN parts[i] ELSE v[i - 1] \o parts[i]
    <3> SUFFICES ASSUME NEW i \in 1..k
                 PROVE  v[i] = IF i = 1 THEN parts[i] ELSE v[i - 1] \o parts[i]
      OBVIOUS
    <3>1. i # 1 => i - 1 \in 1..k
      OBVIOUS
    <3> QED
      BY <2>2, <2>3, <3>1
  <2>5. v[k + 1] = IF k + 1 = 1 THEN parts[k + 1] ELSE v[(k + 1) - 1] \o parts[k + 1]
    <3>1. k # 0 => (k + 1) - 1 = k /\ k \in 1..k /\ v[k] = u[k]
      OBVIOUS
    <3>2. v[k + 1] = last
      OBVIOUS
    <3> QED
      BY <3>1, <3>2
  <2> HIDE DEF v
  <2>6. v = [i \in 1..(k + 1) |-> v[i]]
    BY DEF v
  <2>7. \A i \in 1..(k + 1) : v[i] = IF i = 1 THEN parts[i] ELSE v[i - 1] \o parts[i]
    BY <2>4, <2>5
  <2>8. IsTable(v, parts, k + 1)
    BY <2>6, <2>7 DEF IsTable
  <2> QED
    BY <2>8
<1> HIDE DEF S
<1>3. m \in S
  BY <1>1, <1>2, Induction
<1> QED
  BY <1>3 DEF S

Agree(p, q, n) == \A i \in 1..n : p[i] = q[i]

\* A table agrees with that of a longer sequence of parts.
LEMMA TablesAgree ==
    ASSUME NEW p, NEW q, NEW a \in Nat, NEW b \in Nat, NEW u, NEW v,
           IsTable(u, p, a), IsTable(v, q, b),
           a <= b, Agree(p, q, a)
    PROVE  Agree(u, v, a)
<1> DEFINE S == {k \in Nat : k \in 1..a => u[k] = v[k]}
<1>1. \A i \in 1..a : /\ u[i] = IF i = 1 THEN p[i] ELSE u[i - 1] \o p[i]
                      /\ v[i] = IF i = 1 THEN q[i] ELSE v[i - 1] \o q[i]
  <2>1. 1..a \subseteq 1..b
    OBVIOUS
  <2> QED
    BY <2>1, TableRow
<1>2. 0 \in S
  OBVIOUS
<1>3. ASSUME NEW k \in Nat, k \in S
      PROVE  k + 1 \in S
  <2> SUFFICES ASSUME k + 1 \in 1..a
               PROVE  u[k + 1] = v[k + 1]
    OBVIOUS
  <2>1. k # 0 => k \in 1..a /\ u[k] = v[k] /\ (k + 1) - 1 = k
    BY <1>3
  <2>2. k = 0 => k + 1 = 1
    OBVIOUS
  <2>3. /\ u[k + 1] = IF k + 1 = 1 THEN p[k + 1] ELSE u[(k + 1) - 1] \o p[k + 1]
        /\ v[k + 1] = IF k + 1 = 1 THEN q[k + 1] ELSE v[(k + 1) - 1] \o q[k + 1]
        /\ p[k + 1] = q[k + 1]
    BY <1>1 DEF Agree
  <2> QED
    BY <2>1, <2>2, <2>3
<1> HIDE DEF S
<1>4. \A k \in Nat : k \in S
  BY <1>2, <1>3, Induction
<1> QED
  BY <1>4 DEF S, Agree

LEMMA FlattenEmpty == Seqs!FlattenSeq(<< >>) = << >>
BY DEF Seqs!FlattenSeq

LEMMA FlattenTable ==
    ASSUME NEW S, NEW p \in Seq(Seq(S)), p # << >>
    PROVE  \E u : IsTable(u, p, Len(p)) /\ Seqs!FlattenSeq(p) = u[Len(p)]
<1> DEFINE u == CHOOSE f : IsTable(f, p, Len(p))
<1>1. Len(p) # 0 /\ Len(p) \in Nat
  OBVIOUS
<1>2. IsTable(u, p, Len(p))
  BY <1>1, TableExists
<1>3. Seqs!FlattenSeq(p) = u[Len(p)]
  BY <1>1, SMT DEF Seqs!FlattenSeq, IsTable
<1> HIDE DEF u
<1> QED
  BY <1>2, <1>3

\* The last part comes last.
LEMMA FlattenLast ==
    ASSUME NEW S, NEW p \in Seq(Seq(S)), NEW part \in Seq(S)
    PROVE  Seqs!FlattenSeq(Append(p, part)) = Seqs!FlattenSeq(p) \o part
<1> DEFINE q == Append(p, part)
<1>1. /\ q \in Seq(Seq(S)) /\ q # << >> /\ Len(q) = Len(p) + 1 /\ Len(p) \in Nat
      /\ q[Len(q)] = part /\ \A i \in 1..Len(p) : q[i] = p[i]
  <2>1. /\ q \in Seq(Seq(S)) /\ Len(q) = Len(p) + 1 /\ q[Len(p) + 1] = part
        /\ \A i \in 1..Len(p) : q[i] = p[i]
    BY AppendProperties
  <2>2. Len(p) \in Nat
    OBVIOUS
  <2> HIDE DEF q
  <2> QED
    BY <2>1, <2>2
<1> HIDE DEF q
<1>2. PICK v : IsTable(v, q, Len(q)) /\ Seqs!FlattenSeq(q) = v[Len(q)]
  BY <1>1, FlattenTable
<1>3. v[Len(q)] = IF Len(q) = 1 THEN q[Len(q)] ELSE v[Len(q) - 1] \o q[Len(q)]
  BY <1>1, <1>2, TableRow
<1>4. CASE p = << >>
  <2>1. Len(q) = 1 /\ Seqs!FlattenSeq(q) = part
    BY <1>1, <1>2, <1>3, <1>4
  <2>2. << >> \o part = part
    OBVIOUS
  <2> QED
    BY <1>4, <2>1, <2>2, FlattenEmpty DEF q
<1>5. CASE p # << >>
  <2>1. PICK u : IsTable(u, p, Len(p)) /\ Seqs!FlattenSeq(p) = u[Len(p)]
    BY <1>5, FlattenTable
  <2>2. Len(p) \in 1..Len(p) /\ Len(q) # 1 /\ Len(q) - 1 = Len(p)
    BY <1>1, <1>5
  <2>3. \A i \in 1..Len(p) : u[i] = v[i]
    <3> DEFINE a == Len(p)
               b == Len(q)
    <3>1. a \in Nat /\ b \in Nat /\ a <= b /\ Agree(p, q, a)
      BY <1>1 DEF Agree
    <3>2. IsTable(u, p, a) /\ IsTable(v, q, b)
      BY <1>2, <2>1
    <3> HIDE DEF a, b
    <3>3. Agree(u, v, a)
      BY <3>1, <3>2, TablesAgree
    <3> QED
      BY <3>3 DEF a, Agree
  <2> QED
    BY <1>1, <1>2, <1>3, <2>1, <2>2, <2>3 DEF q
<1> QED
  BY <1>4, <1>5

LEMMA FlattenType ==
    ASSUME NEW S, NEW p \in Seq(Seq(S))
    PROVE  Seqs!FlattenSeq(p) \in Seq(S)
<1> DEFINE T == {k \in Nat : \A q \in Seq(Seq(S)) : Len(q) = k => Seqs!FlattenSeq(q) \in Seq(S)}
<1>1. 0 \in T
  <2>1. \A q \in Seq(Seq(S)) : Len(q) = 0 => q = << >>
    OBVIOUS
  <2>2. << >> \in Seq(S)
    OBVIOUS
  <2> QED
    BY <2>1, <2>2, FlattenEmpty
<1>2. ASSUME NEW k \in Nat, k \in T
      PROVE  k + 1 \in T
  <2> SUFFICES ASSUME NEW q \in Seq(Seq(S)), Len(q) = k + 1
               PROVE  Seqs!FlattenSeq(q) \in Seq(S)
    OBVIOUS
  <2> DEFINE front == SubSeq(q, 1, k)
  <2>1. front \in Seq(Seq(S)) /\ Len(front) = k /\ q[k + 1] \in Seq(S)
    OBVIOUS
  <2>2. q = Append(front, q[k + 1])
    OBVIOUS
  <2> HIDE DEF front
  <2>3. Seqs!FlattenSeq(q) = Seqs!FlattenSeq(front) \o q[k + 1]
    BY <2>1, <2>2, FlattenLast
  <2>4. Seqs!FlattenSeq(front) \in Seq(S)
    BY <1>2, <2>1
  <2> QED
    BY <2>1, <2>3, <2>4
<1> HIDE DEF T
<1>3. Len(p) \in T
  BY <1>1, <1>2, Induction
<1> QED
  BY <1>3 DEF T

\* What is appended to the last part is appended to the whole.
LEMMA FlattenGrows ==
    ASSUME NEW S, NEW p \in Seq(Seq(S)), NEW part \in Seq(S), NEW x \in S
    PROVE  Seqs!FlattenSeq(Append(p, Append(part, x)))
             = Append(Seqs!FlattenSeq(Append(p, part)), x)
<1>1. Append(part, x) \in Seq(S)
  OBVIOUS
<1>2. Seqs!FlattenSeq(p) \in Seq(S)
  BY FlattenType
<1>3. ASSUME NEW f \in Seq(S)
      PROVE  f \o Append(part, x) = Append(f \o part, x)
  OBVIOUS
<1> QED
  BY <1>1, <1>2, <1>3, FlattenLast

-----------------------------------------------------------------------------
(* The files were given what was counted *)

\* Of one stream: its segments are on the disk, they were given what was counted
\* as written, and that is older than what is still to settle.
StreamRecorded(s) ==
    /\ seg[s] >= 1
    /\ lost[s] = "rolled" => seg[s] >= 2
    /\ \A k \in 1..Segments(s) : NameOf(s, k) \in DOMAIN disk
    /\ Asked(s) = written[s]
    /\ \A i, j \in DOMAIN written[s] : i < j => written[s][i] < written[s][j]
    /\ \A i \in DOMAIN written[s] : written[s][i] <= Settled

Recorded == writer # "none" => \A s \in Stream : StreamRecorded(s)

\* The segments of a stream, each as the numbers of its blocks.
Parts(s) == [k \in 1..Segments(s) |-> Accepted(s, k)]

\* They are sequences of block numbers.
LEMMA PartsType ==
    ASSUME TypeOK, NEW s \in Stream, StreamRecorded(s)
    PROVE  /\ Segments(s) \in Nat
           /\ \A k \in 1..Segments(s) : Accepted(s, k) \in Seq(1..MaxTaken)
           /\ Parts(s) \in Seq(Seq(1..MaxTaken)) /\ Len(Parts(s)) = Segments(s)
<1>1. seg[s] \in Nat /\ lost[s] \in {"no", "unwanted", "failed", "rolled"}
  BY DEF TypeOK
<1>2. Segments(s) \in Nat
  BY <1>1 DEF StreamRecorded, Segments
<1>3. ASSUME NEW k \in 1..Segments(s)
      PROVE  Accepted(s, k) \in Seq(1..MaxTaken)
  <2> DEFINE data == disk[NameOf(s, k)].asked
  <2>1. NameOf(s, k) \in DOMAIN disk
    BY <1>3 DEF StreamRecorded
  <2>2. data \in Seq(Block)
    BY <2>1 DEF TypeOK, File
  <2> HIDE DEF data
  <2>3. Len(data) \in Nat /\ \A i \in 1..Len(data) : data[i].n \in 1..MaxTaken
    <3>1. Len(data) \in Nat /\ \A i \in 1..Len(data) : data[i] \in Block
      BY <2>2
    <3>2. \A b \in Block : b.n \in 1..MaxTaken
      BY DEF Block
    <3> QED
      BY <3>1, <3>2
  <2>4. Accepted(s, k) = [i \in 1..Len(data) |-> data[i].n]
    BY DEF Accepted, data
  <2> QED
    BY <2>3, <2>4
<1> QED
  BY <1>2, <1>3 DEF Parts

LEMMA NumbersAreNat ==
    ASSUME NEW w \in Seq(1..MaxTaken)
    PROVE  \A i \in DOMAIN w : w[i] \in Nat
<1> DEFINE T == 1..MaxTaken
<1>1. w \in Seq(T) /\ \A x \in T : x \in Nat
  OBVIOUS
<1> HIDE DEF T
<1> QED
  BY <1>1

\* A step that leaves the segments of a stream alone, and what they hold,
\* leaves the stream as it was.
LEMMA StreamKept ==
    ASSUME NEW s \in Stream, StreamRecorded(s),
           Segments(s)' = Segments(s), seg'[s] >= 1, lost'[s] = "rolled" => seg'[s] >= 2,
           \A k \in 1..Segments(s) : /\ NameOf(s, k) \in DOMAIN disk'
                                     /\ disk'[NameOf(s, k)].asked = disk[NameOf(s, k)].asked,
           written'[s] = written[s], Settled \in Nat, Settled' \in Nat, Settled <= Settled',
           written[s] \in Seq(1..MaxTaken)
    PROVE  StreamRecorded(s)'
<1>1. \A k \in 1..Segments(s) : Accepted(s, k)' = Accepted(s, k)
  BY DEF Accepted
<1>2. Asked(s)' = Asked(s)
  <2>1. [k \in 1..Segments(s)' |-> Accepted(s, k)'] = [k \in 1..Segments(s) |-> Accepted(s, k)]
    BY <1>1
  <2> QED
    BY <2>1 DEF Asked
<1>3. \A i \in DOMAIN written[s] : written[s][i] \in Nat /\ written[s][i] <= Settled
  BY NumbersAreNat DEF StreamRecorded
<1>4. \A i \in DOMAIN written[s] : written[s][i] <= Settled'
  BY <1>3
<1> QED
  BY <1>2, <1>4 DEF StreamRecorded

\* A block written to the open segment is the last of its stream.
LEMMA StreamWritten ==
    ASSUME TypeOK, NEW s \in Stream, StreamRecorded(s), lost[s] = "no",
           lost'[s] = lost[s], seg'[s] = seg[s], NEW b \in Block,
           \A k \in 1..seg[s] - 1 : disk'[NameOf(s, k)].asked = disk[NameOf(s, k)].asked,
           disk'[NameOf(s, seg[s])].asked = Append(disk[NameOf(s, seg[s])].asked, b),
           DOMAIN disk' = DOMAIN disk
    PROVE  Asked(s)' = Append(Asked(s), b.n)
<1> DEFINE m == seg[s] - 1
           P == [k \in 1..m |-> Accepted(s, k)]
           part == Accepted(s, seg[s])
<1>1. seg[s] \in Nat /\ m \in Nat /\ m + 1 = seg[s] /\ b.n \in 1..MaxTaken
  BY DEF TypeOK, StreamRecorded, Block
<1>2. Segments(s) = m + 1 /\ Segments(s)' = m + 1
  BY <1>1 DEF Segments
<1>3. part \in Seq(1..MaxTaken) /\ P \in Seq(Seq(1..MaxTaken)) /\ Len(P) = m
  <2>1. \A k \in 1..(m + 1) : Accepted(s, k) \in Seq(1..MaxTaken)
    BY <1>2, PartsType
  <2>2. seg[s] \in 1..(m + 1) /\ \A k \in 1..m : k \in 1..(m + 1)
    BY <1>1
  <2>3. part \in Seq(1..MaxTaken)
    BY <2>1, <2>2
  <2>4. P \in [1..m -> Seq(1..MaxTaken)]
    BY <2>1, <2>2
  <2> HIDE DEF m, P, part
  <2> QED
    BY <1>1, <2>3, <2>4
<1>4. Parts(s) = Append(P, part)
  BY <1>1, <1>2 DEF Parts
<1>5. \A k \in 1..m : Accepted(s, k)' = Accepted(s, k)
  BY DEF Accepted
<1>6. Accepted(s, seg[s])' = Append(part, b.n)
  <2> DEFINE data == disk[NameOf(s, seg[s])].asked
  <2>1. NameOf(s, seg[s]) \in DOMAIN disk
    BY <1>1, <1>2 DEF StreamRecorded
  <2>2. data \in Seq(Block)
    BY <2>1 DEF TypeOK, File
  <2> HIDE DEF data
  <2>3. /\ Append(data, b) \in Seq(Block) /\ Len(Append(data, b)) = Len(data) + 1
        /\ \A i \in 1..Len(data) : Append(data, b)[i] = data[i]
        /\ Append(data, b)[Len(data) + 1] = b
    BY <2>2, AppendProperties
  <2>4. part = [i \in 1..Len(data) |-> data[i].n]
    BY DEF Accepted, data
  <2>5. Accepted(s, seg[s])' = [i \in 1..Len(Append(data, b)) |-> Append(data, b)[i].n]
    BY DEF Accepted, data
  <2> QED
    BY <2>2, <2>3, <2>4, <2>5
<1>7. Parts(s)' = Append(P, Append(part, b.n))
  BY <1>1, <1>2, <1>5, <1>6 DEF Parts
<1> HIDE DEF P, part
<1>8. Seqs!FlattenSeq(Append(P, Append(part, b.n))) = Append(Seqs!FlattenSeq(Append(P, part)), b.n)
  <2> DEFINE T == 1..MaxTaken
  <2>1. P \in Seq(Seq(T)) /\ part \in Seq(T) /\ b.n \in T
    BY <1>1, <1>3
  <2> HIDE DEF T
  <2> QED
    BY <2>1, FlattenGrows
<1> QED
  BY <1>4, <1>7, <1>8 DEF Asked, Parts

\* A segment without blocks has no numbers.
LEMMA EmptyNumbers ==
    ASSUME NEW s, NEW k, disk'[NameOf(s, k)].asked = << >>
    PROVE  Accepted(s, k)' = << >>
<1> DEFINE data == disk'[NameOf(s, k)].asked
<1>1. Len(data) = 0
  OBVIOUS
<1>2. Accepted(s, k)' = [i \in 1..Len(data) |-> data[i].n]
  BY DEF Accepted
<1> HIDE DEF data
<1> QED
  BY <1>1, <1>2

\* A segment that is opened holds nothing yet.
LEMMA StreamRolled ==
    ASSUME TypeOK, NEW s \in Stream, StreamRecorded(s), lost[s] = "no",
           lost'[s] = lost[s], seg'[s] = seg[s] + 1,
           \A k \in 1..seg[s] : disk'[NameOf(s, k)].asked = disk[NameOf(s, k)].asked,
           disk'[NameOf(s, seg[s] + 1)].asked = << >>
    PROVE  Asked(s)' = Asked(s)
<1>1. seg[s] \in Nat /\ Segments(s) = seg[s] /\ Segments(s)' = seg[s] + 1
  BY DEF TypeOK, Segments
<1>2. \A k \in 1..seg[s] : Accepted(s, k)' = Accepted(s, k)
  BY DEF Accepted
<1>3. \A k \in Nat : k = seg[s] + 1 => Accepted(s, k)' = << >>
  BY EmptyNumbers
<1>4. Parts(s) \in Seq(Seq(1..MaxTaken)) /\ Len(Parts(s)) = seg[s]
  BY <1>1, PartsType
<1>5. Parts(s)' = Append(Parts(s), << >>)
  <2> DEFINE m == seg[s]
             old == [k \in Nat |-> Accepted(s, k)]
             new == [k \in Nat |-> Accepted(s, k)']
  <2>1. Parts(s) = [k \in 1..m |-> old[k]] /\ Parts(s)' = [k \in 1..(m + 1) |-> new[k]]
    BY <1>1 DEF Parts
  <2>2. m \in Nat /\ m + 1 \in Nat
    BY <1>1
  <2>3. (\A k \in 1..m : new[k] = old[k]) /\ new[m + 1] = << >>
    BY <2>2, <1>2, <1>3
  <2> HIDE DEF m, old, new
  <2> QED
    BY <2>1, <2>2, <2>3
<1> DEFINE T == 1..MaxTaken
           p == Parts(s)
<1>6. p \in Seq(Seq(T)) /\ << >> \in Seq(T)
  BY <1>4
<1> HIDE DEF T, p
<1>7. Seqs!FlattenSeq(Append(p, << >>)) = Seqs!FlattenSeq(p) \o << >>
  BY <1>6, FlattenLast
<1>8. Seqs!FlattenSeq(p) \in Seq(T)
  BY <1>6, FlattenType
<1>9. Seqs!FlattenSeq(p) \o << >> = Seqs!FlattenSeq(p)
  BY <1>8
<1> QED
  BY <1>5, <1>7, <1>9 DEF Asked, Parts, p

\* What was taken is settled and stays so for as long as the recording lasts.
LEMMA SettledGrows ==
    ASSUME IInv, Placed, [Next]_vars, writer # "none"
    PROVE  Settled \in Nat /\ Settled' \in Nat /\ Settled <= Settled'
<1>1. Settled \in Nat /\ Settled' \in Nat
  BY StepIInv DEF IInv, QueueIsTail
<1>2. Phase # "off"
  BY DEF Phase
<1>3. Settled' \in {Settled, Settled + 1}
  <2>1. [Promise!Next]_(Promise!vars)
    BY StepPromise
  <2> QED
    BY <2>1, <1>2 DEF Promise!Next, Promise!vars, Promise!Begin, Promise!Take,
                      Promise!Find, Promise!Settle, Promise!End, Promise!Finish
<1> QED
  BY <1>1, <1>3

\* The recording through a step that touches neither its segments nor what they
\* hold.
LEMMA RecordedKept ==
    ASSUME IInv, Placed, Recorded, [Next]_vars, writer' # "none" => writer # "none",
           seg' = seg, lost' = lost, written' = written, DOMAIN disk' = DOMAIN disk,
           \A n \in DOMAIN disk : disk'[n].asked = disk[n].asked
    PROVE  Recorded'
<1> SUFFICES ASSUME writer # "none", NEW s \in Stream
             PROVE  StreamRecorded(s)'
  BY DEF Recorded
<1>1. StreamRecorded(s)
  BY DEF Recorded
<1>2. Segments(s)' = Segments(s)
  BY DEF Segments
<1>3. written[s] \in Seq(1..MaxTaken)
  BY DEF IInv, TypeOK
<1>4. \A k \in 1..Segments(s) : NameOf(s, k) \in DOMAIN disk
  BY <1>1 DEF StreamRecorded
<1>5. seg[s] >= 1 /\ (lost[s] = "rolled" => seg[s] >= 2)
  BY <1>1 DEF StreamRecorded
<1> QED
  BY <1>1, <1>2, <1>3, <1>4, <1>5, SettledGrows, StreamKept

\* One segment without blocks is an empty recording.
LEMMA FlattenNothing == Seqs!FlattenSeq(Append(<< >>, << >>)) = << >>
<1>1. << >> \in Seq(Nat) /\ << >> \in Seq(Seq(Nat))
  OBVIOUS
<1>2. Seqs!FlattenSeq(Append(<< >>, << >>)) = Seqs!FlattenSeq(<< >>) \o << >>
  BY <1>1, FlattenLast
<1>3. << >> \o << >> = << >>
  OBVIOUS
<1> QED
  BY <1>2, <1>3, FlattenEmpty

\* A number past all the others goes to the end.
LEMMA AppendIncreases ==
    ASSUME NEW w \in Seq(1..MaxTaken), NEW m \in Nat,
           \A i, j \in DOMAIN w : i < j => w[i] < w[j],
           \A i \in DOMAIN w : w[i] <= m
    PROVE  /\ \A i, j \in DOMAIN Append(w, m + 1) :
                 i < j => Append(w, m + 1)[i] < Append(w, m + 1)[j]
           /\ \A i \in DOMAIN Append(w, m + 1) : Append(w, m + 1)[i] <= m + 1
<1> DEFINE v == Append(w, m + 1)
<1>1. \A i \in DOMAIN w : w[i] \in Nat
  BY NumbersAreNat
<1>2. /\ Len(w) \in Nat /\ DOMAIN w = 1..Len(w) /\ DOMAIN v = 1..(Len(w) + 1)
      /\ v[Len(w) + 1] = m + 1 /\ \A i \in 1..Len(w) : v[i] = w[i]
  <2>1. w \in Seq(Nat)
    BY <1>1
  <2> QED
    BY <2>1, AppendProperties
<1> HIDE DEF v
<1>3. \A i \in DOMAIN v : i # Len(w) + 1 => i \in DOMAIN w /\ v[i] = w[i]
  BY <1>2
<1>4. \A i \in DOMAIN v : v[i] \in Nat /\ v[i] <= m + 1 /\ (i # Len(w) + 1 => v[i] <= m)
  BY <1>1, <1>2, <1>3
<1>5. ASSUME NEW i \in DOMAIN v, NEW j \in DOMAIN v, i < j
      PROVE  v[i] < v[j]
  <2>1. i \in Nat /\ j \in Nat /\ i # Len(w) + 1
    BY <1>2, <1>5
  <2>2. CASE j = Len(w) + 1
    BY <1>2, <1>4, <2>1, <2>2
  <2>3. CASE j # Len(w) + 1
    BY <1>3, <1>5, <2>1, <2>3
  <2> QED
    BY <2>2, <2>3
<1> QED
  BY <1>4, <1>5 DEF v

\* No step loses a block that was written, or puts one out of order.
LEMMA StepRecorded ==
    ASSUME IInv, Placed, Recorded, [Next]_vars
    PROVE  Recorded'
<1> USE RecorderConstants DEF ui, shared, files, Freed
<1>0. TypeOK /\ Handshake /\ OpenFiles /\ GivenUp /\ TypeOK' /\ Disk(disk) /\ IInv'
  BY StepIInv DEF IInv, TypeOK, Disk
<1>1. CASE \E rx \in alive, want \in SUBSET Stream :
                     Start(rx, want) /\ gtk = "free" /\ UNCHANGED <<alive, tap>>
  <2>1. PICK want \in SUBSET Stream :
           \E rx \in alive : Start(rx, want) /\ gtk = "free" /\ UNCHANGED <<alive, tap>>
    BY <1>1
  <2>2. /\ DOMAIN disk' = {NameOf(t, 1) : t \in want}
        /\ \A n \in DOMAIN disk' : disk'[n] = Empty
    BY <2>1, FirstFilesOpen DEF Start
  <2>3. Settled' \in Nat
    BY <1>0 DEF IInv, QueueIsTail
  <2> SUFFICES ASSUME NEW s \in Stream
               PROVE  StreamRecorded(s)'
    BY DEF Recorded
  <2>4. /\ seg'[s] = 1 /\ written'[s] = << >>
        /\ lost'[s] = IF s \in want THEN "no" ELSE "unwanted"
    BY <2>1 DEF Start
  <2>5. CASE s \in want
    <3>1. Segments(s)' = 1
      BY <2>4, <2>5 DEF Segments
    <3>2. NameOf(s, 1) \in DOMAIN disk' /\ disk'[NameOf(s, 1)].asked = << >>
      BY <2>2, <2>5 DEF Empty
    <3>3. Accepted(s, 1)' = << >>
      BY <3>2, EmptyNumbers
    <3>4. [k \in 1..1 |-> Accepted(s, k)'] = Append(<< >>, << >>)
      BY <3>3
    <3>5. Seqs!FlattenSeq(Append(<< >>, << >>)) = << >>
      BY FlattenNothing
    <3>6. Asked(s)' = << >>
      BY <3>1, <3>4, <3>5 DEF Asked
    <3> QED
      BY <2>4, <2>5, <3>1, <3>2, <3>6 DEF StreamRecorded
  <2>6. CASE s \notin want
    <3>1. Segments(s)' = 0
      BY <2>4, <2>6 DEF Segments
    <3>2. [k \in 1..0 |-> Accepted(s, k)'] = << >>
      OBVIOUS
    <3>3. Asked(s)' = << >>
      BY <3>1, <3>2, FlattenEmpty DEF Asked
    <3> QED
      BY <2>4, <2>6, <3>1, <3>3 DEF StreamRecorded
  <2> QED
    BY <2>5, <2>6
<1>2. CASE \E want \in SUBSET Stream : \E opened \in SUBSET want :
                     StartFails(want, opened) /\ gtk = "free" /\ UNCHANGED <<alive, tap>>
  BY <1>0, <1>2 DEF StartFails, Handshake, Recorded
<1>3. CASE \E c \in {"toggle", "idle", "delete"} :
                     /\ StopBegin(c) /\ gtk = "free"
                     /\ tap' = tap /\ alive' \in SUBSET alive /\ stops' \in {stops, stops - 1}
                     /\ stops' \in Nat
  <2>1. /\ seg' = seg /\ lost' = lost /\ written' = written /\ disk' = disk
        /\ writer' = writer
    BY <1>3 DEF StopBegin
  <2> QED
    BY <2>1, RecordedKept
<1>4. CASE StopJoin
  BY <1>4 DEF StopJoin, Recorded
<1>5. CASE \E rx \in Rx : TapTaken(rx)
  <2>1. /\ seg' = seg /\ lost' = lost /\ written' = written /\ disk' = disk
        /\ writer' = writer
    BY <1>5 DEF TapTaken
  <2> QED
    BY <2>1, RecordedKept
<1>6. CASE WriterTakes
  <2>1. /\ seg' = seg /\ lost' = lost /\ written' = written /\ disk' = disk
        /\ writer' # "none" => writer # "none"
    BY <1>6 DEF WriterTakes
  <2> QED
    BY <2>1, RecordedKept
<1>7. CASE WriterLeaves
  <2>1. path["iq"] \in DOMAIN disk \cup {NULL} /\ path["af"] \in DOMAIN disk \cup {NULL}
    BY <1>0 DEF OpenFiles, Stream
  <2>2. PICK d \in Closings(disk, path["iq"]) : disk' \in Closings(d, path["af"])
    BY <1>7 DEF WriterLeaves
  <2>3. /\ Disk(d) /\ DOMAIN d = DOMAIN disk
        /\ \A m \in DOMAIN disk : d[m].asked = disk[m].asked
    BY <1>0, <2>1, ClosedFile
  <2>4. DOMAIN disk' = DOMAIN d /\ \A m \in DOMAIN d : disk'[m].asked = d[m].asked
    BY <2>1, <2>2, <2>3, ClosedFile
  <2>5. seg' = seg /\ lost' = lost /\ written' = written /\ writer # "none"
    BY <1>7 DEF WriterLeaves
  <2> QED
    BY <2>3, <2>4, <2>5, RecordedKept
<1>8. CASE WriteSkipped
  <2>1. /\ seg' = seg /\ lost' = lost /\ written' = written /\ disk' = disk
        /\ writer' # "none" => writer # "none"
    BY <1>8 DEF WriteSkipped
  <2> QED
    BY <2>1, RecordedKept
<1>9. CASE WriteDone
  <2> DEFINE w == block.stream
  <2>1. /\ block \in Block /\ w \in Stream /\ block.n = Settled + 1 /\ block # NULL
        /\ Settled \in Nat /\ writer = "write"
    BY <1>9, NextToSettle DEF WriteDone, IInv, Handshake
  <2>2. path[w] = NameOf(w, seg[w]) /\ path[w] \in DOMAIN disk /\ lost[w] = "no"
    BY <1>0, <1>9, <2>1 DEF WriteDone, OpenFiles, GivenUp
  <2>3. /\ disk' = [disk EXCEPT ![path[w]].asked = Append(@, block)]
        /\ written' = [written EXCEPT ![w] = Append(@, block.n)]
        /\ seg' = seg /\ lost' = lost
    BY <1>9 DEF WriteDone
  <2>4. /\ DOMAIN disk' = DOMAIN disk
        /\ disk'[path[w]].asked = Append(disk[path[w]].asked, block)
        /\ \A n \in DOMAIN disk : n # path[w] => disk'[n] = disk[n]
    <3>1. disk[path[w]] \in File
      BY <1>0, <2>2 DEF Disk
    <3> QED
      BY <1>0, <2>2, <2>3, <3>1 DEF Disk, File
  <2>5. Settled' = Settled + 1
    <3>1. log' = log /\ rec_q' = rec_q /\ block' = NULL
      BY <1>9 DEF WriteDone
    <3>2. Len(log) \in Nat /\ Len(rec_q) \in Nat
      BY <1>0 DEF TypeOK
    <3> QED
      BY <2>1, <3>1, <3>2 DEF Settled
  <2> SUFFICES ASSUME NEW s \in Stream
               PROVE  StreamRecorded(s)'
    BY DEF Recorded
  <2>6. StreamRecorded(s)
    BY <2>1 DEF Recorded
  <2>7. written[s] \in Seq(1..MaxTaken) /\ seg[s] \in Nat /\ seg[s] >= 1
    BY <1>0, <2>6 DEF TypeOK, StreamRecorded
  <2>8. CASE s # w
    <3>1. Segments(s)' = Segments(s) /\ seg'[s] = seg[s] /\ lost'[s] = lost[s]
      BY <2>3 DEF Segments
    <3>2. written'[s] = written[s]
      BY <1>0, <2>1, <2>3, <2>8 DEF TypeOK
    <3>3. \A k \in 1..Segments(s) : NameOf(s, k) \in DOMAIN disk /\ NameOf(s, k) # path[w]
      BY <2>2, <2>6, <2>8 DEF StreamRecorded, NameOf
    <3>4. lost[s] = "rolled" => seg[s] >= 2
      BY <2>6 DEF StreamRecorded
    <3> QED
      BY <2>1, <2>4, <2>5, <2>6, <2>7, <3>1, <3>2, <3>3, <3>4, StreamKept
  <2>9. CASE s = w
    <3>1. seg'[s] = seg[s] /\ lost'[s] = lost[s] /\ lost[s] = "no"
      BY <2>2, <2>3, <2>9
    <3>2. written'[s] = Append(written[s], block.n)
      BY <1>0, <2>1, <2>3, <2>9 DEF TypeOK
    <3>3. Segments(s) = seg[s] /\ Segments(s)' = seg[s]
      BY <3>1 DEF Segments
    <3>4. \A k \in 1..seg[s] : NameOf(s, k) \in DOMAIN disk
      BY <2>6, <3>3 DEF StreamRecorded
    <3>5. \A k \in 1..seg[s] - 1 : disk'[NameOf(s, k)].asked = disk[NameOf(s, k)].asked
      <4>1. \A k \in 1..seg[s] - 1 : k \in 1..seg[s] /\ k # seg[s]
        BY <2>7
      <4>2. \A k \in 1..seg[s] - 1 : NameOf(s, k) \in DOMAIN disk /\ NameOf(s, k) # path[w]
        BY <2>2, <2>9, <3>4, <4>1 DEF NameOf
      <4> QED
        BY <2>4, <4>2
    <3>6. disk'[NameOf(s, seg[s])].asked = Append(disk[NameOf(s, seg[s])].asked, block)
      BY <2>2, <2>4, <2>9
    <3>7. Asked(s)' = Append(Asked(s), block.n)
      BY <1>0, <2>1, <2>4, <2>6, <3>1, <3>5, <3>6, StreamWritten
    <3>8. /\ Asked(s) = written[s]
          /\ \A i, j \in DOMAIN written[s] : i < j => written[s][i] < written[s][j]
          /\ \A i \in DOMAIN written[s] : written[s][i] <= Settled
      BY <2>6 DEF StreamRecorded
    <3>9. /\ \A i, j \in DOMAIN written'[s] : i < j => written'[s][i] < written'[s][j]
          /\ \A i \in DOMAIN written'[s] : written'[s][i] <= Settled'
      BY <2>1, <2>5, <2>7, <3>2, <3>8, AppendIncreases
    <3> QED
      BY <2>4, <2>7, <3>1, <3>2, <3>3, <3>4, <3>7, <3>8, <3>9 DEF StreamRecorded
  <2> QED
    BY <2>8, <2>9
<1>10. CASE WriteFails
  <2> DEFINE w == block.stream
  <2>1. block \in Block /\ w \in Stream /\ writer = "write"
    BY <1>10, NextToSettle DEF WriteFails, IInv
  <2>2. path[w] = NameOf(w, seg[w]) /\ path[w] \in DOMAIN disk /\ lost[w] = "no"
    BY <1>0, <1>10, <2>1 DEF WriteFails, OpenFiles, GivenUp
  <2>3. DOMAIN disk' = DOMAIN disk /\ \A m \in DOMAIN disk : disk'[m].asked = disk[m].asked
    <3>1. disk' \in Closings(disk, path[w])
      BY <1>10 DEF WriteFails
    <3> QED
      BY <1>0, <2>2, <3>1, ClosedFile
  <2>4. /\ seg' = seg /\ written' = written
        /\ lost'[w] = "failed" /\ \A t \in Stream : t # w => lost'[t] = lost[t]
    BY <1>0, <1>10, <2>1 DEF WriteFails, TypeOK
  <2>5. Settled \in Nat /\ Settled' \in Nat /\ Settled <= Settled'
    BY <2>1, SettledGrows
  <2> SUFFICES ASSUME NEW s \in Stream
               PROVE  StreamRecorded(s)'
    BY DEF Recorded
  <2>6. StreamRecorded(s)
    BY <2>1 DEF Recorded
  <2>7. /\ written[s] \in Seq(1..MaxTaken) /\ seg[s] \in Nat /\ seg[s] >= 1
        /\ lost[s] = "rolled" => seg[s] >= 2
        /\ \A k \in 1..Segments(s) : NameOf(s, k) \in DOMAIN disk
    BY <1>0, <2>6 DEF TypeOK, StreamRecorded
  <2>8. Segments(s)' = Segments(s) /\ (lost'[s] = "rolled" => seg[s] >= 2)
    BY <2>2, <2>4, <2>7 DEF Segments
  <2> QED
    BY <2>3, <2>4, <2>5, <2>6, <2>7, <2>8, StreamKept
<1>11. CASE RollSegment
  <2> DEFINE w == block.stream
             next == NameOf(w, seg[w] + 1)
  <2>1. block \in Block /\ w \in Stream /\ writer = "write"
    BY <1>11, NextToSettle DEF RollSegment, IInv
  <2>2. path[w] = NameOf(w, seg[w]) /\ path[w] \in DOMAIN disk /\ lost[w] = "no"
    BY <1>0, <1>11, <2>1 DEF RollSegment, OpenFiles, GivenUp
  <2>d. PICK d \in Closings(disk, path[w]) : disk' = Opened(d, next)
    BY <1>11 DEF RollSegment
  <2>3. Disk(d) /\ DOMAIN d = DOMAIN disk /\ \A m \in DOMAIN disk : d[m].asked = disk[m].asked
    BY <1>0, <2>2, ClosedFile
  <2>4. /\ written' = written /\ lost' = lost
        /\ seg'[w] = seg[w] + 1 /\ \A t \in Stream : t # w => seg'[t] = seg[t]
    BY <1>0, <1>11, <2>1 DEF RollSegment, TypeOK
  <2>o. /\ DOMAIN disk' = DOMAIN d \cup {next} /\ disk'[next].asked = << >>
        /\ \A m \in DOMAIN d : m # next => disk'[m] = d[m]
    <3>1. seg[w] + 1 \in Nat
      <4>1. seg \in [Stream -> Nat]
        BY <1>0 DEF TypeOK
      <4> QED
        BY <2>1, <4>1
    <3>2. next \in Name
      BY <2>1, <3>1 DEF NameOf, Name
    <3> HIDE DEF next
    <3>3. /\ DOMAIN disk' = DOMAIN d \cup {next}
          /\ disk'[next] = Empty
          /\ \A m \in DOMAIN d : m # next => disk'[m] = d[m]
      BY <2>3, <2>d, <3>2, OpenedFile
    <3> QED
      BY <3>3 DEF Empty
  <2>5. Settled \in Nat /\ Settled' \in Nat /\ Settled <= Settled'
    BY <2>1, SettledGrows
  <2> SUFFICES ASSUME NEW s \in Stream
               PROVE  StreamRecorded(s)'
    BY DEF Recorded
  <2>6. StreamRecorded(s)
    BY <2>1 DEF Recorded
  <2>7. /\ written[s] \in Seq(1..MaxTaken) /\ seg[s] \in Nat /\ seg[s] >= 1
        /\ lost[s] = "rolled" => seg[s] >= 2
        /\ \A k \in 1..Segments(s) : NameOf(s, k) \in DOMAIN disk
    BY <1>0, <2>6 DEF TypeOK, StreamRecorded
  <2>8. CASE s # w
    <3>1. Segments(s)' = Segments(s) /\ seg'[s] = seg[s] /\ lost'[s] = lost[s]
      BY <2>4, <2>8 DEF Segments
    <3>2. \A k \in 1..Segments(s) : NameOf(s, k) # next
      BY <2>8 DEF NameOf
    <3> QED
      BY <2>3, <2>o, <2>4, <2>5, <2>6, <2>7, <3>1, <3>2, StreamKept
  <2>9. CASE s = w
    <3>1. /\ lost[s] = "no" /\ lost'[s] = lost[s] /\ seg'[s] = seg[s] + 1
          /\ Segments(s) = seg[s] /\ Segments(s)' = seg[s] + 1
      BY <2>2, <2>4, <2>9 DEF Segments
    <3>2. \A k \in 1..seg[s] : NameOf(s, k) \in DOMAIN disk /\ NameOf(s, k) # next
      BY <2>7, <2>9, <3>1 DEF NameOf
    <3>3. \A k \in 1..seg[s] : disk'[NameOf(s, k)].asked = disk[NameOf(s, k)].asked
      BY <2>3, <2>o, <3>2
    <3>4. disk'[NameOf(s, seg[s] + 1)].asked = << >>
      BY <2>o, <2>9
    <3>5. Asked(s)' = Asked(s)
      BY <1>0, <2>6, <3>1, <3>3, <3>4, StreamRolled
    <3>6. \A k \in 1..(seg[s] + 1) : NameOf(s, k) \in DOMAIN disk'
      <4>1. \A k \in 1..(seg[s] + 1) : k \in 1..seg[s] \/ k = seg[s] + 1
        BY <2>7
      <4> QED
        BY <2>3, <2>o, <2>9, <3>2, <4>1
    <3>7. \A i \in DOMAIN written[s] : written[s][i] <= Settled'
      <4>1. \A i \in DOMAIN written[s] : written[s][i] \in Nat
        BY <2>7, NumbersAreNat
      <4> QED
        BY <2>5, <2>6, <4>1 DEF StreamRecorded
    <3> QED
      BY <2>4, <2>6, <2>7, <3>1, <3>5, <3>6, <3>7 DEF StreamRecorded
  <2> QED
    BY <2>8, <2>9
<1>12. CASE RollFails
  <2> DEFINE w == block.stream
  <2>1. block \in Block /\ w \in Stream /\ writer = "write"
    BY <1>12, NextToSettle DEF RollFails, IInv
  <2>2. path[w] = NameOf(w, seg[w]) /\ path[w] \in DOMAIN disk /\ lost[w] = "no"
    BY <1>0, <1>12, <2>1 DEF RollFails, OpenFiles, GivenUp
  <2>3. DOMAIN disk' = DOMAIN disk /\ \A m \in DOMAIN disk : disk'[m].asked = disk[m].asked
    <3>1. disk' \in Closings(disk, path[w])
      BY <1>12 DEF RollFails
    <3> QED
      BY <1>0, <2>2, <3>1, ClosedFile
  <2>4. /\ written' = written
        /\ seg'[w] = seg[w] + 1 /\ \A t \in Stream : t # w => seg'[t] = seg[t]
        /\ lost'[w] = "rolled" /\ \A t \in Stream : t # w => lost'[t] = lost[t]
    BY <1>0, <1>12, <2>1 DEF RollFails, TypeOK
  <2>5. Settled \in Nat /\ Settled' \in Nat /\ Settled <= Settled'
    BY <2>1, SettledGrows
  <2> SUFFICES ASSUME NEW s \in Stream
               PROVE  StreamRecorded(s)'
    BY DEF Recorded
  <2>6. StreamRecorded(s)
    BY <2>1 DEF Recorded
  <2>7. /\ written[s] \in Seq(1..MaxTaken) /\ seg[s] \in Nat /\ seg[s] >= 1
        /\ lost[s] = "rolled" => seg[s] >= 2
        /\ \A k \in 1..Segments(s) : NameOf(s, k) \in DOMAIN disk
    BY <1>0, <2>6 DEF TypeOK, StreamRecorded
  <2>8. /\ Segments(s)' = Segments(s) /\ seg'[s] >= 1
        /\ lost'[s] = "rolled" => seg'[s] >= 2
    <3>1. CASE s = w
      <4>1. Segments(s) = seg[s] /\ Segments(s)' = seg'[s] - 1 /\ seg'[s] = seg[s] + 1
        BY <2>2, <2>4, <3>1 DEF Segments
      <4> QED
        BY <2>7, <4>1
    <3>2. CASE s # w
      BY <2>4, <2>7, <3>2 DEF Segments
    <3> QED
      BY <3>1, <3>2
  <2> QED
    BY <2>3, <2>4, <2>5, <2>6, <2>7, <2>8, StreamKept
<1>13. CASE /\ UNCHANGED <<gtk, shared, files, writer, block>>
            /\ label' = label \/ (label' = Synced(rec_rx) /\ ~rec_writer)
            /\ alive' \in SUBSET alive /\ stops' \in Nat
            /\ tap' \in [Rx -> Stream \cup {NULL}]
  <2>1. /\ seg' = seg /\ lost' = lost /\ written' = written /\ disk' = disk
        /\ writer' = writer
    BY <1>13
  <2> QED
    BY <2>1, RecordedKept
<1> QED
  BY <1>0, <1>1, <1>2, <1>3, <1>4, <1>5, <1>6, <1>7, <1>8, <1>9, <1>10, <1>11, <1>12, <1>13, Steps

LEMMA InitRecorded == Init => Recorded
BY DEF Init, Recorded

\* Where no close fell short, what landed is what was asked for.
LEMMA AllLanded ==
    ASSUME NEW s \in Stream, Whole(s)
    PROVE  OnDisk(s) = Asked(s)
<1>1. \A k \in 1..Segments(s) : Landed(s, k) = Accepted(s, k)
  BY DEF Whole, Landed, Accepted
<1>2. [k \in 1..Segments(s) |-> Landed(s, k)] = [k \in 1..Segments(s) |-> Accepted(s, k)]
  BY <1>1
<1> QED
  BY <1>2 DEF OnDisk, Asked

\* Added up, the segments of each stream were given the blocks the recorder says
\* it wrote, once each and in the order of the air, through every split, failed
\* write and stop (rec_write_block, roll_segment, stop_locked); and where close_wav
\* found every segment whole, that is what they hold.
THEOREM SegmentsHold == Spec => []SegmentsHoldRecording
<1>1. Recorded => SegmentsHoldRecording
  BY AllLanded DEF Recorded, StreamRecorded, SegmentsHoldRecording
<1>2. IInv /\ Placed /\ Recorded /\ [Next]_vars => Recorded'
  BY StepRecorded
<1> QED
  BY <1>1, <1>2, InitRecorded, AlwaysIInv, AlwaysPlaced, PTL DEF Spec

-----------------------------------------------------------------------------
(* A disk that fails *)

Failed == \E s \in Stream : lost[s] = "failed"

\* A write that failed has asked for the stop, and a recording was asked for
\* some stream.
Reported ==
    rec_rx # NULL => /\ Failed => stops > 0
                     /\ \E s \in Stream : lost[s] # "unwanted"

LEMMA InitReported == Init => Reported
BY DEF Init, Reported

\* Only rec_write_failed gives a stream up as failed, and it counts a stop.
LEMMA StepReported ==
    ASSUME IInv, Reported, [Next]_vars
    PROVE  Reported'
<1> USE RecorderConstants DEF ui, shared, files, Freed
<1>0. TypeOK /\ Handshake /\ Handshake'
  BY StepIInv DEF IInv
<1>2. CASE WriteFails
  <2>1. block.stream \in Stream
    BY <1>2, NextToSettle DEF WriteFails
  <2>2. stops \in Nat /\ lost' = [lost EXCEPT ![block.stream] = "failed"] /\ stops' = stops + 1
    BY <1>0, <1>2 DEF TypeOK, WriteFails
  <2>3. stops' > 0
    BY <2>2
  <2>4. \E s \in Stream : lost'[s] # "unwanted"
    BY <1>0, <2>1, <2>2 DEF TypeOK
  <2> QED
    BY <2>3, <2>4 DEF Reported
<1>3. CASE RollFails
  <2>1. block.stream \in Stream
    BY <1>3, NextToSettle DEF RollFails
  <2>2. /\ rec_rx' = rec_rx /\ stops' = stops
        /\ lost' = [lost EXCEPT ![block.stream] = "rolled"]
    BY <1>3 DEF RollFails
  <2>3. Failed' => Failed
    BY <1>0, <2>1, <2>2 DEF Failed, TypeOK
  <2>4. \E s \in Stream : lost'[s] # "unwanted"
    BY <1>0, <2>1, <2>2 DEF TypeOK
  <2> QED
    BY <2>2, <2>3, <2>4 DEF Reported
<1>4. CASE UNCHANGED <<rec_rx, stops, lost>>
  BY <1>4 DEF Reported, Failed
<1>5. CASE rec_rx' = NULL
  BY <1>5 DEF Reported
<1>6. CASE \E rx \in alive, want \in SUBSET Stream :
                     Start(rx, want) /\ gtk = "free" /\ UNCHANGED <<alive, tap>>
  <2>1. PICK want \in SUBSET Stream :
           want # {} /\ lost' = [s \in Stream |-> IF s \in want THEN "no" ELSE "unwanted"]
    BY <1>6 DEF Start
  <2> QED
    BY <2>1 DEF Reported, Failed
<1>7. CASE \E want \in SUBSET Stream : \E opened \in SUBSET want :
                     StartFails(want, opened) /\ gtk = "free" /\ UNCHANGED <<alive, tap>>
  BY <1>0, <1>5, <1>7 DEF StartFails
<1>9. CASE \E rx \in Rx : TapTaken(rx)
  BY <1>4, <1>9 DEF TapTaken
<1>10. CASE StopJoin \/ WriterTakes \/ WriterLeaves \/ WriteSkipped \/ WriteDone \/ RollSegment
  BY <1>4, <1>10 DEF StopJoin, WriterTakes, WriterLeaves, WriteSkipped, WriteDone, RollSegment
<1>11. CASE StopIdle
  BY <1>0, <1>5, <1>11 DEF StopIdle, StopBegin, Handshake
<1>12. CASE Delete \/ UNCHANGED vars
  BY <1>4, <1>5, <1>12 DEF Delete, DeleteRecorded, DeleteOther, StopBegin, vars
<1>13. CASE TapStep
  BY <1>4, <1>9, <1>13 DEF TapStep, TapRefused, TapCheck
<1>14. CASE Toggle
  BY <1>5, <1>6, <1>7, <1>14 DEF Toggle, StopBegin
<1> QED
  BY <1>2, <1>3, <1>10, <1>11, <1>12, <1>13, <1>14 DEF Next, GtkStep, WriterStep

\* A stream that failed is not resumed while its recording goes on.
LEMMA FailedStays ==
    ASSUME IInv, Failed, rec_rx # NULL, [Next]_vars
    PROVE  Failed'
<1> USE RecorderConstants DEF ui, shared, files, Freed
<1>1. TypeOK
  BY DEF IInv
<1>2. CASE UNCHANGED lost
  BY <1>2 DEF Failed
<1>3. CASE WriteFails
  BY <1>1, <1>3, NextToSettle DEF WriteFails, Failed, TypeOK
<1>4. CASE RollFails
  <2>1. /\ block.stream \in Stream /\ lost[block.stream] = "no"
        /\ lost' = [lost EXCEPT ![block.stream] = "rolled"]
    BY <1>4, NextToSettle DEF RollFails, IInv, GivenUp
  <2> QED
    BY <1>1, <2>1 DEF Failed, TypeOK
<1>5. CASE Toggle
  BY <1>2, <1>5 DEF Toggle, Start, StartFails, StopBegin
<1>6. CASE StopIdle \/ Delete \/ StopJoin \/ TapStep
  BY <1>2, <1>6 DEF StopIdle, Delete, DeleteRecorded, DeleteOther, StopBegin, StopJoin,
                    TapStep, TapRefused, TapTaken, TapCheck
<1>7. CASE WriterTakes \/ WriterLeaves \/ WriteSkipped \/ WriteDone \/ RollSegment
  BY <1>2, <1>7 DEF WriterTakes, WriterLeaves, WriteSkipped, WriteDone, RollSegment
<1>8. CASE UNCHANGED vars
  BY <1>2, <1>8 DEF vars
<1> QED
  BY <1>3, <1>4, <1>5, <1>6, <1>7, <1>8 DEF Next, GtkStep, WriterStep

LEMMA AlwaysReported == Spec => []Reported
  BY InitReported, StepReported, AlwaysIInv, PTL DEF Spec

\* A write that failed has either ended its recording or has a stop pending
\* that will: no other stop can have used up the one it asked for
\* (rec_write_failed, rec_stop_idle).
FailureIsReported == Failed => rec_rx = NULL \/ stops > 0

THEOREM FailureReaches == Spec => []FailureIsReported
<1>1. Reported => FailureIsReported
  BY DEF Reported, FailureIsReported
<1> QED
  BY <1>1, AlwaysReported, PTL

\* The one way to a button at Stop over a recording that writes nothing is a
\* continuation that roll_segment could not open: with every stream intact,
\* unwanted or failed in a write, ButtonMeansWriting is true.
ButtonMeansWritingUnlessRolled ==
    (\A s \in Stream : lost[s] # "rolled") => ButtonMeansWriting

THEOREM OnlyRollsMislead == Spec => []ButtonMeansWritingUnlessRolled
<1>1. IInv /\ Reported => ButtonMeansWritingUnlessRolled
  <2> SUFFICES ASSUME IInv, Reported, \A s \in Stream : lost[s] # "rolled",
                      gtk = "free", stops = 0, label = "Stop"
               PROVE  \E s \in Stream : path[s] # NULL
    BY DEF ButtonMeansWritingUnlessRolled, ButtonMeansWriting
  <2>1. rec_rx # NULL
    BY DEF IInv, ButtonTellsRecording
  <2>2. writer \in {"take", "write"}
    BY <2>1 DEF IInv, Handshake
  <2>3. PICK s \in Stream : lost[s] # "unwanted"
    BY <2>1 DEF Reported
  <2>4. ~Failed
    BY <2>1 DEF Reported
  <2>5. lost[s] = "no"
    BY <2>3, <2>4 DEF IInv, TypeOK, Failed
  <2> QED
    BY <2>2, <2>5 DEF IInv, GivenUp
<1> QED
  BY <1>1, AlwaysIInv, AlwaysReported, PTL

-----------------------------------------------------------------------------
(* What happens in the end *)

\* rec_stop_idle is dispatched as the fairness of Spec says, with the condition
\* under which it can run written out: the GTK thread is not in a join, and a
\* callback is pending.
StopIdleCanRun == gtk = "free" /\ stops > 0
StopIdleIsFair == []<>~StopIdleCanRun \/ []<><<StopIdle>>_vars

Running == Init /\ [][Next]_vars

\* A write that failed ends its recording without anybody pressing Stop.
THEOREM FailureEnds == Running /\ StopIdleIsFair => FailureEndsRecording
<1> DEFINE P == Failed /\ rec_rx # NULL
           Q == rec_rx = NULL
           Inv == IInv /\ Reported
<1>1. Inv /\ P => StopIdleCanRun
  BY DEF IInv, Handshake, Reported, StopIdleCanRun
<1>2. Inv /\ P /\ [Next]_vars => P' \/ Q'
  <2> SUFFICES ASSUME Inv, P, [Next]_vars, rec_rx' # NULL
               PROVE  Failed'
    OBVIOUS
  <2> QED
    BY FailedStays DEF IInv
<1>3. Inv /\ P /\ <<StopIdle>>_vars => Q'
  BY DEF StopIdle, StopBegin, IInv, Handshake
<1>4. Init => Inv
  BY InitIInv, InitReported
<1>5. Inv /\ [Next]_vars => Inv'
  BY StepIInv, StepReported
<1>6. Failed => P \/ Q
  OBVIOUS
<1>7. (Failed ~> Q) => FailureEndsRecording
  BY DEF FailureEndsRecording, Failed
<1> HIDE DEF P, Q, Inv
<1> QED
  BY <1>1, <1>2, <1>3, <1>4, <1>5, <1>6, <1>7, PTL DEF Running, StopIdleIsFair

\* What the writer has left to do before a stop can return: to take and write
\* each block of the queue, perhaps rolling its segment first, and to leave.
Remaining ==
    CASE writer = "take"  -> 3 * Len(rec_q) + 1
      [] writer = "write" -> 3 * Len(rec_q) + (IF bytes[block.stream] >= SplitAt THEN 3 ELSE 2)
      [] OTHER            -> 0

\* The writer can take a step.
WriterCanRun ==
    \/ writer = "take" /\ (rec_q # << >> \/ ~rec_writer_run)
    \/ writer = "write"

LEMMA RemainingBound ==
    ASSUME IInv
    PROVE  Remaining \in Nat /\ Remaining <= 3 * QueueMax + 3
<1>1. Len(rec_q) \in Nat /\ Len(rec_q) <= QueueMax /\ QueueMax \in Nat
  BY RecorderConstants DEF IInv, TypeOK
<1> QED
  BY <1>1 DEF Remaining

\* Each step of the writer leaves less, whichever way it ends: written, skipped,
\* failed or rolled.
LEMMA WriterGetsOn ==
    ASSUME IInv, WriterStep
    PROVE  Remaining' < Remaining
<1> USE RecorderConstants DEF shared, files, Freed
<1>0. TypeOK /\ Handshake /\ Len(rec_q) \in Nat
  BY DEF IInv, TypeOK
<1>1. CASE WriterTakes
  <2>1. Len(rec_q') = Len(rec_q) - 1 /\ Len(rec_q') \in Nat
    BY <1>0, <1>1, HeadTailProperties DEF WriterTakes, TypeOK
  <2>2. Remaining = 3 * Len(rec_q) + 1
    BY <1>1 DEF WriterTakes, Remaining
  <2>3. Remaining' <= 3 * Len(rec_q') + 3
    BY <1>1, <2>1 DEF WriterTakes, Remaining
  <2>4. Remaining' \in Nat /\ Remaining \in Nat
    BY <1>1, <2>1, <2>2 DEF WriterTakes, Remaining
  <2> QED
    BY <1>0, <2>1, <2>2, <2>3, <2>4
<1>2. CASE WriterLeaves
  BY <1>0, <1>2 DEF WriterLeaves, Remaining
<1>3. CASE WriteSkipped \/ WriteDone \/ WriteFails \/ RollFails
  <2>1. writer = "write" /\ writer' = "take" /\ rec_q' = rec_q
    BY <1>3 DEF WriteSkipped, WriteDone, WriteFails, RollFails
  <2> QED
    BY <1>0, <2>1 DEF Remaining
<1>4. CASE RollSegment
  <2>1. block.stream \in Stream
    BY <1>4, NextToSettle DEF RollSegment
  <2>2. /\ writer = "write" /\ writer' = "write" /\ rec_q' = rec_q /\ block' = block
        /\ bytes[block.stream] >= SplitAt /\ bytes'[block.stream] = 0
    BY <1>0, <1>4, <2>1 DEF RollSegment, TypeOK
  <2>3. ~(bytes'[block'.stream] >= SplitAt)
    BY <2>2
  <2> QED
    BY <1>0, <2>2, <2>3 DEF Remaining
<1> QED
  BY <1>1, <1>2, <1>3, <1>4 DEF WriterStep

\* The join of stop_locked is never waited for in vain: the writer can run or
\* has left, each of its steps leaves it less to do, nothing gives it more (the
\* taps are refused and nothing can be started), and once it has left, only the
\* return of the stop changes that.
StopComesCloser ==
    [][ gtk # "free" =>
          /\ WriterCanRun \/ writer = "exit"
          /\ Remaining <= 3 * QueueMax + 3
          /\ WriterStep => Remaining' < Remaining
          /\ ~WriterStep /\ ~StopJoin => Remaining' = Remaining /\ gtk' = gtk ]_vars

THEOREM StopGetsOn == Spec => StopComesCloser
<1>1. ASSUME IInv, [Next]_vars, gtk # "free"
      PROVE  /\ WriterCanRun \/ writer = "exit"
             /\ Remaining <= 3 * QueueMax + 3
             /\ WriterStep => Remaining' < Remaining
             /\ ~WriterStep /\ ~StopJoin => Remaining' = Remaining /\ gtk' = gtk
  <2>1. ~rec_writer_run /\ rec_rx = NULL /\ writer # "none" /\ ~rec_writer
    BY <1>1 DEF IInv, Handshake
  <2>2. WriterCanRun \/ writer = "exit"
    BY <1>1, <2>1 DEF WriterCanRun, IInv, TypeOK
  <2>3. ASSUME ~WriterStep, ~StopJoin
        PROVE  Remaining' = Remaining /\ gtk' = gtk
    <3>1. UNCHANGED <<gtk, writer, rec_q, block, bytes>>
      <4>1. CASE TapStep
        BY <1>1, <2>1, <4>1 DEF TapStep, TapRefused, TapTaken, TapCheck, ui, shared, files
      <4>2. CASE UNCHANGED vars
        BY <4>2 DEF vars, ui, shared, files
      <4> QED
        BY <1>1, <2>1, <2>3, <4>1, <4>2
           DEF Next, GtkStep, Toggle, StopIdle, Delete, DeleteRecorded, DeleteOther
    <3> QED
      BY <3>1 DEF Remaining
  <2> QED
    BY <1>1, <2>2, <2>3, RemainingBound, WriterGetsOn
<1> QED
  BY <1>1, AlwaysIInv, PTL DEF Spec, StopComesCloser
=============================================================================
