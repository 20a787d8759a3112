------------------------ MODULE UnifiedStreamProofs ------------------------
(***************************************************************************)
(* What unified streams promise, for any streams, any transfers and any    *)
(* bound of the compiler's cache.  Section 1 is about loops: what the      *)
(* recursive functions of the model say of one more round.  Section 2 is   *)
(* about the compiler and what it keeps, section 3 about the transfers of  *)
(* the interpreter.                                                        *)
(***************************************************************************)
EXTENDS UnifiedStream, FiniteSetTheorems, SequenceTheorems,
        WellFoundedInduction, TLAPS

-----------------------------------------------------------------------------
(* 1. Loops.                                                               *)

\* Every set of numbers that is not empty has a least element.
LEMMA LeastNumber ==
    ASSUME NEW S \in SUBSET Nat, S # {}
    PROVE  \E i \in S : \A j \in S : i <= j
<1> DEFINE Less == OpToRel(<, Nat)
<1>1. PICK i \in S : \A j \in S : <<j, i>> \notin Less
  BY WFMin, NatLessThanWellFounded, Zenon
<1>2. \A j, k \in Nat : j < k => <<j, k>> \in Less
  BY Zenon DEF OpToRel
<1> HIDE DEF Less
<1>3. \A j \in S : ~ j < i
  BY <1>1, <1>2, Zenon
<1> QED
  BY <1>3

\* One round of the loop in QueryZoneTouches, after x.
Round(zones, req, x, i) ==
    IF InOrder[i] \in zones THEN TouchZone(req, x, InOrder[i]) ELSE x

Nothing == [hit |-> FALSE, list |-> <<>>]

LEMMA TouchedRounds ==
    ASSUME NEW zones, NEW req, NEW n \in Nat, n = Cardinality(Streams)
    PROVE  /\ Touched(zones, req)[0] = Nothing
           /\ \A i \in 1 .. n : Touched(zones, req)[i]
                                  = Round(zones, req, Touched(zones, req)[i - 1], i)
<1> DEFINE Solves(k, f) ==
             f = [i \in 0 .. k |->
                    IF i = 0 THEN Nothing ELSE Round(zones, req, f[i - 1], i)]
           Bad == {k \in 0 .. n : \A f : ~ Solves(k, f)}
<1>1. \E f : Solves(n, f)
  <2> SUFFICES ASSUME Bad # {} PROVE FALSE
    OBVIOUS
  <2>1. PICK k \in Bad : \A j \in Bad : k <= j
    <3>1. Bad \in SUBSET Nat
      OBVIOUS
    <3> HIDE DEF Bad
    <3> QED
      BY <3>1, LeastNumber
  <2>2. k # 0
    <3> SUFFICES \E f : Solves(0, f)
      OBVIOUS
    <3> DEFINE f == [i \in 0 .. 0 |-> Nothing]
    <3>1. Solves(0, f)
      OBVIOUS
    <3> QED
      BY <3>1
  <2>3. PICK g : Solves(k - 1, g)
    <3>1. k \in 1 .. n
      <4>1. k \in 0 .. n
        BY Zenon
      <4> HIDE DEF Bad
      <4> QED
        BY <2>2, <4>1
    <3>2. k - 1 \in 0 .. n /\ k - 1 \notin Bad
      <4> HIDE DEF Bad
      <4> QED
        BY <2>1, <3>1
    <3> HIDE DEF Solves
    <3> QED
      BY <3>2, Zenon
  <2> DEFINE h == [i \in 0 .. k |->
                     IF i < k THEN g[i] ELSE Round(zones, req, g[k - 1], k)]
  <2>4. \A i \in 0 .. k : h[i] = IF i = 0 THEN Nothing
                                 ELSE Round(zones, req, h[i - 1], i)
    <3> TAKE i \in 0 .. k
    <3>1. CASE i = 0
      BY <2>2, <2>3, <3>1
    <3>2. CASE i \in 1 .. k - 1
      <4>1. h[i] = g[i] /\ h[i - 1] = g[i - 1]
        BY <3>2
      <4>2. g[i] = Round(zones, req, g[i - 1], i)
        BY <2>3, <3>2
      <4> QED
        BY <4>1, <4>2, <3>2
    <3>3. CASE i = k
      BY <2>2, <3>3
    <3> QED
      BY <3>1, <3>2, <3>3
  <2>5. Solves(k, h)
    BY <2>4
  <2> QED
    BY <2>1, <2>5
<1>2. Touched(zones, req) = CHOOSE f : Solves(n, f)
  BY DEF Touched, Round, Nothing
<1>3. Solves(n, Touched(zones, req))
  BY <1>1, <1>2
<1> QED
  BY <1>3

\* One round of RunOperation, after x.
MoveRound(req, list, x, i) ==
    IF list[i] \in Writable
    THEN Append(x, Piece(req, list[i], Len(x) + 1, Len(list)))
    ELSE x

LEMMA MovedRounds ==
    ASSUME NEW req, NEW list, NEW n \in Nat, n = Len(list)
    PROVE  /\ Moved(req, list)[0] = <<>>
           /\ \A i \in 1 .. n : Moved(req, list)[i]
                                  = MoveRound(req, list, Moved(req, list)[i - 1], i)
<1> DEFINE Solves(k, f) ==
             f = [i \in 0 .. k |->
                    IF i = 0 THEN <<>> ELSE MoveRound(req, list, f[i - 1], i)]
           Bad == {k \in 0 .. n : \A f : ~ Solves(k, f)}
<1>1. \E f : Solves(n, f)
  <2> SUFFICES ASSUME Bad # {} PROVE FALSE
    OBVIOUS
  <2>1. PICK k \in Bad : \A j \in Bad : k <= j
    <3>1. Bad \in SUBSET Nat
      OBVIOUS
    <3> HIDE DEF Bad
    <3> QED
      BY <3>1, LeastNumber
  <2>2. k # 0
    <3> SUFFICES \E f : Solves(0, f)
      OBVIOUS
    <3> DEFINE f == [i \in 0 .. 0 |-> <<>>]
    <3>1. Solves(0, f)
      OBVIOUS
    <3> QED
      BY <3>1
  <2>3. PICK g : Solves(k - 1, g)
    <3>1. k \in 1 .. n
      <4>1. k \in 0 .. n
        BY Zenon
      <4> HIDE DEF Bad
      <4> QED
        BY <2>2, <4>1
    <3>2. k - 1 \in 0 .. n /\ k - 1 \notin Bad
      <4> HIDE DEF Bad
      <4> QED
        BY <2>1, <3>1
    <3> HIDE DEF Solves
    <3> QED
      BY <3>2, Zenon
  <2> DEFINE h == [i \in 0 .. k |->
                     IF i < k THEN g[i] ELSE MoveRound(req, list, g[k - 1], k)]
  <2>4. \A i \in 0 .. k : h[i] = IF i = 0 THEN <<>>
                                 ELSE MoveRound(req, list, h[i - 1], i)
    <3> TAKE i \in 0 .. k
    <3>1. CASE i = 0
      BY <2>2, <2>3, <3>1
    <3>2. CASE i \in 1 .. k - 1
      <4>1. h[i] = g[i] /\ h[i - 1] = g[i - 1]
        BY <3>2
      <4>2. g[i] = MoveRound(req, list, g[i - 1], i)
        BY <2>3, <3>2
      <4> QED
        BY <4>1, <4>2, <3>2
    <3>3. CASE i = k
      BY <2>2, <3>3
    <3> QED
      BY <3>1, <3>2, <3>3
  <2>5. Solves(k, h)
    BY <2>4
  <2> QED
    BY <2>1, <2>5
<1>2. Moved(req, list) = CHOOSE f : Solves(n, f)
  BY DEF Moved, MoveRound
<1>3. Solves(n, Moved(req, list))
  BY <1>1, <1>2
<1> QED
  BY <1>3

\* One piece emitted, after x.
EmitRound(pieces, x, i) == RunEmitter(x, pieces[i])

NoCodeYet(refs) == [refs |-> refs, code |-> <<>>]

LEMMA EmittedRounds ==
    ASSUME NEW refs, NEW pieces, NEW n \in Nat, n = Len(pieces)
    PROVE  /\ Emitted(refs, pieces)[0] = NoCodeYet(refs)
           /\ \A i \in 1 .. n : Emitted(refs, pieces)[i]
                                  = EmitRound(pieces, Emitted(refs, pieces)[i - 1], i)
<1> DEFINE Solves(k, f) ==
             f = [i \in 0 .. k |->
                    IF i = 0 THEN NoCodeYet(refs) ELSE EmitRound(pieces, f[i - 1], i)]
           Bad == {k \in 0 .. n : \A f : ~ Solves(k, f)}
<1>1. \E f : Solves(n, f)
  <2> SUFFICES ASSUME Bad # {} PROVE FALSE
    OBVIOUS
  <2>1. PICK k \in Bad : \A j \in Bad : k <= j
    <3>1. Bad \in SUBSET Nat
      OBVIOUS
    <3> HIDE DEF Bad
    <3> QED
      BY <3>1, LeastNumber
  <2>2. k # 0
    <3> SUFFICES \E f : Solves(0, f)
      OBVIOUS
    <3> DEFINE f == [i \in 0 .. 0 |-> NoCodeYet(refs)]
    <3>1. Solves(0, f)
      OBVIOUS
    <3> QED
      BY <3>1
  <2>3. PICK g : Solves(k - 1, g)
    <3>1. k \in 1 .. n
      <4>1. k \in 0 .. n
        BY Zenon
      <4> HIDE DEF Bad
      <4> QED
        BY <2>2, <4>1
    <3>2. k - 1 \in 0 .. n /\ k - 1 \notin Bad
      <4> HIDE DEF Bad
      <4> QED
        BY <2>1, <3>1
    <3> HIDE DEF Solves
    <3> QED
      BY <3>2, Zenon
  <2> DEFINE h == [i \in 0 .. k |->
                     IF i < k THEN g[i] ELSE EmitRound(pieces, g[k - 1], k)]
  <2>4. \A i \in 0 .. k : h[i] = IF i = 0 THEN NoCodeYet(refs)
                                 ELSE EmitRound(pieces, h[i - 1], i)
    <3> TAKE i \in 0 .. k
    <3>1. CASE i = 0
      BY <2>2, <2>3, <3>1
    <3>2. CASE i \in 1 .. k - 1
      <4>1. h[i] = g[i] /\ h[i - 1] = g[i - 1]
        BY <3>2
      <4>2. g[i] = EmitRound(pieces, g[i - 1], i)
        BY <2>3, <3>2
      <4> QED
        BY <4>1, <4>2, <3>2
    <3>3. CASE i = k
      BY <2>2, <3>3
    <3> QED
      BY <3>1, <3>2, <3>3
  <2>5. Solves(k, h)
    BY <2>4
  <2> QED
    BY <2>1, <2>5
<1>2. Emitted(refs, pieces) = CHOOSE f : Solves(n, f)
  BY DEF Emitted, EmitRound, NoCodeYet
<1>3. Solves(n, Emitted(refs, pieces))
  BY <1>1, <1>2
<1> QED
  BY <1>3

-----------------------------------------------------------------------------
(* 2. The compiler and what it keeps.                                      *)

Pieces == [stream : Streams, position : Int, buffer : Int, count : Int]

LEMMA PieceType ==
    ASSUME NEW req \in Requests, NEW s \in Streams, NEW i, NEW n
    PROVE  Piece(req, s, i, n) \in Pieces /\ Piece(req, s, i, n).stream = s
<1>1. Base[s] \in Int /\ Size[s] \in Int /\ req.addr \in Int /\ req.count \in Int
  BY UnifiedAssumption
<1> QED
  BY <1>1 DEF Piece, Pieces

\* The query lists zones of the table only.
LEMMA TouchedType ==
    ASSUME NEW zones, NEW req, NEW n \in Nat, n = Cardinality(Streams), NEW i \in 0 .. n
    PROVE  Touched(zones, req)[i].list \in Seq(zones)
<1> DEFINE found == Touched(zones, req)
           Bad == {k \in 0 .. n : found[k].list \notin Seq(zones)}
<1>0. /\ found[0] = Nothing
      /\ \A k \in 1 .. n : found[k] = Round(zones, req, found[k - 1], k)
  BY TouchedRounds
<1> SUFFICES ASSUME Bad # {} PROVE FALSE
  OBVIOUS
<1> HIDE DEF found
<1>1. PICK k \in Bad : \A j \in Bad : k <= j
  <2>1. Bad \in SUBSET Nat
    OBVIOUS
  <2> HIDE DEF Bad
  <2> QED
    BY <2>1, LeastNumber
<1>2. k \in 0 .. n /\ found[k].list \notin Seq(zones) /\ k # 0
  <2>1. found[0].list \in Seq(zones)
    BY <1>0 DEF Nothing
  <2> QED
    BY <1>1, <2>1
<1>3. found[k - 1].list \in Seq(zones) /\ found[k] = Round(zones, req, found[k - 1], k)
  BY <1>0, <1>1, <1>2
<1>4. CASE InOrder[k] \in zones
  <2> DEFINE s == InOrder[k]
             x == found[k - 1]
             later == IF x.hit /\ Base[s] < req.addr + req.count THEN <<s>> ELSE <<>>
             first == IF Holds(s, req.addr) THEN <<s>> ELSE <<>>
  <2>1. found[k] = [hit |-> x.hit \/ Holds(s, req.addr), list |-> x.list \o later \o first]
    BY <1>3, <1>4, Zenon DEF Round, TouchZone
  <2>2. later \in Seq(zones) /\ first \in Seq(zones)
    BY <1>4
  <2> HIDE DEF later, first, s
  <2>4. x.list \o later \o first \in Seq(zones)
    BY <1>3, <2>2
  <2> QED
    BY <1>2, <2>1, <2>4
<1>5. CASE InOrder[k] \notin zones
  BY <1>2, <1>3, <1>5 DEF Round
<1> QED
  BY <1>4, <1>5

LEMMA QueryType ==
    ASSUME NEW zones, NEW req
    PROVE  QueryZoneTouches(zones, req) \in Seq(zones)
<1>1. Cardinality(Streams) \in Nat
  BY FS_CardinalityType, UnifiedAssumption
<1> QED
  BY <1>1, TouchedType DEF QueryZoneTouches

\* An operation is made of pieces of the listed streams.
LEMMA OperationType ==
    ASSUME NEW req \in Requests, NEW zones \in SUBSET Streams, NEW list \in Seq(zones)
    PROVE  /\ RunOperation(req, list) \in Seq(Pieces)
           /\ \A p \in ToSet(RunOperation(req, list)) : p.stream \in zones
<1> DEFINE n == Len(list)
           moved == Moved(req, list)
           Here == {p \in Pieces : p.stream \in zones}
           Bad == {k \in 0 .. n : moved[k] \notin Seq(Here)}
<1>0. /\ n \in Nat
      /\ moved[0] = <<>>
      /\ \A k \in 1 .. n : moved[k] = MoveRound(req, list, moved[k - 1], k)
  BY MovedRounds
<1>6. RunOperation(req, list) = moved[n]
  BY DEF RunOperation
<1> HIDE DEF moved
<1>1. \A k \in 0 .. n : moved[k] \in Seq(Here)
  <2> SUFFICES ASSUME Bad # {} PROVE FALSE
    OBVIOUS
  <2>1. PICK k \in Bad : \A j \in Bad : k <= j
    <3>1. Bad \in SUBSET Nat
      BY <1>0
    <3> HIDE DEF Bad
    <3> QED
      BY <3>1, LeastNumber
  <2>2. k \in 0 .. n /\ moved[k] \notin Seq(Here) /\ k # 0
    <3>1. moved[0] \in Seq(Here)
      BY <1>0
    <3> QED
      BY <2>1, <3>1
  <2>3. k \in 1 .. n /\ moved[k - 1] \in Seq(Here)
    BY <1>0, <2>1, <2>2
  <2>4. list[k] \in zones /\ list[k] \in Streams
    BY <2>3
  <2>5. Piece(req, list[k], Len(moved[k - 1]) + 1, Len(list)) \in Here
    BY <2>4, PieceType
  <2> HIDE DEF Here
  <2> DEFINE x == moved[k - 1]
             e == Piece(req, list[k], Len(x) + 1, Len(list))
  <2>6. moved[k] = IF list[k] \in Writable THEN Append(x, e) ELSE x
    BY <1>0, <2>3, Zenon DEF MoveRound
  <2>7. x \in Seq(Here) /\ e \in Here
    BY <2>3, <2>5
  <2> HIDE DEF x, e
  <2>8. moved[k] \in Seq(Here)
    BY <2>6, <2>7
  <2> QED
    BY <2>2, <2>8
<1>2. moved[n] \in Seq(Here)
  <2>1. n \in 0 .. n
    BY <1>0
  <2> QED
    BY <1>1, <2>1
<1>3. \A p \in Here : p \in Pieces /\ p.stream \in zones
  OBVIOUS
<1> HIDE DEF Here
<1>4. \A p \in ToSet(moved[n]) : p \in Here
  BY <1>2 DEF ToSet
<1>5. moved[n] \in Seq(Pieces)
  BY <1>2, <1>3
<1> QED
  BY <1>3, <1>4, <1>5, <1>6

\* The line of code c makes the piece p, or moves it to the first stream.
Makes(refs, c, p) ==
    /\ c.ref \in DOMAIN refs
    /\ c.position = p.position /\ c.buffer = p.buffer /\ c.count = p.count
    /\ refs[c.ref] = p.stream \/ c.ref = 1

\* More references than refs, by streams of S.
Extends(refs, more, S) ==
    /\ more \in Seq(Streams) /\ Len(refs) <= Len(more)
    /\ \A j \in 1 .. Len(refs) : more[j] = refs[j]
    /\ \A j \in 1 .. Len(more) : j <= Len(refs) \/ more[j] \in S

LEMMA MakesMore ==
    ASSUME NEW refs \in Seq(Streams), NEW more, NEW S, Extends(refs, more, S),
           NEW c, NEW p, Makes(refs, c, p)
    PROVE  Makes(more, c, p)
BY DEF Extends, Makes

\* Resolving a stream finds or adds a reference, to it or to the first one.
LEMMA Resolved ==
    ASSUME NEW refs \in Seq(Streams), NEW s \in Streams
    PROVE  LET r == ResolveStreamReference(refs, s)
           IN  /\ Extends(refs, r.refs, {s}) /\ r.index \in DOMAIN r.refs
               /\ r.refs[r.index] = s \/ r.index = 1
<1> DEFINE r == ResolveStreamReference(refs, s)
           earlier == {i \in 1 .. Len(refs) - 1 : refs[i] = s}
<1>0. Len(refs) \in Nat
  OBVIOUS
<1>1. CASE s \in ToSet(refs)
  <2>1. r = [refs |-> refs,
             index |-> IF earlier = {} THEN 1 ELSE CHOOSE i \in earlier : TRUE]
    BY <1>1 DEF ResolveStreamReference
  <2>2. 1 \in DOMAIN refs
    BY <1>0, <1>1 DEF ToSet
  <2>3. earlier # {} => (CHOOSE i \in earlier : TRUE) \in earlier
    OBVIOUS
  <2>4. r.index \in DOMAIN refs /\ (refs[r.index] = s \/ r.index = 1) /\ r.refs = refs
    BY <1>0, <2>1, <2>2, <2>3, SMTT(60)
  <2> QED
    BY <1>0, <2>4 DEF Extends
<1>2. CASE s \notin ToSet(refs)
  <2>1. r = [refs |-> Append(refs, s), index |-> Len(refs) + 1]
    BY <1>2 DEF ResolveStreamReference
  <2> QED
    BY <1>0, <2>1 DEF Extends
<1> QED
  BY <1>1, <1>2

-----------------------------------------------------------------------------
\* Emitting keeps the references there are and makes a line for every piece.
Emitting(refs, pieces, k, x) ==
    /\ Extends(refs, x.refs, {pieces[i].stream : i \in 1 .. k})
    /\ x.code \in Seq([ref : Int, position : Int, buffer : Int, count : Int])
    /\ Len(x.code) = k
    /\ \A i \in 1 .. k : Makes(x.refs, x.code[i], pieces[i])

LEMMA EmitNext ==
    ASSUME NEW refs \in Seq(Streams), NEW pieces \in Seq(Pieces),
           NEW k \in 1 .. Len(pieces), NEW x, Emitting(refs, pieces, k - 1, x)
    PROVE  Emitting(refs, pieces, k, EmitRound(pieces, x, k))
<1> DEFINE p == pieces[k]
           r == ResolveStreamReference(x.refs, p.stream)
           c == [ref |-> r.index, position |-> p.position,
                 buffer |-> p.buffer, count |-> p.count]
<1>0. /\ Len(pieces) \in Nat /\ Len(refs) \in Nat /\ p.stream \in Streams
      /\ p.position \in Int /\ p.buffer \in Int /\ p.count \in Int
  <2>1. Len(pieces) \in Nat /\ Len(refs) \in Nat /\ p \in Pieces
    OBVIOUS
  <2> HIDE DEF p
  <2> QED
    BY <2>1 DEF Pieces
<1>1. EmitRound(pieces, x, k) = [refs |-> r.refs, code |-> Append(x.code, c)]
  BY DEF EmitRound, RunEmitter
<1>2. x.refs \in Seq(Streams) /\ Len(x.refs) \in Nat /\ Len(refs) <= Len(x.refs)
  BY DEF Emitting, Extends
<1>3. /\ Extends(x.refs, r.refs, {p.stream}) /\ r.index \in DOMAIN r.refs
      /\ r.refs[r.index] = p.stream \/ r.index = 1
  BY <1>0, <1>2, Resolved
<1> HIDE DEF r
<1>4. r.refs \in Seq(Streams) /\ Len(r.refs) \in Nat /\ r.index \in Int
  BY <1>3 DEF Extends
<1>5. Extends(refs, r.refs, {pieces[i].stream : i \in 1 .. k})
  <2>1. Len(refs) <= Len(r.refs)
    BY <1>0, <1>2, <1>3, <1>4 DEF Extends
  <2>2. ASSUME NEW j \in 1 .. Len(refs) PROVE r.refs[j] = refs[j]
    <3>1. x.refs[j] = refs[j] /\ j \in 1 .. Len(x.refs)
      BY <1>0, <1>2 DEF Emitting, Extends
    <3> QED
      BY <1>3, <3>1 DEF Extends
  <2>3. ASSUME NEW j \in 1 .. Len(r.refs), ~ j <= Len(refs)
        PROVE  r.refs[j] \in {pieces[i].stream : i \in 1 .. k}
    <3>1. CASE j \in 1 .. Len(x.refs)
      <4>1. r.refs[j] = x.refs[j]
        BY <1>3, <3>1 DEF Extends
      <4>2. x.refs[j] \in {pieces[i].stream : i \in 1 .. k - 1}
        BY <2>3, <3>1 DEF Emitting, Extends
      <4> QED
        BY <4>1, <4>2
    <3>2. CASE j \notin 1 .. Len(x.refs)
      <4>1. r.refs[j] = p.stream
        BY <1>2, <1>3, <1>4, <3>2 DEF Extends
      <4> QED
        BY <1>0, <4>1
    <3> QED
      BY <3>1, <3>2
  <2> QED
    BY <1>4, <2>1, <2>2, <2>3 DEF Extends
<1>6. c \in [ref : Int, position : Int, buffer : Int, count : Int]
  BY <1>0, <1>4
<1>7. Makes(r.refs, c, p)
  BY <1>3 DEF Makes
<1> HIDE DEF c
<1> DEFINE lines == [ref : Int, position : Int, buffer : Int, count : Int]
<1>10. x.code \in Seq(lines) /\ Len(x.code) = k - 1 /\ c \in lines
  BY <1>6 DEF Emitting
<1>8. /\ Append(x.code, c) \in Seq(lines)
      /\ Len(Append(x.code, c)) = k
      /\ \A i \in 1 .. k : Append(x.code, c)[i] = IF i = k THEN c ELSE x.code[i]
  <2> HIDE DEF lines
  <2> QED
    BY <1>0, <1>10
<1>9. ASSUME NEW i \in 1 .. k PROVE Makes(r.refs, Append(x.code, c)[i], pieces[i])
  <2>1. CASE i = k
    BY <1>7, <1>8, <2>1
  <2>2. CASE i # k
    <3>1. i \in 1 .. k - 1
      BY <2>2
    <3>2. Makes(x.refs, x.code[i], pieces[i])
      BY <3>1 DEF Emitting
    <3>3. Makes(r.refs, x.code[i], pieces[i])
      BY <1>2, <1>3, <3>2, MakesMore
    <3> QED
      BY <1>8, <2>2, <3>3
  <2> QED
    BY <2>1, <2>2
<1> QED
  BY <1>1, <1>5, <1>8, <1>9, SMTT(60) DEF Emitting

LEMMA Compiled ==
    ASSUME NEW refs \in Seq(Streams), NEW pieces \in Seq(Pieces)
    PROVE  Emitting(refs, pieces, Len(pieces), Compile(refs, pieces))
<1> DEFINE n == Len(pieces)
           emitted == Emitted(refs, pieces)
           Bad == {k \in 0 .. n : ~ Emitting(refs, pieces, k, emitted[k])}
<1>0. /\ n \in Nat
      /\ emitted[0] = NoCodeYet(refs)
      /\ \A k \in 1 .. n : emitted[k] = EmitRound(pieces, emitted[k - 1], k)
  BY EmittedRounds
<1>1. Compile(refs, pieces) = emitted[n]
  BY DEF Compile
<1> HIDE DEF emitted
<1> SUFFICES ASSUME Bad # {} PROVE FALSE
  BY <1>0, <1>1
<1>2. PICK k \in Bad : \A j \in Bad : k <= j
  <2>1. Bad \in SUBSET Nat
    BY <1>0
  <2> HIDE DEF Bad
  <2> QED
    BY <2>1, LeastNumber
<1>3. k \in 0 .. n /\ ~ Emitting(refs, pieces, k, emitted[k]) /\ k # 0
  <2>1. Emitting(refs, pieces, 0, NoCodeYet(refs))
    BY DEF Emitting, Extends, NoCodeYet
  <2> QED
    BY <1>0, <1>2, <2>1
<1>4. k \in 1 .. n /\ Emitting(refs, pieces, k - 1, emitted[k - 1])
  BY <1>0, <1>2, <1>3
<1> QED
  BY <1>0, <1>3, <1>4, EmitNext

\* What is kept of a transfer: code that makes the pieces of the query it was
\* compiled from, and that was the query of its zones or empty.
KeptAs(req, refs, code, history) ==
    /\ history.request = req /\ req \in Requests
    /\ history.found \in {<<>>, QueryZoneTouches(history.zones, req)}
    /\ DOMAIN code = DOMAIN RunOperation(req, history.found)
    /\ \A i \in DOMAIN code : Makes(refs, code[i], RunOperation(req, history.found)[i])

Consistent(zones, refs, ops, histories) ==
    /\ refs \in Seq(Streams) /\ \A j \in DOMAIN refs : refs[j] \in zones
    /\ DOMAIN ops \subseteq Range(HashOf) /\ DOMAIN histories = DOMAIN ops
    /\ \A key \in DOMAIN ops :
          KeptAs(histories[key].request, refs, ops[key], histories[key])

CodeInv ==
    /\ m_MemZones \subseteq Streams /\ m_CacheCount \in Nat
    /\ Consistent(m_MemZones, m_StreamReferences, m_CompiledOperations, compiledIn)

LEMMA NothingKept ==
    ASSUME NEW zones PROVE Consistent(zones, <<>>, Empty, Empty)
BY DEF Consistent, Empty

\* Compiling one more transfer keeps what is kept.
LEMMA OneMoreKept ==
    ASSUME NEW req \in Requests, NEW key, key = HashOf[req], NEW zones \in SUBSET Streams,
           NEW list \in {<<>>, QueryZoneTouches(zones, req)},
           NEW refs, NEW ops, NEW histories, Consistent(zones, refs, ops, histories),
           NEW c, c = Compile(refs, RunOperation(req, list)),
           NEW history, history = [request |-> req, zones |-> zones, found |-> list]
    PROVE  Consistent(zones, c.refs, Keep(ops, key, c.code), Keep(histories, key, history))
<1> DEFINE pieces == RunOperation(req, list)
           ops2 == Keep(ops, key, c.code)
           histories2 == Keep(histories, key, history)
<1>1. list \in Seq(zones)
  <2>1. <<>> \in Seq(zones)
    OBVIOUS
  <2> QED
    BY <2>1, QueryType
<1>2. pieces \in Seq(Pieces) /\ \A p \in ToSet(pieces) : p.stream \in zones
  BY <1>1, OperationType
<1>3. refs \in Seq(Streams) /\ \A j \in DOMAIN refs : refs[j] \in zones
  BY DEF Consistent
<1>4. Emitting(refs, pieces, Len(pieces), c)
  BY <1>2, <1>3, Compiled
<1> HIDE DEF pieces
<1>5. /\ Extends(refs, c.refs, {pieces[i].stream : i \in 1 .. Len(pieces)})
      /\ Len(c.code) = Len(pieces) /\ DOMAIN c.code = DOMAIN pieces
      /\ \A i \in DOMAIN pieces : Makes(c.refs, c.code[i], pieces[i])
  <2> DEFINE lines == [ref : Int, position : Int, buffer : Int, count : Int]
  <2>1. /\ Extends(refs, c.refs, {pieces[i].stream : i \in 1 .. Len(pieces)})
        /\ c.code \in Seq(lines) /\ Len(c.code) = Len(pieces)
        /\ \A i \in 1 .. Len(pieces) : Makes(c.refs, c.code[i], pieces[i])
    BY <1>4, Zenon DEF Emitting
  <2> HIDE DEF lines
  <2> QED
    BY <1>2, <2>1
<1>6. c.refs \in Seq(Streams) /\ \A j \in DOMAIN c.refs : c.refs[j] \in zones
  <2>1. \A i \in 1 .. Len(pieces) : pieces[i].stream \in zones
    BY <1>2 DEF ToSet
  <2>2. c.refs \in Seq(Streams)
    BY <1>5 DEF Extends
  <2>3. ASSUME NEW j \in 1 .. Len(c.refs) PROVE c.refs[j] \in zones
    <3>1. CASE j \in 1 .. Len(refs)
      BY <1>3, <1>5, <3>1 DEF Extends
    <3>2. CASE j \notin 1 .. Len(refs)
      <4>1. c.refs[j] \in {pieces[i].stream : i \in 1 .. Len(pieces)}
        BY <1>3, <1>5, <2>2, <3>2 DEF Extends
      <4> QED
        BY <2>1, <4>1
    <3> QED
      BY <3>1, <3>2
  <2> QED
    BY <2>2, <2>3
<1>7. DOMAIN ops2 = DOMAIN ops \cup {key} /\ DOMAIN histories2 = DOMAIN ops \cup {key}
      /\ DOMAIN ops \subseteq Range(HashOf) /\ key \in Range(HashOf)
  BY UnifiedAssumption DEF Consistent, Keep, Range
<1>8. ASSUME NEW k \in DOMAIN ops2
      PROVE  KeptAs(histories2[k].request, c.refs, ops2[k], histories2[k])
  <2>1. CASE k = key
    <3>1. ops2[k] = c.code /\ histories2[k] = history
      BY <1>7, <2>1 DEF Keep, Consistent
    <3>2. history.request = req /\ history.zones = zones /\ history.found = list
      OBVIOUS
    <3> QED
      BY <1>5, <2>1, <3>1, <3>2 DEF KeptAs, pieces
  <2>2. CASE k # key
    <3>1. k \in DOMAIN ops /\ ops2[k] = ops[k] /\ histories2[k] = histories[k]
      BY <1>7, <2>2 DEF Keep, Consistent
    <3> DEFINE r == histories[k].request
    <3>2. KeptAs(r, refs, ops[k], histories[k])
      BY <3>1 DEF Consistent
    <3>3. ASSUME NEW i \in DOMAIN ops[k]
          PROVE  Makes(c.refs, ops[k][i], RunOperation(r, histories[k].found)[i])
      <4>1. Makes(refs, ops[k][i], RunOperation(r, histories[k].found)[i])
        BY <3>2 DEF KeptAs
      <4> QED
        BY <1>3, <1>5, <4>1, MakesMore
    <3> QED
      BY <3>1, <3>2, <3>3 DEF KeptAs
  <2> QED
    BY <2>1, <2>2
<1> HIDE DEF ops2, histories2
<1> QED
  BY <1>6, <1>7, <1>8 DEF Consistent, ops2, histories2

LEMMA TransferKept ==
    ASSUME NEW req \in Requests, m_MemZones \in SUBSET Streams, UNCHANGED m_MemZones,
           NEW list \in {<<>>, QueryZoneTouches(m_MemZones, req)},
           NEW refs, NEW ops, NEW histories, NEW n \in Nat,
           Consistent(m_MemZones, refs, ops, histories),
           CompileAndKeep(req, list, ops, refs, n, histories)
    PROVE  CodeInv'
<1> DEFINE key == HashOf[req]
           c == Compile(refs, RunOperation(req, list))
           h == [request |-> req, zones |-> m_MemZones, found |-> list]
<1>1. /\ m_CompiledOperations' = Keep(ops, key, c.code)
      /\ m_StreamReferences' = c.refs /\ m_CacheCount' = n + 1
      /\ compiledIn' = Keep(histories, key, h)
  BY Zenon DEF CompileAndKeep
<1>2. Consistent(m_MemZones, c.refs, Keep(ops, key, c.code), Keep(histories, key, h))
  BY OneMoreKept
<1> HIDE DEF c, h, key
<1> QED
  BY <1>1, <1>2 DEF CodeInv

LEMMA CodeStep == CodeInv /\ [StreamNext]_streamVars => CodeInv'
<1> SUFFICES ASSUME CodeInv, [StreamNext]_streamVars PROVE CodeInv'
  OBVIOUS
<1>0. m_MemZones \in SUBSET Streams /\ m_CacheCount \in Nat
      /\ Consistent(m_MemZones, m_StreamReferences, m_CompiledOperations, compiledIn)
  BY DEF CodeInv
<1>1. ASSUME NEW req \in Requests, CompiledTransfer(req) PROVE CodeInv'
  <2> DEFINE list == IF ContainsOperation(req) THEN <<>>
                     ELSE QueryZoneTouches(m_MemZones, req)
  <2>1. /\ \/ CompileAndKeep(req, list, Empty, <<>>, 0, Empty)
           \/ CompileAndKeep(req, list, m_CompiledOperations,
                             m_StreamReferences, m_CacheCount, compiledIn)
        /\ UNCHANGED m_MemZones /\ list \in {<<>>, QueryZoneTouches(m_MemZones, req)}
    BY <1>1 DEF CompiledTransfer
  <2> HIDE DEF list
  <2>2. Consistent(m_MemZones, <<>>, Empty, Empty) /\ 0 \in Nat
    BY NothingKept
  <2> QED
    BY <1>0, <2>1, <2>2, TransferKept
<1>2. ASSUME NEW s \in Streams, Add(s) PROVE CodeInv'
  <2>1. Consistent(m_MemZones \cup {s}, m_StreamReferences, m_CompiledOperations, compiledIn)
    BY <1>0 DEF Consistent
  <2> QED
    BY <1>0, <1>2, <2>1 DEF Add, CodeInv
<1>3. ASSUME ClearCache, m_MemZones' \subseteq Streams PROVE CodeInv'
  BY <1>3, NothingKept DEF ClearCache, CodeInv
<1>4. CASE UNCHANGED streamVars
  BY <1>0, <1>4 DEF streamVars, CodeInv
<1> QED
  BY <1>0, <1>1, <1>2, <1>3, <1>4 DEF StreamNext, RemoveStream, Clear

LEMMA CodeHolds == StreamSpec => []CodeInv
<1>1. StreamInit => CodeInv
  BY NothingKept DEF StreamInit, CodeInv
<1> QED
  BY <1>1, CodeStep, PTL DEF StreamSpec

\* The types of the state: code is kept by the hash of a transfer that was asked
\* for, and names streams by references that exist, so GeStream never fails.
THEOREM TypeCorrect == StreamSpec => []StreamTypeOK
<1>1. CodeInv => StreamTypeOK
  BY DEF CodeInv, Consistent, KeptAs, Makes, StreamTypeOK
<1> QED
  BY <1>1, CodeHolds, PTL

\* Kept code never names a stream that was taken out of the table.
THEOREM CodeIsResolved == StreamSpec => []CodeResolves
<1>1. CodeInv => CodeResolves
  <2> SUFFICES ASSUME CodeInv, NEW key \in DOMAIN m_CompiledOperations,
                      NEW p \in ToSet(Executed(key))
               PROVE  p.stream \in m_MemZones
    BY DEF CodeResolves
  <2> DEFINE code == m_CompiledOperations[key]
  <2>1. PICK i \in DOMAIN code : p.stream = m_StreamReferences[code[i].ref]
    BY DEF Executed, ToSet
  <2>2. code[i].ref \in DOMAIN m_StreamReferences
    BY DEF CodeInv, Consistent, KeptAs, Makes
  <2> QED
    BY <2>1, <2>2 DEF CodeInv, Consistent
<1> QED
  BY <1>1, CodeHolds, PTL

\* Kept code asks for what the interpreter would, but for a request of the same
\* hash, a stream added since, a query that was empty and a reference to the
\* stream referenced last.
THEOREM DivergenceIsExplained == StreamSpec => []DivergenceExplained
<1>1. CodeInv => DivergenceExplained
  <2> SUFFICES ASSUME CodeInv, NEW req \in Requests, ContainsOperation(req),
                      NEW key, key = HashOf[req],
                      compiledIn[key].request = req,
                      compiledIn[key].zones = m_MemZones, compiledIn[key].found # <<>>
               PROVE  /\ DOMAIN Executed(key) = DOMAIN Interpreted(req)
                      /\ \A i \in DOMAIN Executed(key) :
                           \/ Executed(key)[i] = Interpreted(req)[i]
                           \/ Executed(key)[i] = [Interpreted(req)[i] EXCEPT
                                                    !.stream = m_StreamReferences[1]]
    BY DEF DivergenceExplained
  <2> DEFINE code == m_CompiledOperations[key]
             due == Interpreted(req)
             got == Executed(key)
  <2>1. KeptAs(req, m_StreamReferences, code, compiledIn[key])
    BY DEF CodeInv, Consistent, ContainsOperation
  <2>2. compiledIn[key].found = QueryZoneTouches(m_MemZones, req)
    BY <2>1 DEF KeptAs
  <2>3. due = RunOperation(req, compiledIn[key].found)
    BY <2>2 DEF Interpreted
  <2>4. due \in Seq(Pieces)
    BY <2>1, <2>2, <2>3, QueryType, OperationType DEF CodeInv
  <2>5. DOMAIN code = DOMAIN due /\ \A i \in DOMAIN code : Makes(m_StreamReferences, code[i], due[i])
    BY <2>1, <2>3 DEF KeptAs
  <2>6. got = [i \in DOMAIN code |->
                 [stream |-> m_StreamReferences[code[i].ref],
                  position |-> code[i].position,
                  buffer |-> code[i].buffer, count |-> code[i].count]]
    BY DEF Executed
  <2> HIDE DEF due, got, code
  <2>7. ASSUME NEW i \in DOMAIN got
        PROVE  \/ got[i] = due[i]
               \/ got[i] = [due[i] EXCEPT !.stream = m_StreamReferences[1]]
    <3> DEFINE p == due[i]
               c == code[i]
    <3>1. p \in Pieces
      BY <2>4, <2>5, <2>6
    <3>2. Makes(m_StreamReferences, c, p)
      BY <2>5, <2>6
    <3>3. got[i] = [stream |-> m_StreamReferences[c.ref], position |-> c.position,
                    buffer |-> c.buffer, count |-> c.count]
      BY <2>6
    <3> HIDE DEF p, c
    <3>4. p = [stream |-> p.stream, position |-> p.position,
               buffer |-> p.buffer, count |-> p.count]
      BY <3>1 DEF Pieces
    <3>5. [p EXCEPT !.stream = m_StreamReferences[1]]
            = [stream |-> m_StreamReferences[1], position |-> p.position,
               buffer |-> p.buffer, count |-> p.count]
      BY <3>1 DEF Pieces
    <3>6. m_StreamReferences[c.ref] \in {p.stream, m_StreamReferences[1]}
      BY <3>2 DEF Makes
    <3>7. got[i] = [stream |-> m_StreamReferences[c.ref], position |-> p.position,
                    buffer |-> p.buffer, count |-> p.count]
      BY <3>2, <3>3 DEF Makes
    <3>8. got[i] = p \/ got[i] = [p EXCEPT !.stream = m_StreamReferences[1]]
      BY <3>4, <3>5, <3>6, <3>7
    <3> QED
      BY <3>8 DEF p
  <2> QED
    BY <2>5, <2>6, <2>7 DEF due, got
<1> QED
  BY <1>1, CodeHolds, PTL

-----------------------------------------------------------------------------
(* 3. The transfers of the interpreter.                                    *)

Ascending(q) == \A i, j \in DOMAIN q : i < j => Base[q[i]] < Base[q[j]]

LEMMA Places ==
    ASSUME NEW s \in Streams
    PROVE  /\ Base[s] \in Nat /\ Size[s] \in Nat /\ 0 < Size[s]
           /\ End(s) = Base[s] + Size[s] /\ End(s) \in Nat
           /\ \A a \in Int : Holds(s, a) <=> Base[s] <= a /\ a < End(s)
           /\ \A t \in Streams : Base[s] = Base[t] => s = t
<1>1. /\ Base \in [Streams -> Nat] /\ Size \in [Streams -> Nat \ {0}]
      /\ \A t \in Streams : Base[s] = Base[t] => s = t
  BY UnifiedAssumption DEF IsInjective
<1>2. Base[s] \in Nat /\ Size[s] \in Nat /\ 0 < Size[s]
  BY <1>1
<1> QED
  BY <1>1, <1>2 DEF End, Holds

\* Finitely many streams can be put in the order of their addresses.
LEMMA OrderExists ==
    ASSUME NEW n \in Nat, n = Cardinality(Streams)
    PROVE  \E q \in [1 .. n -> Streams] : Ascending(q)
<1> DEFINE Orders(S, k) == {q \in [1 .. k -> S] : Ascending(q)}
           Bad == {k \in Nat : \E S \in SUBSET Streams :
                                  IsFiniteSet(S) /\ Cardinality(S) = k /\ Orders(S, k) = {}}
<1>1. Bad = {}
  <2> SUFFICES ASSUME Bad # {} PROVE FALSE
    OBVIOUS
  <2>1. PICK k \in Bad : \A j \in Bad : k <= j
    <3>1. Bad \in SUBSET Nat
      OBVIOUS
    <3> HIDE DEF Bad
    <3> QED
      BY <3>1, LeastNumber
  <2>2. PICK S \in SUBSET Streams :
               IsFiniteSet(S) /\ Cardinality(S) = k /\ Orders(S, k) = {}
    BY <2>1
  <2>3. k # 0
    <3> SUFFICES ASSUME k = 0 PROVE FALSE
      OBVIOUS
    <3> DEFINE q == [i \in 1 .. 0 |-> 0]
    <3>1. q \in [1 .. 0 -> S] /\ Ascending(q)
      BY DEF Ascending
    <3> QED
      BY <2>2, <3>1
  <2>4. S # {} /\ k \in Nat
    BY <2>1, <2>2, <2>3, FS_EmptySet
  <2>5. PICK t \in S : \A s \in S : Base[t] <= Base[s]
    <3> DEFINE B == {Base[s] : s \in S}
    <3>1. B \in SUBSET Nat /\ B # {}
      BY <2>4, Places
    <3> HIDE DEF B
    <3>2. PICK b \in B : \A j \in B : b <= j
      BY <3>1, LeastNumber
    <3> QED
      BY <3>2 DEF B
  <2> DEFINE T == S \ {t}
  <2>6. T \in SUBSET Streams /\ IsFiniteSet(T) /\ Cardinality(T) = k - 1
    BY <2>2, <2>5, FS_RemoveElement
  <2>7. k - 1 \in Nat /\ k - 1 \notin Bad
    BY <2>1, <2>3, <2>4
  <2>8. PICK p \in [1 .. k - 1 -> T] : Ascending(p)
    <3>1. Orders(T, k - 1) # {}
      BY <2>6, <2>7
    <3> QED
      BY <3>1
  <2> DEFINE q == [i \in 1 .. k |-> IF i = 1 THEN t ELSE p[i - 1]]
  <2>9. \A i \in 2 .. k : i - 1 \in 1 .. k - 1 /\ p[i - 1] \in T /\ q[i] = p[i - 1]
    BY <2>4, <2>8
  <2>10. q[1] = t /\ q \in [1 .. k -> S]
    BY <2>3, <2>4, <2>9
  <2>11. ASSUME NEW i \in 1 .. k, NEW j \in 1 .. k, i < j
         PROVE  Base[q[i]] < Base[q[j]]
    <3>1. q[j] = p[j - 1] /\ p[j - 1] \in T /\ j - 1 \in 1 .. k - 1
      BY <2>9, <2>11
    <3>2. CASE i = 1
      <4>1. Base[t] <= Base[q[j]] /\ t # q[j] /\ t \in Streams /\ q[j] \in Streams
        BY <2>5, <3>1
      <4> HIDE DEF q
      <4>2. Base[t] # Base[q[j]] /\ Base[t] \in Nat /\ Base[q[j]] \in Nat
        BY <4>1, Places
      <4> QED
        BY <2>10, <3>2, <4>1, <4>2
    <3>3. CASE i # 1
      <4>1. i - 1 \in 1 .. k - 1 /\ q[i] = p[i - 1] /\ i - 1 < j - 1
        BY <2>9, <2>11, <3>3
      <4> QED
        BY <2>8, <3>1, <4>1 DEF Ascending
    <3> QED
      BY <3>2, <3>3
  <2>12. q \in Orders(S, k)
    <3>1. DOMAIN q = 1 .. k
      OBVIOUS
    <3> HIDE DEF q
    <3> QED
      BY <2>10, <2>11, <3>1 DEF Ascending
  <2> QED
    BY <2>2, <2>12
<1>2. n \notin Bad /\ IsFiniteSet(Streams)
  BY <1>1, UnifiedAssumption
<1> QED
  BY <1>2

LEMMA Ordered ==
    ASSUME NEW n \in Nat, n = Cardinality(Streams)
    PROVE  /\ InOrder \in [1 .. n -> Streams]
           /\ \A i, j \in 1 .. n : i < j => Base[InOrder[i]] < Base[InOrder[j]]
           /\ \A s \in Streams : \E i \in 1 .. n : InOrder[i] = s
<1>1. InOrder = CHOOSE q \in [1 .. n -> Streams] : Ascending(q)
  BY DEF InOrder, Ascending
<1>2. InOrder \in [1 .. n -> Streams] /\ Ascending(InOrder)
  BY <1>1, OrderExists
<1>3. \A i, j \in 1 .. n : i < j => Base[InOrder[i]] < Base[InOrder[j]]
  BY <1>2 DEF Ascending
<1>4. InOrder \in Injection(1 .. n, Streams)
  <2>1. ASSUME NEW i \in 1 .. n, NEW j \in 1 .. n, InOrder[i] = InOrder[j] PROVE i = j
    <3>1. Base[InOrder[i]] \in Nat
      BY <1>2, Places
    <3> QED
      BY <1>3, <2>1, <3>1
  <2> QED
    BY <1>2, <2>1 DEF Injection, IsInjective
<1>5. IsFiniteSet(1 .. n) /\ Cardinality(1 .. n) = n
  BY FS_Interval
<1>6. InOrder \in Surjection(1 .. n, Streams)
  BY <1>4, <1>5, FS_Injection, UnifiedAssumption
<1> QED
  BY <1>2, <1>3, <1>6 DEF Surjection

\* Zones that keep apart, and the one of them that holds the first byte.
Tiled(zones) == \A s, t \in zones : s # t => ~ Holds(s, Base[t])
Starts(zones, req, first) == first \in zones /\ Holds(first, req.addr)

\* The zones a transfer should touch.
Wanted(zones, req, first) ==
    {s \in zones : s = first \/ (Base[first] < Base[s] /\ Base[s] < req.addr + req.count)}

LEMMA TiledFacts ==
    ASSUME NEW zones \in SUBSET Streams, Tiled(zones), NEW req \in Requests,
           NEW first, Starts(zones, req, first)
    PROVE  /\ \A s, t \in zones : Base[s] < Base[t] => End(s) <= Base[t]
           /\ \A s \in zones : Holds(s, req.addr) => s = first
           /\ req.addr \in Nat /\ req.count \in Nat /\ 0 < req.count
           /\ Base[first] <= req.addr /\ req.addr < End(first)
<1>1. req.addr \in Nat /\ req.count \in Nat /\ 0 < req.count
  BY UnifiedAssumption
<1>2. ASSUME NEW s \in zones, NEW t \in zones, Base[s] < Base[t]
      PROVE  End(s) <= Base[t]
  <2>1. s \in Streams /\ t \in Streams /\ s # t
    BY <1>2, Places
  <2>2. ~ Holds(s, Base[t])
    BY <2>1 DEF Tiled
  <2> QED
    BY <1>2, <2>1, <2>2, Places
<1>3. first \in Streams /\ first \in zones /\ Base[first] <= req.addr /\ req.addr < End(first)
  BY <1>1, Places DEF Starts
<1>4. ASSUME NEW s \in zones, Holds(s, req.addr) PROVE s = first
  <2>1. s \in Streams /\ Base[s] <= req.addr /\ req.addr < End(s)
    BY <1>1, <1>4, Places
  <2>2. ~ Base[s] < Base[first] /\ ~ Base[first] < Base[s]
    BY <1>1, <1>2, <1>3, <2>1, Places
  <2> QED
    BY <1>3, <2>1, <2>2, Places
<1> QED
  BY <1>1, <1>2, <1>3, <1>4

LEMMA JoinOne ==
    ASSUME NEW S, NEW q \in Seq(S), NEW s \in S
    PROVE  /\ q \o <<>> \o <<>> = q
           /\ q \o <<s>> \o <<>> = Append(q, s)
           /\ q \o <<>> \o <<s>> = Append(q, s)
OBVIOUS

\* The loop has met the first zone when it is past its place.
LEMMA HitWhenPast ==
    ASSUME NEW zones \in SUBSET Streams, Tiled(zones), NEW req \in Requests,
           NEW first, Starts(zones, req, first),
           NEW n \in Nat, n = Cardinality(Streams), NEW k \in 0 .. n
    PROVE  Touched(zones, req)[k].hit <=> \E j \in 1 .. k : InOrder[j] = first
<1> DEFINE found == Touched(zones, req)
           Past(i) == \E j \in 1 .. i : InOrder[j] = first
           Bad == {i \in 0 .. n : ~ (found[i].hit <=> Past(i))}
<1>0. /\ found[0] = Nothing
      /\ \A i \in 1 .. n : found[i] = Round(zones, req, found[i - 1], i)
  BY TouchedRounds
<1> SUFFICES ASSUME Bad # {} PROVE FALSE
  OBVIOUS
<1> HIDE DEF found
<1>1. PICK i \in Bad : \A j \in Bad : i <= j
  <2>1. Bad \in SUBSET Nat
    OBVIOUS
  <2> HIDE DEF Bad
  <2> QED
    BY <2>1, LeastNumber
<1>2. i \in 0 .. n /\ ~ (found[i].hit <=> Past(i)) /\ i # 0
  <2>1. ~ found[0].hit /\ ~ Past(0)
    BY <1>0 DEF Nothing
  <2> QED
    BY <1>1, <2>1
<1>3. i \in 1 .. n /\ i - 1 \in 0 .. n
  BY <1>2
<1>4. found[i - 1].hit <=> Past(i - 1)
  <2>1. i - 1 \notin Bad
    BY <1>1, <1>3
  <2> QED
    BY <1>3, <2>1
<1>5. Past(i) <=> Past(i - 1) \/ InOrder[i] = first
  BY <1>3
<1>6. found[i] = Round(zones, req, found[i - 1], i)
  BY <1>0, <1>3
<1> HIDE DEF Past, Bad
<1>7. CASE InOrder[i] \in zones
  <2>1. found[i] = TouchZone(req, found[i - 1], InOrder[i])
    BY <1>6, <1>7 DEF Round
  <2> DEFINE x == found[i - 1]
             t == InOrder[i]
             listed == x.list \o (IF x.hit /\ Base[t] < req.addr + req.count
                                  THEN <<t>> ELSE <<>>)
                             \o (IF Holds(t, req.addr) THEN <<t>> ELSE <<>>)
             hit == x.hit \/ Holds(t, req.addr)
  <2>4. found[i] = [hit |-> hit, list |-> listed]
    BY <2>1, Zenon DEF TouchZone
  <2>5. found[i].hit = hit
    <3> HIDE DEF listed, hit
    <3> QED
      BY <2>4
  <2>2. found[i].hit <=> (found[i - 1].hit \/ Holds(InOrder[i], req.addr))
    BY <2>5, Zenon
  <2>3. Holds(InOrder[i], req.addr) <=> InOrder[i] = first
    BY <1>7, TiledFacts DEF Starts
  <2> QED
    BY <1>2, <1>4, <1>5, <2>2, <2>3, Zenon
<1>8. CASE InOrder[i] \notin zones
  <2>1. found[i] = found[i - 1]
    BY <1>6, <1>8 DEF Round
  <2>2. InOrder[i] # first
    BY <1>8 DEF Starts
  <2> QED
    BY <1>2, <1>4, <1>5, <2>1, <2>2, Zenon
<1> QED
  BY <1>7, <1>8

\* Each round lists the next zone if it is wanted.
LEMMA ListNext ==
    ASSUME NEW zones \in SUBSET Streams, Tiled(zones), NEW req \in Requests,
           NEW first, Starts(zones, req, first),
           NEW n \in Nat, n = Cardinality(Streams), NEW k \in 1 .. n
    PROVE  Touched(zones, req)[k].list =
             IF InOrder[k] \in Wanted(zones, req, first)
             THEN Append(Touched(zones, req)[k - 1].list, InOrder[k])
             ELSE Touched(zones, req)[k - 1].list
<1> DEFINE s == InOrder[k]
           x == Touched(zones, req)[k - 1]
           y == Touched(zones, req)[k]
<1>1. y = Round(zones, req, x, k)
  BY TouchedRounds
<1>2. x.list \in Seq(zones) /\ k - 1 \in 0 .. n
  BY TouchedType
<1>3. x.hit <=> \E j \in 1 .. k - 1 : InOrder[j] = first
  BY <1>2, HitWhenPast
<1>4. s \in Streams /\ first \in Streams /\ first \in zones
  BY Ordered DEF Starts
<1>5. x.hit <=> Base[first] < Base[s]
  <2>1. PICK j \in 1 .. n : InOrder[j] = first
    BY <1>4, Ordered
  <2>2. Base[first] \in Nat /\ Base[s] \in Nat
    BY <1>4, Places
  <2>3. j < k => Base[first] < Base[s]
    BY <2>1, Ordered
  <2>4. k < j => Base[s] < Base[first]
    BY <2>1, Ordered
  <2>5. \A i \in 1 .. n : InOrder[i] = first => i = j
    <3> SUFFICES ASSUME NEW i \in 1 .. n, InOrder[i] = first, i # j PROVE FALSE
      OBVIOUS
    <3>1. CASE i < j
      <4>1. Base[InOrder[i]] < Base[InOrder[j]]
        BY <3>1, Ordered
      <4> QED
        BY <2>1, <2>2, <4>1
    <3>2. CASE j < i
      <4>1. Base[InOrder[j]] < Base[InOrder[i]]
        BY <3>2, Ordered
      <4> QED
        BY <2>1, <2>2, <4>1
    <3> QED
      BY <3>1, <3>2
  <2>6. x.hit <=> j < k
    BY <1>3, <2>1, <2>5
  <2>7. ~ j < k => ~ Base[first] < Base[s]
    <3>1. CASE j = k
      BY <2>1, <2>2, <3>1
    <3>2. CASE k < j
      BY <2>2, <2>4, <3>2
    <3> QED
      BY <3>1, <3>2
  <2> QED
    BY <2>3, <2>6, <2>7
<1> HIDE DEF x, y, s
<1>6. CASE s \notin zones
  <2>1. y = x /\ s \notin Wanted(zones, req, first)
    BY <1>1, <1>6 DEF Round, Wanted, s
  <2> QED
    BY <2>1 DEF x, y, s
<1>7. CASE s \in zones
  <2> DEFINE later == x.hit /\ Base[s] < req.addr + req.count
             one == Holds(s, req.addr)
  <2>1. y.list = x.list \o (IF later THEN <<s>> ELSE <<>>) \o (IF one THEN <<s>> ELSE <<>>)
    BY <1>1, <1>7, Zenon DEF Round, TouchZone, s
  <2>2. one <=> s = first
    BY <1>7, TiledFacts DEF Starts
  <2>3. ~ (later /\ one)
    BY <1>4, <1>5, <2>2, Places
  <2>4. (later \/ one) <=> s \in Wanted(zones, req, first)
    BY <1>5, <1>7, <2>2 DEF Wanted
  <2> HIDE DEF later, one
  <2>5. CASE later
    <3>1. y.list = x.list \o <<s>> \o <<>>
      BY <2>1, <2>3, <2>5
    <3>2. y.list = Append(x.list, s)
      BY <1>2, <1>7, <3>1, JoinOne, Zenon
    <3> QED
      BY <2>4, <2>5, <3>2 DEF x, y, s
  <2>6. CASE one
    <3>1. y.list = x.list \o <<>> \o <<s>>
      BY <2>1, <2>3, <2>6
    <3>2. y.list = Append(x.list, s)
      BY <1>2, <1>7, <3>1, JoinOne, Zenon
    <3> QED
      BY <2>4, <2>6, <3>2 DEF x, y, s
  <2>7. CASE ~ later /\ ~ one
    <3>1. y.list = x.list \o <<>> \o <<>>
      BY <2>1, <2>7
    <3>2. y.list = x.list
      BY <1>2, <1>7, <3>1, JoinOne
    <3> QED
      BY <2>4, <2>7, <3>2 DEF x, y, s
  <2> QED
    BY <2>5, <2>6, <2>7
<1> QED
  BY <1>6, <1>7

\* q lists the wanted zones among the first k streams, in their order.
Lists(zones, req, first, k, q) ==
    /\ q \in Seq(zones)
    /\ \A i \in 1 .. Len(q) : /\ q[i] \in Wanted(zones, req, first)
                              /\ \E j \in 1 .. k : q[i] = InOrder[j]
    /\ \A j \in 1 .. k : InOrder[j] \in Wanted(zones, req, first) =>
           \E i \in 1 .. Len(q) : q[i] = InOrder[j]
    /\ \A i, j \in 1 .. Len(q) : i < j => Base[q[i]] < Base[q[j]]

LEMMA ListsNext ==
    ASSUME NEW zones \in SUBSET Streams, NEW req, NEW first,
           NEW n \in Nat, n = Cardinality(Streams), NEW k \in 1 .. n,
           NEW q, Lists(zones, req, first, k - 1, q)
    PROVE  Lists(zones, req, first, k,
                 IF InOrder[k] \in Wanted(zones, req, first)
                 THEN Append(q, InOrder[k]) ELSE q)
<1> DEFINE s == InOrder[k]
           W == Wanted(zones, req, first)
<1>0. q \in Seq(zones) /\ Len(q) \in Nat /\ W \subseteq zones
  BY DEF Lists, Wanted
<1>1. /\ \A i \in 1 .. Len(q) : q[i] \in W /\ \E j \in 1 .. k - 1 : q[i] = InOrder[j]
      /\ \A j \in 1 .. k - 1 : InOrder[j] \in W => \E i \in 1 .. Len(q) : q[i] = InOrder[j]
      /\ \A i, j \in 1 .. Len(q) : i < j => Base[q[i]] < Base[q[j]]
  BY DEF Lists
<1>2. \A i \in 1 .. Len(q) : Base[q[i]] < Base[s]
  <2> TAKE i \in 1 .. Len(q)
  <2>1. PICK j \in 1 .. k - 1 : q[i] = InOrder[j]
    BY <1>1
  <2>2. j \in 1 .. n /\ j < k
    OBVIOUS
  <2> QED
    BY <2>1, <2>2, Ordered
<1> HIDE DEF W, s
<1>3. CASE s \in W
  <2> DEFINE p == Append(q, s)
  <2>1. p \in Seq(zones) /\ Len(p) = Len(q) + 1 /\ p[Len(q) + 1] = s
    BY <1>0, <1>3
  <2>2. \A i \in 1 .. Len(q) : p[i] = q[i]
    BY <1>0
  <2> HIDE DEF p
  <2>3. ASSUME NEW i \in 1 .. Len(p)
        PROVE  p[i] \in W /\ \E j \in 1 .. k : p[i] = InOrder[j]
    <3>1. CASE i \in 1 .. Len(q)
      <4>1. p[i] = q[i] /\ q[i] \in W
        BY <1>1, <2>2, <3>1
      <4>2. PICK j \in 1 .. k - 1 : q[i] = InOrder[j]
        BY <1>1, <3>1
      <4> QED
        BY <4>1, <4>2
    <3>2. CASE i = Len(q) + 1
      BY <1>3, <2>1, <3>2 DEF s
    <3> QED
      BY <1>0, <2>1, <3>1, <3>2
  <2>4. ASSUME NEW j \in 1 .. k, InOrder[j] \in W
        PROVE  \E i \in 1 .. Len(p) : p[i] = InOrder[j]
    <3>1. CASE j = k
      BY <1>0, <2>1, <3>1 DEF s
    <3>2. CASE j # k
      <4>1. j \in 1 .. k - 1
        BY <3>2
      <4>2. PICK i \in 1 .. Len(q) : q[i] = InOrder[j]
        BY <1>1, <2>4, <4>1
      <4>3. i \in 1 .. Len(p) /\ p[i] = q[i]
        BY <1>0, <2>1, <2>2
      <4> QED
        BY <4>2, <4>3
    <3> QED
      BY <3>1, <3>2
  <2>5. ASSUME NEW i \in 1 .. Len(p), NEW j \in 1 .. Len(p), i < j
        PROVE  Base[p[i]] < Base[p[j]]
    <3>1. i \in 1 .. Len(q) /\ p[i] = q[i]
      BY <1>0, <2>1, <2>2, <2>5
    <3>2. CASE j = Len(q) + 1
      BY <1>2, <2>1, <3>1, <3>2
    <3>3. CASE j \in 1 .. Len(q)
      BY <1>1, <2>2, <2>5, <3>1, <3>3
    <3> QED
      BY <1>0, <2>1, <3>2, <3>3
  <2>6. Lists(zones, req, first, k, p)
    BY <2>1, <2>3, <2>4, <2>5, Zenon DEF Lists, W
  <2> QED
    BY <1>3, <2>6 DEF p, s, W
<1>4. CASE s \notin W
  <2>1. ASSUME NEW i \in 1 .. Len(q)
        PROVE  q[i] \in W /\ \E j \in 1 .. k : q[i] = InOrder[j]
    BY <1>1
  <2>2. ASSUME NEW j \in 1 .. k, InOrder[j] \in W
        PROVE  \E i \in 1 .. Len(q) : q[i] = InOrder[j]
    <3>1. j \in 1 .. k - 1
      BY <1>4, <2>2 DEF s
    <3> QED
      BY <1>1, <2>2, <3>1
  <2>3. Lists(zones, req, first, k, q)
    BY <1>0, <1>1, <2>1, <2>2, Zenon DEF Lists, W
  <2> QED
    BY <1>4, <2>3 DEF s, W
<1> QED
  BY <1>3, <1>4

LEMMA QueryLists ==
    ASSUME NEW zones \in SUBSET Streams, Tiled(zones), NEW req \in Requests,
           NEW first, Starts(zones, req, first),
           NEW n \in Nat, n = Cardinality(Streams)
    PROVE  Lists(zones, req, first, n, QueryZoneTouches(zones, req))
<1> DEFINE list(k) == Touched(zones, req)[k].list
           Bad == {k \in 0 .. n : ~ Lists(zones, req, first, k, list(k))}
<1>1. \A k \in 1 .. n : list(k) = IF InOrder[k] \in Wanted(zones, req, first)
                                  THEN Append(list(k - 1), InOrder[k]) ELSE list(k - 1)
  BY ListNext
<1>2. list(0) = <<>>
  BY TouchedRounds DEF Nothing
<1>3. QueryZoneTouches(zones, req) = list(n)
  BY DEF QueryZoneTouches
<1> HIDE DEF list
<1>4. Bad = {}
  <2> SUFFICES ASSUME Bad # {} PROVE FALSE
    OBVIOUS
  <2>1. PICK k \in Bad : \A j \in Bad : k <= j
    <3>1. Bad \in SUBSET Nat
      OBVIOUS
    <3> HIDE DEF Bad
    <3> QED
      BY <3>1, LeastNumber
  <2>2. k \in 0 .. n /\ ~ Lists(zones, req, first, k, list(k)) /\ k # 0
    <3>1. <<>> \in Seq(zones) /\ Len(<<>>) = 0
      OBVIOUS
    <3>3. Lists(zones, req, first, 0, <<>>)
      BY <3>1 DEF Lists
    <3>2. Lists(zones, req, first, 0, list(0))
      BY <1>2, <3>3, Zenon
    <3> QED
      BY <2>1, <3>2
  <2>3. k \in 1 .. n /\ k - 1 \in 0 .. n
    BY <2>2
  <2>4. Lists(zones, req, first, k - 1, list(k - 1))
    <3>1. k - 1 \notin Bad
      BY <2>1, <2>3
    <3> QED
      BY <2>3, <3>1
  <2> HIDE DEF Bad
  <2> QED
    BY <1>1, <2>2, <2>3, <2>4, ListsNext
<1>5. n \in 0 .. n
  OBVIOUS
<1> QED
  BY <1>3, <1>4, <1>5

\* The query yields the wanted zones in order, and the first of them first.
LEMMA QueryIsWanted ==
    ASSUME NEW zones \in SUBSET Streams, Tiled(zones), NEW req \in Requests,
           NEW first, Starts(zones, req, first), NEW list,
           list = QueryZoneTouches(zones, req)
    PROVE  /\ list \in Seq(zones) /\ Len(list) \in Nat /\ 0 < Len(list)
           /\ list[1] = first
           /\ \A i \in 1 .. Len(list) : list[i] \in Wanted(zones, req, first)
           /\ \A s \in Wanted(zones, req, first) : \E i \in 1 .. Len(list) : list[i] = s
           /\ \A i, j \in 1 .. Len(list) : i < j => Base[list[i]] < Base[list[j]]
<1> DEFINE n == Cardinality(Streams)
<1>1. n \in Nat
  BY FS_CardinalityType, UnifiedAssumption
<1>2. Lists(zones, req, first, n, list)
  BY <1>1, QueryLists
<1>3. /\ list \in Seq(zones) /\ Len(list) \in Nat
      /\ \A i \in 1 .. Len(list) : list[i] \in Wanted(zones, req, first)
      /\ \A i, j \in 1 .. Len(list) : i < j => Base[list[i]] < Base[list[j]]
  BY <1>2 DEF Lists
<1>4. ASSUME NEW s \in Wanted(zones, req, first)
      PROVE  \E i \in 1 .. Len(list) : list[i] = s
  <2>1. s \in Streams
    BY DEF Wanted
  <2>2. PICK j \in 1 .. n : InOrder[j] = s
    BY <1>1, <2>1, Ordered
  <2> QED
    BY <1>2, <2>2 DEF Lists
<1>5. first \in Wanted(zones, req, first) /\ first \in Streams
  BY DEF Wanted, Starts
<1>6. PICK i \in 1 .. Len(list) : list[i] = first
  BY <1>4, <1>5
<1>7. i = 1
  <2> SUFFICES ASSUME i # 1 PROVE FALSE
    OBVIOUS
  <2>1. 1 \in 1 .. Len(list) /\ 1 < i
    BY <1>3
  <2>2. Base[list[1]] < Base[first] /\ list[1] \in Wanted(zones, req, first)
    BY <1>3, <1>6, <2>1
  <2>3. Base[list[1]] \in Nat /\ Base[first] \in Nat
    BY <1>5, <2>2, Places DEF Wanted
  <2> QED
    BY <2>2, <2>3 DEF Wanted
<1> QED
  BY <1>3, <1>4, <1>6, <1>7

\* Over writable zones the i-th piece is that of the i-th zone.
LEMMA AllMoved ==
    ASSUME NEW req \in Requests, NEW list \in Seq(Streams),
           \A i \in 1 .. Len(list) : list[i] \in Writable
    PROVE  LET pieces == RunOperation(req, list)
           IN  /\ pieces \in Seq(Pieces) /\ Len(pieces) = Len(list)
               /\ \A i \in 1 .. Len(list) : pieces[i] = Piece(req, list[i], i, Len(list))
<1> DEFINE n == Len(list)
           moved == Moved(req, list)
           Good(k, x) == /\ x \in Seq(Pieces) /\ Len(x) = k
                         /\ \A i \in 1 .. k : x[i] = Piece(req, list[i], i, n)
           Bad == {k \in 0 .. n : ~ Good(k, moved[k])}
<1>0. /\ n \in Nat
      /\ moved[0] = <<>>
      /\ \A k \in 1 .. n : moved[k] = MoveRound(req, list, moved[k - 1], k)
  BY MovedRounds
<1>1. RunOperation(req, list) = moved[n]
  BY DEF RunOperation
<1> HIDE DEF moved
<1>2. Bad = {}
  <2> SUFFICES ASSUME Bad # {} PROVE FALSE
    OBVIOUS
  <2>1. PICK k \in Bad : \A j \in Bad : k <= j
    <3>1. Bad \in SUBSET Nat
      BY <1>0
    <3> HIDE DEF Bad
    <3> QED
      BY <3>1, LeastNumber
  <2>2. k \in 0 .. n /\ ~ Good(k, moved[k]) /\ k # 0
    <3>1. <<>> \in Seq(Pieces) /\ Len(<<>>) = 0
      OBVIOUS
    <3>2. Good(0, moved[0])
      BY <1>0, <3>1
    <3> QED
      BY <2>1, <3>2
  <2>3. k \in 1 .. n /\ k - 1 \in 0 .. n
    BY <1>0, <2>2
  <2> DEFINE x == moved[k - 1]
             e == Piece(req, list[k], k, n)
  <2>4. Good(k - 1, x)
    <3>1. k - 1 \notin Bad
      BY <1>0, <2>1, <2>3
    <3> QED
      BY <2>3, <3>1
  <2>5. list[k] \in Streams /\ list[k] \in Writable /\ e \in Pieces
    BY <2>3, PieceType
  <2>6. moved[k] = Append(x, e)
    <3>1. Len(x) + 1 = k
      BY <2>3, <2>4
    <3> QED
      BY <1>0, <2>3, <2>5, <3>1 DEF MoveRound
  <2>7. Good(k, Append(x, e))
    <3>1. x \in Seq(Pieces) /\ Len(x) = k - 1 /\ k - 1 \in Nat
      BY <2>3, <2>4
    <3> HIDE DEF x
    <3> DEFINE y == Append(x, e)
    <3>2. y \in Seq(Pieces) /\ Len(y) = k /\ y[k] = e
      <4> HIDE DEF e
      <4> QED
        BY <2>5, <3>1
    <3>3. \A i \in 1 .. k - 1 : y[i] = x[i]
      <4> HIDE DEF e
      <4> QED
        BY <2>5, <3>1
    <3> HIDE DEF y
    <3>4. ASSUME NEW i \in 1 .. k PROVE y[i] = Piece(req, list[i], i, n)
      <4>1. CASE i = k
        BY <3>2, <4>1
      <4>2. CASE i # k
        <5>1. i \in 1 .. k - 1
          BY <2>3, <4>2
        <5> QED
          BY <2>4, <3>3, <5>1 DEF x
      <4> QED
        BY <4>1, <4>2
    <3>5. Good(k, y)
      BY <3>2, <3>4
    <3> QED
      BY <3>5 DEF y
  <2> QED
    BY <2>2, <2>6, <2>7
<1>3. Good(n, moved[n])
  <2>1. n \in 0 .. n
    BY <1>0
  <2> QED
    BY <1>2, <2>1
<1> QED
  BY <1>1, <1>3

\* The bytes of the piece p, by their place b in the buffer, are those of the
\* transfer that the stream s holds.
Covers(req, s, p) ==
    /\ p.stream = s /\ p.buffer \in Int /\ p.position \in Int /\ p.count \in Int
    /\ p.position = req.addr + p.buffer - Base[s]
    /\ \A b \in Int :
         (0 <= b - p.buffer /\ b - p.buffer < p.count)
         <=> (0 <= b /\ b < req.count /\ Holds(s, req.addr + b))

LEMMA Shifted ==
    ASSUME NEW req \in Requests, NEW s \in Streams, NEW p, Covers(req, s, p), NEW k \in Int
    PROVE  p.position + k = req.addr + (p.buffer + k) - Base[s]
<1> DEFINE d == p.position
           a == req.addr
           b == p.buffer
           c == Base[s]
<1>1. d \in Int /\ b \in Int /\ d = a + b - c
  BY DEF Covers
<1>2. a \in Int /\ c \in Int
  BY UnifiedAssumption
<1> HIDE DEF a, b, c, d
<1>3. d + k = a + (b + k) - c
  BY <1>1, <1>2
<1> QED
  BY <1>3 DEF a, b, c, d

\* A zone that begins inside the transfer and ends inside it or with it last.
LEMMA InnerSpan ==
    ASSUME NEW base \in Int, NEW size \in Int, NEW addr \in Int, NEW count \in Int,
           NEW b \in Int, addr < base, base + size < addr + count
    PROVE  (0 <= b - (base - addr) /\ b - (base - addr) < size)
           <=> (0 <= b /\ b < count /\ base <= addr + b /\ addr + b < base + size)
OBVIOUS

LEMMA LastSpan ==
    ASSUME NEW base \in Int, NEW size \in Int, NEW addr \in Int, NEW count \in Int,
           NEW b \in Int, addr < base, addr + count <= base + size
    PROVE  (0 <= b - (base - addr) /\ b - (base - addr) < count - (base - addr))
           <=> (0 <= b /\ b < count /\ base <= addr + b /\ addr + b < base + size)
OBVIOUS

LEMMA PieceBytes ==
    ASSUME NEW zones \in SUBSET Streams, Tiled(zones), NEW req \in Requests,
           NEW first, Starts(zones, req, first), ~ LeavesMidway(req, first), NEW list,
           list = QueryZoneTouches(zones, req), NEW j \in 1 .. Len(list)
    PROVE  Covers(req, list[j], Piece(req, list[j], j, Len(list)))
<1> DEFINE s == list[j]
           n == Len(list)
           p == Piece(req, s, j, n)
           whole == CheckInReadZone(req, s)
           buffer == IF j = 1 THEN 0 ELSE Base[s] - req.addr
           position == IF j = 1 /\ ~ whole THEN req.addr - Base[s] ELSE 0
           count == IF whole \/ j \notin {1, n} THEN Size[s] ELSE req.count - buffer
<1>1. /\ list \in Seq(zones) /\ n \in Nat /\ list[1] = first
      /\ \A i \in 1 .. n : list[i] \in Wanted(zones, req, first)
      /\ \A i, k \in 1 .. n : i < k => Base[list[i]] < Base[list[k]]
  BY QueryIsWanted
<1>2. /\ req.addr \in Nat /\ req.count \in Nat /\ 0 < req.count
      /\ Base[first] <= req.addr /\ req.addr < End(first)
      /\ \A x, y \in zones : Base[x] < Base[y] => End(x) <= Base[y]
  BY TiledFacts
<1>3. s \in zones /\ s \in Streams /\ first \in zones /\ first \in Streams
  BY <1>1 DEF Starts
<1>4. p = [stream |-> s, position |-> position, buffer |-> buffer, count |-> count]
  BY DEF Piece
<1>5. /\ p.stream = s /\ p.position = position /\ p.buffer = buffer /\ p.count = count
  <2> HIDE DEF p, position, buffer, count, s
  <2> QED
    BY <1>4
<1>6. /\ Base[s] \in Nat /\ Size[s] \in Nat /\ End(s) = Base[s] + Size[s]
      /\ Base[first] \in Nat /\ End(first) \in Nat
      /\ \A a \in Int : Holds(s, a) <=> Base[s] <= a /\ a < End(s)
  <2> HIDE DEF s
  <2> QED
    BY <1>3, Places
<1>7. j = 1 => s = first
  BY <1>1
<1>8. j # 1 => req.addr < Base[s] /\ Base[s] < req.addr + req.count
  <2> SUFFICES ASSUME j # 1 PROVE req.addr < Base[s] /\ Base[s] < req.addr + req.count
    OBVIOUS
  <2>1. 1 \in 1 .. n /\ 1 < j
    BY <1>1
  <2>2. Base[first] < Base[s]
    BY <1>1, <2>1
  <2>3. End(first) <= Base[s]
    BY <1>2, <1>3, <2>2
  <2>4. Base[s] < req.addr + req.count
    <3>1. s \in Wanted(zones, req, first)
      BY <1>1
    <3> QED
      BY <2>2, <1>6, <3>1 DEF Wanted
  <2> QED
    BY <1>2, <1>6, <2>3, <2>4
<1>9. j \notin {1, n} => End(s) < req.addr + req.count
  <2> SUFFICES ASSUME j \notin {1, n} PROVE End(s) < req.addr + req.count
    OBVIOUS
  <2>1. j + 1 \in 1 .. n /\ j < j + 1
    BY <1>1
  <2> DEFINE u == list[j + 1]
  <2>2. Base[s] < Base[u] /\ u \in Wanted(zones, req, first)
    BY <1>1, <2>1
  <2>3. Base[first] < Base[s]
    <3>1. 1 \in 1 .. n /\ 1 < j
      BY <1>1
    <3> QED
      BY <1>1, <3>1
  <2> HIDE DEF u, s
  <2>4. u \in zones /\ Base[u] \in Nat
    BY <2>2, Places DEF Wanted
  <2>5. End(s) <= Base[u]
    BY <1>2, <1>3, <2>2, <2>4
  <2>6. Base[u] < req.addr + req.count
    BY <1>6, <2>2, <2>3, <2>4 DEF Wanted
  <2> QED
    BY <1>2, <1>6, <2>4, <2>5, <2>6, SMTT(60)
<1>10. whole <=> Base[s] >= req.addr /\ End(s) < req.addr + req.count
  BY DEF CheckInReadZone
<1> HIDE DEF p, s, n, whole
<1>11. /\ buffer \in Int /\ position \in Int /\ count \in Int
       /\ position = req.addr + buffer - Base[s]
  BY <1>2, <1>6, <1>7, <1>8, <1>10, SMTT(60)
<1>12. ASSUME NEW b \in Int
       PROVE  (0 <= b - buffer /\ b - buffer < count)
              <=> (0 <= b /\ b < req.count /\ Holds(s, req.addr + b))
  <2>1. Holds(s, req.addr + b) <=> Base[s] <= req.addr + b /\ req.addr + b < End(s)
    BY <1>2, <1>6, SMTT(60)
  <2>2. CASE j = 1 /\ whole
    <3>1. buffer = 0 /\ position = 0 /\ count = Size[s] /\ Base[s] = req.addr
      BY <1>2, <1>6, <1>7, <1>10, <2>2
    <3> QED
      BY <1>2, <1>6, <1>10, <2>1, <2>2, <3>1, SMTT(60)
  <2>3. CASE j = 1 /\ ~ whole
    <3>1. buffer = 0 /\ position = req.addr - Base[s] /\ count = req.count
      BY <1>2, <2>3
    <3>2. Base[s] <= req.addr /\ req.addr + req.count <= End(s)
      BY <1>2, <1>6, <1>7, <1>10, <2>3 DEF LeavesMidway
    <3> QED
      BY <1>2, <1>6, <1>7, <2>1, <2>3, <3>1, <3>2, SMTT(60)
  <2>4. CASE j # 1
    <3>1. buffer = Base[s] - req.addr /\ position = 0
      BY <2>4
    <3>2. CASE whole \/ j # n
      <4>1. count = Size[s] /\ End(s) < req.addr + req.count
        BY <1>9, <1>10, <2>4, <3>2
      <4> DEFINE base == Base[s]
                 size == Size[s]
                 addr == req.addr
                 all == req.count
      <4>2. /\ base \in Int /\ size \in Int /\ addr \in Int /\ all \in Int
            /\ addr < base /\ base + size < addr + all
        BY <1>2, <1>6, <1>8, <2>4, <4>1
      <4>3. Holds(s, addr + b) <=> base <= addr + b /\ addr + b < base + size
        BY <1>6, <2>1, Zenon
      <4> HIDE DEF buffer, position, count, base, size, addr, all
      <4>4. buffer = base - addr /\ position = 0 /\ count = size
        BY <3>1, <4>1 DEF base, size, addr, all
      <4>5. (0 <= b - buffer /\ b - buffer < count)
            <=> (0 <= b /\ b < all /\ base <= addr + b /\ addr + b < base + size)
        BY <4>2, <4>4, InnerSpan
      <4> QED
        BY <4>3, <4>5, Zenon DEF size, addr, all
    <3>3. CASE ~ whole /\ j = n
      <4>1. count = req.count - buffer
        BY <3>3
      <4> DEFINE base == Base[s]
                 size == Size[s]
                 addr == req.addr
                 all == req.count
      <4>2. /\ base \in Int /\ size \in Int /\ addr \in Int /\ all \in Int
            /\ addr < base /\ addr + all <= base + size
        BY <1>2, <1>6, <1>8, <1>10, <2>4, <3>3
      <4>3. Holds(s, addr + b) <=> base <= addr + b /\ addr + b < base + size
        BY <1>6, <2>1, Zenon
      <4> HIDE DEF buffer, position, count, base, size, addr, all
      <4>4. buffer = base - addr /\ position = 0 /\ count = all - (base - addr)
        BY <3>1, <4>1 DEF base, size, addr, all
      <4>5. (0 <= b - buffer /\ b - buffer < count)
            <=> (0 <= b /\ b < all /\ base <= addr + b /\ addr + b < base + size)
        BY <4>2, <4>4, LastSpan
      <4> QED
        BY <4>3, <4>5, Zenon DEF size, addr, all
    <3> QED
      BY <3>2, <3>3
  <2> QED
    BY <2>2, <2>3, <2>4
<1> HIDE DEF buffer, position, count
<1> QED
  BY <1>5, <1>11, <1>12 DEF p, s, n, Covers

\* A stream that holds a byte of the transfer is wanted.
LEMMA HoldersAreWanted ==
    ASSUME NEW zones \in SUBSET Streams, Tiled(zones), NEW req \in Requests,
           NEW first, Starts(zones, req, first),
           NEW s \in zones, NEW b \in 0 .. req.count - 1, Holds(s, req.addr + b)
    PROVE  s \in Wanted(zones, req, first)
<1>1. /\ req.addr \in Nat /\ req.count \in Nat /\ Base[first] <= req.addr
      /\ first \in zones
      /\ Base[s] < Base[first] => End(s) <= Base[first]
  BY TiledFacts DEF Starts
<1>2. /\ Base[s] \in Nat /\ Base[first] \in Nat /\ End(s) \in Nat
      /\ Base[s] <= req.addr + b /\ req.addr + b < End(s)
      /\ Base[s] = Base[first] => s = first
  BY <1>1, Places
<1>3. s = first \/ Base[first] < Base[s]
  BY <1>1, <1>2
<1> QED
  BY <1>1, <1>2, <1>3 DEF Wanted

\* Where the table keeps apart, what is moved is what a flat memory moves.
LEMMA FlatTransfer ==
    ASSUME m_MemZones \in SUBSET Streams, Apart, m_MemZones \subseteq Writable,
           NEW req \in Requests, NEW first \in m_MemZones, Holds(first, req.addr),
           ~ LeavesMidway(req, first)
    PROVE  Bytes(Interpreted(req)) = Flat(req)
<1> DEFINE zones == m_MemZones
           list == QueryZoneTouches(zones, req)
           n == Len(list)
           pieces == RunOperation(req, list)
<1>1. Tiled(zones) /\ Starts(zones, req, first) /\ zones \in SUBSET Streams
  BY DEF Apart, Tiled, Starts
<1>2. Interpreted(req) = pieces
  BY DEF Interpreted
<1>3. /\ list \in Seq(zones) /\ n \in Nat
      /\ \A s \in Wanted(zones, req, first) : \E i \in 1 .. n : list[i] = s
  BY <1>1, QueryIsWanted
<1>4. list \in Seq(Streams) /\ \A i \in 1 .. n : list[i] \in Writable /\ list[i] \in zones
  BY <1>1, <1>3
<1>5. /\ pieces \in Seq(Pieces) /\ Len(pieces) = n
      /\ \A i \in 1 .. n : pieces[i] = Piece(req, list[i], i, n)
  BY <1>4, AllMoved
<1>6. \A i \in 1 .. n : Covers(req, list[i], pieces[i])
  BY <1>1, <1>5, PieceBytes, Zenon
<1>7. req.addr \in Nat /\ req.count \in Nat
  BY UnifiedAssumption
<1> HIDE DEF pieces
<1> DEFINE Inside(p) == 0 .. p.count - 1
           Moves(p) == { [buffer |-> p.buffer + k, stream |-> p.stream,
                          position |-> p.position + k] : k \in Inside(p) }
           Held(s) == {k \in 0 .. req.count - 1 : Holds(s, req.addr + k)}
           Has(s) == { [buffer |-> k, stream |-> s,
                        position |-> req.addr + k - Base[s]] : k \in Held(s) }
<1>8. Bytes(pieces) = UNION {Moves(p) : p \in ToSet(pieces)}
  BY Zenon DEF Bytes
<1>9. Flat(req) = UNION {Has(s) : s \in zones}
  BY Zenon DEF Flat
<1> HIDE DEF Moves, Has
<1>10. ASSUME NEW e \in Bytes(pieces) PROVE e \in Flat(req)
  <2>1. PICK p \in ToSet(pieces) : e \in Moves(p)
    BY <1>8, Zenon
  <2>2. PICK k \in Inside(p) :
           e = [buffer |-> p.buffer + k, stream |-> p.stream, position |-> p.position + k]
    BY <2>1, Zenon DEF Moves
  <2>3. PICK i \in 1 .. n : p = pieces[i]
    BY <1>3, <1>5 DEF ToSet
  <2> DEFINE s == list[i]
             b == p.buffer + k
  <2>4. Covers(req, s, p)
    BY <1>6, <2>3
  <2>5. /\ p.stream = s /\ p.buffer \in Int /\ p.position \in Int /\ p.count \in Int
        /\ p.position = req.addr + p.buffer - Base[s]
    BY <2>4 DEF Covers
  <2>6. k \in Int /\ b \in Int /\ b - p.buffer = k /\ 0 <= k /\ k < p.count
    BY <2>5
  <2>7. s \in zones /\ Base[s] \in Int
    BY <1>1, <1>4, Places
  <2> HIDE DEF s
  <2>8. p.position + k = req.addr + b - Base[s]
    BY <1>1, <2>4, <2>6, <2>7, Shifted
  <2> HIDE DEF b
  <2>9. 0 <= b /\ b < req.count /\ Holds(s, req.addr + b)
    BY <2>4, <2>6 DEF Covers
  <2>10. b \in Held(s)
    BY <1>7, <2>6, <2>9
  <2>11. e = [buffer |-> b, stream |-> s, position |-> req.addr + b - Base[s]]
    BY <2>2, <2>5, <2>8 DEF b
  <2>12. e \in Has(s)
    BY <2>10, <2>11, Zenon DEF Has
  <2> QED
    BY <1>9, <2>7, <2>12, Zenon
<1>11. ASSUME NEW e \in Flat(req) PROVE e \in Bytes(pieces)
  <2>1. PICK s \in zones : e \in Has(s)
    BY <1>9, Zenon
  <2>2. PICK b \in Held(s) :
           e = [buffer |-> b, stream |-> s, position |-> req.addr + b - Base[s]]
    BY <2>1, Zenon DEF Has
  <2>3. b \in 0 .. req.count - 1 /\ Holds(s, req.addr + b)
    BY <2>2
  <2>4. s \in Wanted(zones, req, first)
    BY <1>1, <2>3, HoldersAreWanted
  <2>5. PICK i \in 1 .. n : list[i] = s
    BY <1>3, <2>4
  <2> DEFINE p == pieces[i]
             k == b - p.buffer
  <2>6. Covers(req, s, p)
    BY <1>6, <2>5
  <2> HIDE DEF p
  <2>7. /\ p.stream = s /\ p.buffer \in Int /\ p.position \in Int /\ p.count \in Int
        /\ p.position = req.addr + p.buffer - Base[s]
    BY <2>6 DEF Covers
  <2>8. 0 <= b /\ b < req.count /\ b \in Int /\ Base[s] \in Int
    <3>1. s \in Streams
      BY <1>1
    <3> QED
      BY <1>7, <2>3, <3>1, Places
  <2>9. 0 <= k /\ k < p.count
    BY <2>3, <2>6, <2>8, SMTT(60) DEF Covers
  <2>10. k \in Int /\ p.buffer + k = b /\ p.position + k = req.addr + b - Base[s]
    <3>1. k \in Int /\ p.buffer + k = b /\ req.addr \in Int
      BY <1>7, <2>7, <2>8
    <3>2. p.position + k = req.addr + (p.buffer + k) - Base[s]
      BY <1>1, <2>6, <3>1, Shifted, SMTT(60)
    <3> QED
      BY <3>1, <3>2, SMTT(60)
  <2>11. k \in Inside(p)
    BY <2>7, <2>9, <2>10
  <2>12. e = [buffer |-> p.buffer + k, stream |-> p.stream, position |-> p.position + k]
    BY <2>2, <2>7, <2>10
  <2>13. p \in ToSet(pieces)
    BY <1>5 DEF ToSet, p
  <2> HIDE DEF k
  <2>14. e \in Moves(p)
    BY <2>11, <2>12, Zenon DEF Moves
  <2> QED
    BY <1>8, <2>13, <2>14, Zenon
<1> QED
  BY <1>2, <1>10, <1>11, Zenon

\* Reads and writes of the safe stream cross streams and gaps as a flat memory
\* would, unless they leave the stream they begin in the middle of: every byte
\* of a mapped transfer goes to its address, once, no stream is asked for bytes
\* past its end, and the bytes of gaps are left alone.
THEOREM TransfersAreFlat == StreamSpec => []InterpretedIsFlat
<1>1. CodeInv => InterpretedIsFlat
  <2> SUFFICES ASSUME CodeInv, Apart, m_MemZones \subseteq Writable,
                      NEW req \in Requests,
                      NEW first \in m_MemZones, Holds(first, req.addr),
                      ~ LeavesMidway(req, first)
               PROVE  Bytes(Interpreted(req)) = Flat(req)
    BY DEF InterpretedIsFlat
  <2>1. m_MemZones \in SUBSET Streams
    BY DEF CodeInv
  <2> QED
    BY <2>1, FlatTransfer
<1> QED
  BY <1>1, CodeHolds, PTL

-----------------------------------------------------------------------------
(* 4. The cache of the compiler.                                           *)

\* The cache is bounded, and it is a finite function.
CacheInv ==
    /\ m_CacheCount \in Nat
    /\ IsFiniteSet(DOMAIN m_CompiledOperations)
    /\ CacheBounded

LEMMA NoCode == DOMAIN Empty = {}
BY DEF Empty

\* Keeping the code of a transfer that had none makes one more.
LEMMA OneMore ==
    ASSUME NEW req, NEW list, NEW ops, NEW refs, NEW n \in Nat, NEW history,
           IsFiniteSet(DOMAIN ops), n = Cardinality(DOMAIN ops), n <= CACHE_MAX,
           HashOf[req] \notin DOMAIN ops, CompileAndKeep(req, list, ops, refs, n, history)
    PROVE  CacheInv'
<1> DEFINE key == HashOf[req]
<1>1. /\ m_CacheCount' = n + 1
      /\ \E code : m_CompiledOperations' = Keep(ops, key, code)
  BY DEF CompileAndKeep
<1>2. DOMAIN m_CompiledOperations' = DOMAIN ops \cup {key}
  BY <1>1 DEF Keep
<1>3. /\ IsFiniteSet(DOMAIN ops \cup {key})
      /\ Cardinality(DOMAIN ops \cup {key}) = n + 1
  BY FS_AddElement
<1> QED
  BY <1>1, <1>2, <1>3, UnifiedAssumption DEF CacheInv, CacheBounded

LEMMA CacheStep == CacheInv /\ [StreamNext]_streamVars => CacheInv'
<1> SUFFICES ASSUME CacheInv, [StreamNext]_streamVars PROVE CacheInv'
  OBVIOUS
<1>0. IsFiniteSet({}) /\ Cardinality({}) = 0 /\ CACHE_MAX \in Nat
  BY FS_EmptySet, UnifiedAssumption
<1>1. ASSUME NEW req \in Requests, CompiledTransfer(req) PROVE CacheInv'
  <2>1. CASE CacheFull
    <3>1. \E list : CompileAndKeep(req, list, Empty, <<>>, 0, Empty)
      BY <1>1, <2>1 DEF CompiledTransfer
    <3> QED
      BY <3>1, <1>0, NoCode, OneMore
  <2>2. CASE ~CacheFull
    <3>1. /\ HashOf[req] \notin DOMAIN m_CompiledOperations
          /\ \E list : CompileAndKeep(req, list, m_CompiledOperations,
                                      m_StreamReferences, m_CacheCount, compiledIn)
      BY <1>1, <2>2 DEF CompiledTransfer, ContainsOperation
    <3>2. m_CacheCount <= CACHE_MAX
      BY <1>0, <2>2 DEF CacheFull, CacheInv
    <3> QED
      BY <3>1, <3>2, OneMore DEF CacheInv, CacheBounded
  <2> QED
    BY <2>1, <2>2
<1>2. ASSUME NEW s \in Streams, Add(s) PROVE CacheInv'
  BY <1>2 DEF Add, CacheInv, CacheBounded
<1>3. ASSUME ClearCache PROVE CacheInv'
  BY <1>0, <1>3, NoCode DEF ClearCache, CacheInv, CacheBounded
<1>4. CASE UNCHANGED streamVars
  BY <1>4 DEF streamVars, CacheInv, CacheBounded
<1> QED
  BY <1>1, <1>2, <1>3, <1>4 DEF StreamNext, RemoveStream, Clear

\* The count follows every clear, and the cache outgrows its bound by one at
\* most.
THEOREM CacheIsBounded == StreamSpec => []CacheBounded
<1>1. StreamInit => CacheInv
  BY FS_EmptySet, NoCode, UnifiedAssumption DEF StreamInit, CacheInv, CacheBounded
<1>2. CacheInv => CacheBounded
  BY DEF CacheInv
<1> QED
  BY <1>1, <1>2, CacheStep, PTL DEF StreamSpec
=============================================================================
