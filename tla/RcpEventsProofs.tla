-------------------------- MODULE RcpEventsProofs --------------------------
(***************************************************************************)
(* What the event queue of the mupen64plus core guarantees for any program *)
(* and any durations of the devices' operations.                           *)
(*                                                                         *)
(* The argument follows the code.  Section 1 is about sequences of events, *)
(* section 2 about the operations of the queue and of the interrupts,      *)
(* section 3 about gen_interupt with the handlers it calls, section 4      *)
(* about the instructions; the theorems of section 5 follow.  Section 6    *)
(* adds the times of the events: no device's event is dispatched early.    *)
(***************************************************************************)
EXTENDS RcpEvents, SequenceTheorems, WellFoundedInduction, TLAPS

-----------------------------------------------------------------------------
(* 1. Sequences of events.                                                 *)

Kinds(q) == {q[i].type : i \in DOMAIN q}
OneMarker(q) == \E i \in DOMAIN q : \A j \in DOMAIN q : q[j].type = "SPECIAL" <=> j = i
NoMarker(q) == \A j \in DOMAIN q : q[j].type # "SPECIAL"

LEMMA Constants ==
    /\ Modulus \in Nat /\ Modulus > 1 /\ Half \in Nat /\ Capacity \in Nat /\ Capacity > 2
    /\ 0 \in Words /\ \A x \in Int : x % Modulus \in Words
    /\ Words \subseteq Int /\ CountPerOp \in Int
<1>1. /\ Modulus \in Nat \ {0} /\ Half \in Nat \ {0} /\ Capacity \in Nat \ {0}
      /\ Modulus = 2 * Half /\ Capacity > 2 /\ CountPerOp \in Nat
  BY WidthAssumption
<1> QED
  BY <1>1 DEF Words

\* Every set of numbers that is not empty has a least element.
LEMMA LeastIsLeast ==
    ASSUME NEW S \in SUBSET Nat, S # {}
    PROVE  Least(S) \in S /\ \A j \in S : Least(S) <= j
<1> DEFINE Less == OpToRel(<, Nat)
<1>1. PICK i \in S : \A j \in S : <<j, i>> \notin Less
  BY WFMin, NatLessThanWellFounded, Zenon
<1>2. \A j, k \in Nat : j < k => <<j, k>> \in Less
  BY Zenon DEF OpToRel
<1> HIDE DEF Less
<1>3. \A j \in S : ~ j < i
  BY <1>1, <1>2, Zenon
<1>4. \A j \in S : i <= j
  BY <1>3
<1> QED
  BY <1>4 DEF Least

\* p is q with the event e after its first k.
Insertion(q, k, e, p) ==
    /\ p \in Seq(Events) /\ Len(p) = Len(q) + 1 /\ p # <<>>
    /\ Kinds(p) = Kinds(q) \cup {e.type}
    /\ p[1] = IF k = 0 THEN e ELSE q[1]
    /\ OneMarker(q) /\ e.type # "SPECIAL" => OneMarker(p)
    /\ NoMarker(q) /\ e.type = "SPECIAL" => OneMarker(p)
    /\ NoMarker(q) /\ e.type # "SPECIAL" => NoMarker(p)

LEMMA InsertedFacts ==
    ASSUME NEW q \in Seq(Events), NEW k \in 0 .. Len(q), NEW e \in Events
    PROVE  Insertion(q, k, e, Inserted(q, k, e))
<1> DEFINE p == Inserted(q, k, e)
<1>0. Len(q) \in Nat /\ \A i \in 1 .. Len(q) : q[i] \in Events
  OBVIOUS
<1>1. /\ p \in Seq(Events) /\ Len(p) = Len(q) + 1
      /\ \A i \in 1 .. Len(q) + 1 :
            p[i] = IF i <= k THEN q[i] ELSE IF i = k + 1 THEN e ELSE q[i - 1]
  BY <1>0 DEF Inserted
<1>2. \A i \in 1 .. Len(q) : IF i <= k THEN p[i] = q[i] ELSE p[i + 1] = q[i]
  BY <1>0, <1>1
<1>3. p[k + 1] = e
  BY <1>0, <1>1
<1>4. DOMAIN p = 1 .. Len(q) + 1 /\ DOMAIN q = 1 .. Len(q)
  BY <1>1
<1>5. Kinds(p) = Kinds(q) \cup {e.type}
  <2>1. ASSUME NEW i \in DOMAIN p PROVE p[i].type \in Kinds(q) \cup {e.type}
    <3>1. CASE i <= k
      BY <3>1, <1>0, <1>1, <1>4 DEF Kinds
    <3>2. CASE i = k + 1
      BY <3>2, <1>3
    <3>3. CASE ~ i <= k + 1
      <4>1. i - 1 \in DOMAIN q /\ p[i] = q[i - 1]
        BY <3>3, <1>0, <1>1, <1>4
      <4> QED
        BY <4>1 DEF Kinds
    <3> QED
      BY <3>1, <3>2, <3>3, <1>0, <1>4
  <2>2. ASSUME NEW i \in DOMAIN q PROVE q[i].type \in Kinds(p)
    <3>1. \E j \in DOMAIN p : p[j] = q[i]
      BY <1>0, <1>2, <1>4
    <3> QED
      BY <3>1 DEF Kinds
  <2>3. e.type \in Kinds(p)
    BY <1>0, <1>3, <1>4 DEF Kinds
  <2> QED
    BY <2>1, <2>2, <2>3 DEF Kinds
<1>6. p[1] = IF k = 0 THEN e ELSE q[1]
  BY <1>0, <1>1
<1>7. ASSUME OneMarker(q), e.type # "SPECIAL" PROVE OneMarker(p)
  <2>1. PICK i \in DOMAIN q : \A j \in DOMAIN q : q[j].type = "SPECIAL" <=> j = i
    BY <1>7 DEF OneMarker
  <2> DEFINE n == IF i <= k THEN i ELSE i + 1
  <2>2. n \in DOMAIN p /\ p[n] = q[i]
    BY <1>0, <1>2, <1>4
  <2>3. ASSUME NEW j \in DOMAIN p PROVE p[j].type = "SPECIAL" <=> j = n
    <3>1. CASE j <= k
      BY <3>1, <2>1, <1>0, <1>1, <1>4
    <3>2. CASE j = k + 1
      BY <3>2, <1>0, <1>3, <1>4, <1>7
    <3>3. CASE ~ j <= k + 1
      <4>1. j - 1 \in DOMAIN q /\ p[j] = q[j - 1]
        BY <3>3, <1>0, <1>1, <1>4
      <4>2. j - 1 = i <=> j = n
        BY <3>3, <1>0, <1>4
      <4> QED
        BY <4>1, <4>2, <2>1
    <3> QED
      BY <3>1, <3>2, <3>3, <1>0, <1>4
  <2> QED
    BY <2>2, <2>3 DEF OneMarker
<1>8. ASSUME NoMarker(q) PROVE IF e.type = "SPECIAL" THEN OneMarker(p) ELSE NoMarker(p)
  <2>1. ASSUME NEW j \in DOMAIN p, j # k + 1 PROVE p[j].type # "SPECIAL"
    <3>1. \E i \in DOMAIN q : p[j] = q[i]
      <4>1. CASE j <= k
        BY <4>1, <1>0, <1>1, <1>4
      <4>2. CASE ~ j <= k
        <5>1. j - 1 \in DOMAIN q /\ p[j] = q[j - 1]
          BY <4>2, <2>1, <1>0, <1>1, <1>4
        <5> QED
          BY <5>1
      <4> QED
        BY <4>1, <4>2
    <3> QED
      BY <3>1, <1>8 DEF NoMarker
  <2>2. k + 1 \in DOMAIN p
    BY <1>0, <1>4
  <2> QED
    BY <2>1, <2>2, <1>3 DEF OneMarker, NoMarker
<1>9. p # <<>>
  BY <1>0, <1>1
<1> QED
  BY <1>1, <1>5, <1>6, <1>7, <1>8, <1>9 DEF Insertion

\* An event taken out of a queue.
LEMMA WithoutFacts ==
    ASSUME NEW q \in Seq(Events), NEW k \in 1 .. Len(q), NEW p, p = Without(q, k)
    PROVE  /\ p \in Seq(Events) /\ Len(p) = Len(q) - 1
           /\ \A t \in Kinds(q) : t = q[k].type \/ t \in Kinds(p)
           /\ k # 1 => p[1] = q[1]
           /\ OneMarker(q) => IF q[k].type = "SPECIAL" THEN NoMarker(p) ELSE OneMarker(p)
           /\ NoMarker(q) => NoMarker(p)
<1>0. Len(q) \in Nat /\ \A i \in 1 .. Len(q) : q[i] \in Events
  OBVIOUS
<1>1. /\ p \in Seq(Events) /\ Len(p) = Len(q) - 1
      /\ \A i \in 1 .. Len(q) - 1 : p[i] = IF i < k THEN q[i] ELSE q[i + 1]
  BY <1>0 DEF Without
<1>2. DOMAIN p = 1 .. Len(q) - 1 /\ DOMAIN q = 1 .. Len(q)
  BY <1>0, <1>1
<1> DEFINE From(i) == IF i < k THEN i ELSE i + 1
<1>3. \A i \in DOMAIN p : From(i) \in DOMAIN q /\ p[i] = q[From(i)] /\ From(i) # k
  BY <1>0, <1>1, <1>2
<1>4. \A j \in DOMAIN q : j # k => \E i \in DOMAIN p : From(i) = j
  <2> SUFFICES ASSUME NEW j \in DOMAIN q, j # k PROVE \E i \in DOMAIN p : From(i) = j
    OBVIOUS
  <2>1. CASE j < k
    BY <2>1, <1>0, <1>2
  <2>2. CASE ~ j < k
    <3>1. j - 1 \in DOMAIN p /\ From(j - 1) = j
      BY <2>2, <1>0, <1>2
    <3> QED
      BY <3>1
  <2> QED
    BY <2>1, <2>2
<1>5. \A i, j \in DOMAIN p : From(i) = From(j) => i = j
  BY <1>0, <1>2
<1> HIDE DEF From
<1>6. ASSUME NEW t \in Kinds(q), t # q[k].type PROVE t \in Kinds(p)
  BY <1>3, <1>4, <1>6 DEF Kinds
<1>7. k # 1 => p[1] = q[1]
  BY <1>0, <1>1
<1>8. ASSUME OneMarker(q)
      PROVE IF q[k].type = "SPECIAL" THEN NoMarker(p) ELSE OneMarker(p)
  <2>1. PICK i \in DOMAIN q : \A j \in DOMAIN q : q[j].type = "SPECIAL" <=> j = i
    BY <1>8 DEF OneMarker
  <2>2. k \in DOMAIN q
    BY <1>2
  <2>3. CASE i = k
    BY <2>1, <2>2, <2>3, <1>3 DEF NoMarker
  <2>4. CASE i # k
    <3>1. PICK n \in DOMAIN p : From(n) = i
      BY <1>4, <2>4
    <3>2. \A j \in DOMAIN p : p[j].type = "SPECIAL" <=> j = n
      BY <3>1, <2>1, <1>3, <1>5
    <3> QED
      BY <3>2, <2>1, <2>2, <2>4 DEF OneMarker
  <2> QED
    BY <2>3, <2>4
<1>9. NoMarker(q) => NoMarker(p)
  BY <1>3 DEF NoMarker
<1> QED
  BY <1>1, <1>6, <1>7, <1>8, <1>9

\* The events moved to another Count stay where they are in the queue.
LEMMA TranslatedFacts ==
    ASSUME NEW s, s.queue \in Seq(Events), s.count \in Words, NEW base \in Words,
           NEW p, p = Translated(s, base)
    PROVE  /\ p \in Seq(Events) /\ Len(p) = Len(s.queue) /\ Kinds(p) = Kinds(s.queue)
           /\ NoMarker(s.queue) => NoMarker(p)
<1>0. Len(s.queue) \in Nat /\ DOMAIN s.queue = 1 .. Len(s.queue)
      /\ \A i \in 1 .. Len(s.queue) : s.queue[i] \in Events
  OBVIOUS
<1>1. ASSUME NEW i \in DOMAIN s.queue
      PROVE  (Diff(s.queue[i].count, s.count) + base) % Modulus \in Words
  <2>1. s.queue[i].count \in Int /\ s.count \in Int /\ base \in Int
    BY <1>0, Constants DEF Events
  <2>2. s.queue[i].count - s.count \in Int
    BY <2>1
  <2>3. Diff(s.queue[i].count, s.count) \in Int
    BY <2>2, Constants DEF Diff
  <2>4. Diff(s.queue[i].count, s.count) + base \in Int
    BY <2>1, <2>3
  <2> QED
    BY <2>4, Constants
<1>2. /\ DOMAIN p = 1 .. Len(s.queue) /\ p = [i \in 1 .. Len(s.queue) |-> p[i]]
      /\ \A i \in DOMAIN s.queue : p[i] \in Events /\ p[i].type = s.queue[i].type
  <2> DEFINE New(i) == (Diff(s.queue[i].count, s.count) + base) % Modulus
  <2>1. p = [i \in DOMAIN s.queue |-> [type |-> s.queue[i].type, count |-> New(i)]]
    BY Zenon DEF Translated
  <2>2. \A i \in DOMAIN s.queue : New(i) \in Words /\ s.queue[i].type \in Types
    BY <1>0, <1>1 DEF Events
  <2> HIDE DEF New
  <2> QED
    BY <1>0, <2>1, <2>2 DEF Events
<1>3. p \in Seq(Events) /\ Len(p) = Len(s.queue)
  <2>1. p \in [1 .. Len(s.queue) -> Events]
    BY <1>0, <1>2
  <2> QED
    BY <2>1, <1>0
<1>4. Kinds(p) = Kinds(s.queue)
  BY <1>0, <1>2 DEF Kinds
<1> QED
  BY <1>0, <1>2, <1>3, <1>4 DEF NoMarker

-----------------------------------------------------------------------------
(* 2. The operations of the queue.                                         *)

Typed(s) == s \in Machine /\ (s.running => s.task \in Tasks)
Fits(s) == Typed(s) /\ Len(s.queue) <= Capacity
Steady(s) == Fits(s) /\ OneMarker(s.queue)

\* The properties of a machine.
Busy(s) ==
    /\ s.pi => "PI" \in Kinds(s.queue)
    /\ s.ai > 0 => "AI" \in Kinds(s.queue)
    /\ "VI" \in Kinds(s.queue)
\* every unmasked interrupt of the RCP is in Cause, and one pending is queued
Seen(s) == Enabled(s) => (s.intr \cap s.mask # {} => "rcp" \in s.cause)
Queued(s) == Enabled(s) /\ Pending(s) => "CHECK" \in Kinds(s.queue)
Headed(s) == s.next \in {0, s.queue[1].count}

\* r is s but for the queue, next_interupt and SPECIAL_done.
Frame(s, r) ==
    /\ r.count = s.count /\ r.lag = s.lag /\ r.compare = s.compare
    /\ r.ie = s.ie /\ r.exl = s.exl /\ r.epc = s.epc /\ r.im = s.im
    /\ r.cause = s.cause /\ r.intr = s.intr /\ r.mask = s.mask
    /\ r.slot = s.slot /\ r.skip = s.skip /\ r.pi = s.pi /\ r.ai = s.ai
    /\ r.vi = s.vi /\ r.running = s.running /\ r.onbreak = s.onbreak
    /\ r.task = s.task /\ r.frozen = s.frozen /\ r.deferred = s.deferred
    /\ r.job = s.job

LEMMA PositionsOfKind ==
    ASSUME NEW s, NEW t
    PROVE  Positions(s, t) # {} <=> t \in Kinds(s.queue)
BY DEF Positions, Kinds

LEMMA QueueOf ==
    ASSUME NEW s \in Machine
    PROVE  /\ s.queue \in Seq(Events) /\ Len(s.queue) \in Nat
           /\ DOMAIN s.queue = 1 .. Len(s.queue) /\ s.count \in Words
           /\ \A i \in 1 .. Len(s.queue) : s.queue[i].count \in Words
                                           /\ s.queue[i].type \in Types
<1>1. s.queue \in Seq(Events) /\ s.count \in Words
  BY DEF Machine
<1>2. \A i \in 1 .. Len(s.queue) : s.queue[i] \in Events
  BY <1>1
<1>3. DOMAIN s.queue = 1 .. Len(s.queue) /\ Len(s.queue) \in Nat
  BY <1>1
<1> QED
  BY <1>1, <1>2, <1>3 DEF Events

\* remove_event and get_event look at the first event of a type.
LEMMA FirstOfType ==
    ASSUME NEW s \in Machine, NEW t, Positions(s, t) # {}
    PROVE  /\ Least(Positions(s, t)) \in 1 .. Len(s.queue)
           /\ s.queue[Least(Positions(s, t))].type = t
<1>1. Positions(s, t) \subseteq 1 .. Len(s.queue) /\ Positions(s, t) \in SUBSET Nat
  BY QueueOf DEF Positions
<1>2. Least(Positions(s, t)) \in Positions(s, t)
  BY <1>1, LeastIsLeast
<1> QED
  BY <1>1, <1>2 DEF Positions

\* The two loops of add_interupt_event_count end inside the queue.
LEMMA PlaceInside ==
    ASSUME NEW s, s.queue \in Seq(Events), NEW t, NEW c
    PROVE  Place(s, t, c) \in 0 .. Len(s.queue)
<1> DEFINE n == Len(s.queue)
           B == {k \in 1 .. n : k = n \/ BeforeEvent(s, c, s.queue[k + 1])}
           behind == Least(B)
           E == {k \in behind .. n : k = n \/ s.queue[k + 1].count # c}
<1>0. n \in Nat
  OBVIOUS
<1>1. ASSUME n # 0 PROVE behind \in 1 .. n /\ Least(E) \in behind .. n
  <2>1. n \in B /\ B \in SUBSET Nat /\ B \subseteq 1 .. n
    BY <1>0, <1>1
  <2> HIDE DEF B
  <2>2. behind \in 1 .. n
    BY <2>1, LeastIsLeast
  <2> HIDE DEF behind
  <2>3. n \in E /\ E \in SUBSET Nat /\ E \subseteq behind .. n
    BY <1>0, <2>2
  <2> HIDE DEF E
  <2> QED
    BY <2>2, <2>3, LeastIsLeast
<1>2. Place(s, t, c) =
        IF n = 0 \/ t = "SPECIAL" THEN n
        ELSE IF BeforeEvent(s, c, s.queue[1]) THEN 0
        ELSE IF behind = n THEN n ELSE Least(E)
  BY Zenon DEF Place
<1> HIDE DEF n, behind, E
<1>3. n = 0 => n \in 0 .. n
  BY <1>0
<1>4. n # 0 => Least(E) \in 0 .. n /\ n \in 0 .. n /\ 0 \in 0 .. n
  BY <1>0, <1>1
<1>5. Place(s, t, c) \in 0 .. n
  BY <1>2, <1>3, <1>4
<1> QED
  BY <1>5 DEF n

\* What adding an event does, whether it is queued or refused.
Added(s, t, c, r) ==
    /\ Typed(r) /\ Frame(s, r) /\ r.next \in {s.next, c}
    /\ Len(r.queue) <= Len(s.queue) + 1
    /\ Len(s.queue) <= Capacity => Len(r.queue) <= Capacity
    /\ Kinds(s.queue) \subseteq Kinds(r.queue)
    /\ Len(s.queue) < Capacity => t \in Kinds(r.queue) /\ r.queue # <<>>
    /\ OneMarker(s.queue) /\ t # "SPECIAL" => OneMarker(r.queue)
    /\ NoMarker(s.queue) /\ t # "SPECIAL" => NoMarker(r.queue)
    /\ NoMarker(s.queue) /\ t = "SPECIAL" /\ Len(s.queue) < Capacity
            => OneMarker(r.queue)
    /\ s.queue = <<>> \/ Headed(s) => Headed(r)

LEMMA AddFacts ==
    ASSUME NEW s, Typed(s), NEW t \in Types, NEW c \in Words,
           NEW r, r = AddEventCount(s, t, c)
    PROVE  Added(s, t, c, r)
<1> DEFINE u == [s EXCEPT !.done = @ /\ s.count <= Half]
           k == Place(u, t, c)
           e == [type |-> t, count |-> c]
           p == Inserted(u.queue, k, e)
           v == [u EXCEPT !.queue = p, !.next = IF k = 0 THEN c ELSE @]
           refused == GetEvent(u, t) # 0 \/ Len(u.queue) >= Capacity
<1>0. s \in Machine /\ s.queue \in Seq(Events) /\ Len(s.queue) \in Nat /\ Capacity \in Nat
      /\ Capacity > 2
  BY QueueOf, Constants DEF Typed
<1>1. u \in Machine
  <2> DEFINE d == s.done /\ s.count <= Half
  <2>1. d \in BOOLEAN
    BY Zenon
  <2>2. u = [s EXCEPT !.done = d]
    BY Zenon
  <2> HIDE DEF d, u
  <2> QED
    BY <2>1, <2>2, <1>0 DEF Machine
<1>2. u.queue = s.queue /\ u.next = s.next /\ Frame(s, u)
  BY <1>0 DEF Machine, Frame
<1>3. Typed(u)
  BY <1>1, <1>2 DEF Typed, Frame
<1>4. r = IF refused THEN u ELSE v
  BY Zenon DEF AddEventCount
<1>5. k \in 0 .. Len(u.queue)
  BY <1>0, <1>2, PlaceInside
<1>6. e \in Events /\ e.type = t /\ e.count = c
  BY DEF Events
<1> HIDE DEF u, k, e
<1>10. u.queue \in Seq(Events) /\ p = Inserted(u.queue, k, e)
  BY <1>0, <1>2
<1>7. /\ p \in Seq(Events) /\ Len(p) = Len(u.queue) + 1 /\ p # <<>>
      /\ Kinds(p) = Kinds(u.queue) \cup {t}
      /\ p[1] = IF k = 0 THEN e ELSE u.queue[1]
      /\ OneMarker(u.queue) /\ t # "SPECIAL" => OneMarker(p)
      /\ NoMarker(u.queue) /\ t = "SPECIAL" => OneMarker(p)
      /\ NoMarker(u.queue) /\ t # "SPECIAL" => NoMarker(p)
  <2> HIDE DEF p
  <2>1. Insertion(u.queue, k, e, p)
    BY <1>5, <1>6, <1>10, InsertedFacts
  <2> QED
    BY <2>1, <1>6 DEF Insertion
<1> HIDE DEF p
<1>8. CASE refused
  <2>1. r = u
    BY <1>4, <1>8
  <2>2. Len(u.queue) < Capacity => t \in Kinds(u.queue)
    <3>1. GetEvent(u, t) # 0 => Positions(u, t) # {}
      BY Zenon DEF GetEvent
    <3> QED
      BY <3>1, <1>8, <1>0, <1>2, PositionsOfKind
  <2>3. NoMarker(u.queue) /\ t = "SPECIAL" => t \notin Kinds(u.queue)
    BY DEF NoMarker, Kinds
  <2>4. Len(u.queue) < Capacity => u.queue # <<>>
    BY <2>2 DEF Kinds
  <2>5. s.queue # <<>>
    BY <2>4, <1>0, <1>2
  <2> HIDE DEF refused
  <2> QED
    BY <2>1, <2>2, <2>3, <2>4, <2>5, <1>0, <1>2, <1>3 DEF Added, Headed
<1>9. CASE ~ refused
  <2>1. r = v
    BY <1>4, <1>9
  <2>2. Len(u.queue) < Capacity
    BY <1>9, <1>0, <1>2
  <2> HIDE DEF refused
  <2>3. r \in Machine
    <3> DEFINE nx == IF k = 0 THEN c ELSE u.next
               w == [u EXCEPT !.queue = p, !.next = nx]
    <3>1. nx \in Words
      BY <1>1 DEF Machine
    <3>2. r = w
      BY <2>1, Zenon
    <3>3. p \in Seq(Events)
      BY <1>7
    <3> HIDE DEF nx, v
    <3>4. w \in Machine
      BY <3>1, <3>3, <1>1, ZenonT(120) DEF Machine
    <3> QED
      BY <3>2, <3>4, Zenon
  <2>4. r.queue = p /\ r.next = (IF k = 0 THEN c ELSE u.next) /\ Frame(u, r)
    BY <2>1, <1>1 DEF Machine, Frame
  <2>5. Typed(r) /\ Frame(s, r)
    BY <2>3, <2>4, <1>2, <1>3 DEF Typed, Frame
  <2>6. s.queue = <<>> \/ Headed(s) => Headed(r)
    <3>1. s.queue = <<>> => k = 0
      BY <1>5, <1>2
    <3>2. CASE k = 0
      BY <3>2, <2>4, <1>6, <1>7 DEF Headed
    <3>3. CASE k # 0
      BY <3>1, <3>3, <2>4, <1>2, <1>7 DEF Headed
    <3> QED
      BY <3>2, <3>3
  <2> QED
    BY <2>2, <2>4, <2>5, <2>6, <1>0, <1>2, <1>7 DEF Added
<1> QED
  BY <1>8, <1>9

\* r is s with one event of type t taken out, if it had one.
Taken(s, t, r) ==
    /\ Typed(r) /\ Frame(s, r)
    /\ Len(r.queue) <= Len(s.queue)
    /\ t \in Kinds(s.queue) => Len(r.queue) = Len(s.queue) - 1
    /\ \A k \in Kinds(s.queue) : k = t \/ k \in Kinds(r.queue)
    /\ OneMarker(s.queue) =>
         IF t = "SPECIAL" THEN NoMarker(r.queue) ELSE OneMarker(r.queue)
    /\ NoMarker(s.queue) => NoMarker(r.queue)

LEMMA RecomputedFacts ==
    ASSUME NEW s \in Machine
    PROVE  Recomputed(s) \in Words /\ Recomputed(s) \in {0, s.queue[1].count}
<1>1. s.queue # <<>> => s.queue[1].count \in Words
  BY QueueOf
<1>2. \/ Recomputed(s) = 0
      \/ s.queue # <<>> /\ Recomputed(s) = s.queue[1].count
  BY Zenon DEF Recomputed
<1> QED
  BY <1>1, <1>2, Constants

LEMMA RemoveHeadFacts ==
    ASSUME NEW s, Typed(s), s.queue # <<>>, NEW r, r = RemoveHead(s)
    PROVE  Taken(s, s.queue[1].type, r) /\ Headed(r)
<1> DEFINE q == Without(s.queue, 1)
           u == [s EXCEPT !.queue = q]
           n == Recomputed(u)
<1>0. s \in Machine /\ s.queue \in Seq(Events) /\ Len(s.queue) \in Nat /\ 1 \in 1 .. Len(s.queue)
  BY QueueOf DEF Typed
<1>1. /\ q \in Seq(Events) /\ Len(q) = Len(s.queue) - 1
      /\ \A t \in Kinds(s.queue) : t = s.queue[1].type \/ t \in Kinds(q)
      /\ OneMarker(s.queue) =>
           IF s.queue[1].type = "SPECIAL" THEN NoMarker(q) ELSE OneMarker(q)
      /\ NoMarker(s.queue) => NoMarker(q)
  BY <1>0, WithoutFacts
<1>2. r = [u EXCEPT !.next = n]
  BY Zenon DEF RemoveHead
<1> HIDE DEF q
<1>3. u \in Machine /\ u.queue = q /\ Frame(s, u)
  BY <1>0, <1>1 DEF Machine, Frame
<1> HIDE DEF u
<1>4. n \in Words /\ n \in {0, q[1].count}
  BY <1>3, RecomputedFacts
<1> HIDE DEF n
<1>5. r \in Machine /\ r.queue = q /\ r.next = n /\ Frame(u, r)
  BY <1>2, <1>3, <1>4 DEF Machine, Frame
<1>6. Frame(s, r) /\ Typed(r)
  BY <1>3, <1>5 DEF Frame, Typed
<1> QED
  BY <1>0, <1>1, <1>4, <1>5, <1>6 DEF Taken, Headed

LEMMA RemoveEventFacts ==
    ASSUME NEW s, Typed(s), NEW t, NEW r, r = RemoveEvent(s, t)
    PROVE  Taken(s, t, r)
<1> DEFINE k == Least(Positions(s, t))
           q == Without(s.queue, k)
           u == [s EXCEPT !.queue = q]
<1>0. s \in Machine /\ s.queue \in Seq(Events) /\ Len(s.queue) \in Nat
  BY QueueOf DEF Typed
<1>1. CASE Positions(s, t) = {}
  <2>1. r = s
    BY <1>1 DEF RemoveEvent
  <2>2. t \notin Kinds(s.queue)
    BY <1>1, PositionsOfKind
  <2>3. OneMarker(s.queue) => t # "SPECIAL"
    BY <2>2 DEF OneMarker, Kinds
  <2>4. Frame(s, r)
    BY <2>1 DEF Frame
  <2> QED
    BY <2>1, <2>2, <2>3, <2>4, <1>0 DEF Taken
<1>2. CASE Positions(s, t) # {}
  <2>1. r = u
    BY <1>2, Zenon DEF RemoveEvent
  <2>2. k \in 1 .. Len(s.queue) /\ s.queue[k].type = t
    BY <1>0, <1>2, FirstOfType
  <2> HIDE DEF k
  <2>3. /\ q \in Seq(Events) /\ Len(q) = Len(s.queue) - 1
        /\ \A i \in Kinds(s.queue) : i = t \/ i \in Kinds(q)
        /\ OneMarker(s.queue) =>
             IF t = "SPECIAL" THEN NoMarker(q) ELSE OneMarker(q)
        /\ NoMarker(s.queue) => NoMarker(q)
    <3>1. /\ q \in Seq(Events) /\ Len(q) = Len(s.queue) - 1
          /\ \A i \in Kinds(s.queue) : i = s.queue[k].type \/ i \in Kinds(q)
          /\ OneMarker(s.queue) =>
               IF s.queue[k].type = "SPECIAL" THEN NoMarker(q) ELSE OneMarker(q)
          /\ NoMarker(s.queue) => NoMarker(q)
      BY <1>0, <2>2, WithoutFacts
    <3> QED
      BY <3>1, <2>2
  <2> HIDE DEF q
  <2>4. u \in Machine /\ u.queue = q /\ Frame(s, u)
    BY <2>3, <1>0 DEF Machine, Frame
  <2> HIDE DEF u
  <2>5. Typed(r)
    BY <2>1, <2>4 DEF Typed, Frame
  <2> QED
    BY <2>1, <2>3, <2>4, <2>5, <1>0 DEF Taken
<1> QED
  BY <1>1, <1>2

LEMMA RemoveHeadKeepsPlace ==
    ASSUME NEW s, Steady(s), NEW r, r = RemoveHead(s)
    PROVE  /\ Taken(s, s.queue[1].type, r) /\ Headed(r)
           /\ Len(r.queue) < Capacity /\ Len(r.queue) < Len(s.queue)
<1>1. s \in Machine /\ s.queue \in Seq(Events) /\ Len(s.queue) \in Nat /\ Capacity \in Nat
  BY QueueOf, Constants DEF Steady, Fits, Typed
<1>2. s.queue # <<>> /\ 1 \in DOMAIN s.queue
  BY <1>1 DEF Steady, OneMarker
<1>3. Taken(s, s.queue[1].type, r) /\ Headed(r)
  BY <1>2, RemoveHeadFacts DEF Steady, Fits
<1>4. s.queue[1].type \in Kinds(s.queue)
  BY <1>2 DEF Kinds
<1>5. r.queue \in Seq(Events) /\ Len(r.queue) \in Nat
  BY <1>3, QueueOf DEF Taken, Typed
<1> QED
  BY <1>1, <1>3, <1>4, <1>5 DEF Taken, Steady, Fits

\* The queue, and what the devices say of themselves, are left alone.
Calm(s, r) ==
    /\ Typed(r) /\ r.queue = s.queue /\ r.pi = s.pi /\ r.ai = s.ai
    /\ Headed(s) => Headed(r)
    /\ (Seen(s) => Seen(r)) /\ (Queued(s) => Queued(r))

\* The two differ in what no property is about.
Alike(s, r) ==
    /\ r.queue = s.queue /\ r.next = s.next /\ r.ie = s.ie /\ r.exl = s.exl
    /\ r.im = s.im /\ r.cause = s.cause /\ r.intr = s.intr /\ r.mask = s.mask
    /\ r.pi = s.pi /\ r.ai = s.ai

LEMMA AlikeIsCalm ==
    ASSUME NEW s, NEW r, Typed(r), Alike(s, r)
    PROVE  Calm(s, r)
BY DEF Alike, Calm, Headed, Seen, Queued, Enabled, Pending

LEMMA UpdateCountFacts ==
    ASSUME NEW s, Typed(s), NEW r, r = UpdateCount(s)
    PROVE  /\ Typed(r) /\ Alike(s, r) /\ r.lag = 0
           /\ r.slot = s.slot /\ r.skip = s.skip /\ r.running = s.running
           /\ r.task = s.task /\ r.compare = s.compare
<1> DEFINE n == (s.count + s.lag) % Modulus
           u == [s EXCEPT !.count = n, !.lag = 0]
<1>1. s \in Machine /\ n \in Words /\ 0 \in Words
  <2>1. s \in Machine /\ s.count \in Words /\ s.lag \in Words
    BY DEF Typed, Machine
  <2>2. s.count + s.lag \in Int
    <3>1. s.count \in Int /\ s.lag \in Int
      BY <2>1, Constants
    <3> QED
      BY <3>1
  <2> QED
    BY <2>1, <2>2, Constants
<1>2. r = u
  BY Zenon DEF UpdateCount
<1> HIDE DEF n
<1>3. u \in Machine
  BY <1>1 DEF Machine
<1>4. /\ Alike(s, u) /\ u.lag = 0 /\ u.slot = s.slot /\ u.skip = s.skip
      /\ u.running = s.running /\ u.task = s.task /\ u.compare = s.compare
  BY <1>1 DEF Machine, Alike
<1> HIDE DEF u
<1> QED
  BY <1>2, <1>3, <1>4 DEF Typed

\* An exception disables interrupts, so that none has to be noticed.
LEMMA ExceptionFacts ==
    ASSUME NEW s, Typed(s), NEW r, r = ExceptionGeneral(s)
    PROVE  Calm(s, r) /\ Seen(r) /\ Queued(r)
<1> DEFINE b == UpdateCount(s)
           e == IF b.exl THEN "handler" ELSE "thread"
           k == b.skip \/ b.slot
           n == IF b.slot THEN 0 ELSE b.next
           u == [b EXCEPT !.exl = TRUE, !.epc = e, !.skip = k, !.next = n]
<1>1. r = u
  BY Zenon DEF ExceptionGeneral
<1>2. Typed(b) /\ Alike(s, b)
  BY UpdateCountFacts
<1> HIDE DEF b
<1>3. /\ b \in Machine /\ e \in {"none", "thread", "handler"} /\ n \in Words
      /\ k \in BOOLEAN /\ n \in {0, b.next}
  <2>1. b \in Machine /\ b.next \in Words
    BY <1>2 DEF Typed, Machine
  <2>2. e \in {"none", "thread", "handler"}
    BY Zenon
  <2>3. k \in BOOLEAN
    BY Zenon
  <2>4. n \in {0, b.next}
    BY Zenon
  <2> HIDE DEF e, k, n
  <2> QED
    BY <2>1, <2>2, <2>3, <2>4, Constants
<1> HIDE DEF e, k, n
<1>4. u \in Machine
  BY <1>3 DEF Machine
<1>5. /\ u.queue = b.queue /\ u.pi = b.pi /\ u.ai = b.ai /\ u.next = n
      /\ u.exl = TRUE /\ u.running = b.running /\ u.task = b.task
  BY <1>3 DEF Machine
<1> HIDE DEF u
<1>6. Typed(r)
  BY <1>1, <1>2, <1>4, <1>5 DEF Typed
<1>7. Seen(r) /\ Queued(r)
  BY <1>1, <1>5 DEF Seen, Queued, Enabled
<1>8. Headed(s) => Headed(r)
  BY <1>1, <1>2, <1>3, <1>5 DEF Headed, Alike
<1> QED
  BY <1>1, <1>2, <1>5, <1>6, <1>7, <1>8 DEF Calm, Alike

LEMMA RaiseMaskableFacts ==
    ASSUME NEW s, Typed(s), NEW l \in {"rcp", "timer", "hw2"},
           NEW r, r = RaiseMaskable(s, l)
    PROVE  Calm(s, r) /\ (Seen(s) \/ l = "rcp" => Seen(r) /\ Queued(r))
<1> DEFINE d == s.cause \cup {l}
           u == [s EXCEPT !.cause = d]
<1>1. r = IF Enabled(u) /\ Pending(u) THEN ExceptionGeneral(u) ELSE u
  BY Zenon DEF RaiseMaskable
<1>2. s \in Machine /\ d \in SUBSET {"rcp", "timer", "hw2"}
      /\ ("rcp" \in s.cause \/ l = "rcp" => "rcp" \in d)
  BY DEF Typed, Machine
<1> HIDE DEF d
<1>3. u \in Machine
  BY <1>2 DEF Machine
<1>4. /\ u.queue = s.queue /\ u.next = s.next /\ u.pi = s.pi /\ u.ai = s.ai
      /\ u.ie = s.ie /\ u.exl = s.exl /\ u.cause = d /\ u.intr = s.intr
      /\ u.mask = s.mask /\ u.running = s.running /\ u.task = s.task
  BY <1>2 DEF Machine
<1> HIDE DEF u
<1>5. Typed(u) /\ (Headed(s) => Headed(u))
  BY <1>3, <1>4 DEF Typed, Headed
<1>6. Seen(s) \/ l = "rcp" => Seen(u)
  BY <1>2, <1>4 DEF Seen, Enabled
<1>7. CASE Enabled(u) /\ Pending(u)
  <2>1. r = ExceptionGeneral(u)
    BY <1>1, <1>7
  <2>2. Calm(u, r) /\ Seen(r) /\ Queued(r)
    BY <2>1, <1>5, ExceptionFacts
  <2> QED
    BY <2>2, <1>4, <1>5 DEF Calm
<1>8. CASE ~ (Enabled(u) /\ Pending(u))
  <2>1. r = u
    BY <1>1, <1>8
  <2>2. Queued(r)
    BY <2>1, <1>8 DEF Queued
  <2>3. Seen(s) \/ l = "rcp" => Seen(r) /\ Queued(r)
    BY <2>1, <2>2, <1>6
  <2>4. (Seen(s) => Seen(r)) /\ (Queued(s) => Queued(r))
    BY <2>2, <2>3
  <2> QED
    BY <2>1, <2>3, <2>4, <1>4, <1>5 DEF Calm
<1> QED
  BY <1>7, <1>8

LEMMA RaiseRcpFacts ==
    ASSUME NEW s, Typed(s), NEW i \in Devices, NEW r, r = RaiseRcp(s, i)
    PROVE  Calm(s, r)
<1> DEFINE d == s.intr \cup {i}
           u == [s EXCEPT !.intr = d]
<1>1. r = IF u.intr \cap u.mask # {} THEN RaiseMaskable(u, "rcp") ELSE u
  BY Zenon DEF RaiseRcp
<1>2. s \in Machine /\ d \in SUBSET Devices
  BY DEF Typed, Machine
<1> HIDE DEF d
<1>3. u \in Machine
  BY <1>2 DEF Machine
<1>4. /\ u.queue = s.queue /\ u.next = s.next /\ u.pi = s.pi /\ u.ai = s.ai
      /\ u.ie = s.ie /\ u.exl = s.exl /\ u.cause = s.cause /\ u.im = s.im
      /\ u.running = s.running /\ u.task = s.task
  BY <1>2 DEF Machine
<1> HIDE DEF u
<1>5. Typed(u) /\ (Headed(s) => Headed(u))
  BY <1>3, <1>4 DEF Typed, Headed
<1>6. CASE u.intr \cap u.mask # {}
  <2>1. r = RaiseMaskable(u, "rcp")
    BY <1>1, <1>6
  <2>2. Calm(u, r) /\ Seen(r) /\ Queued(r)
    BY <2>1, <1>5, RaiseMaskableFacts
  <2> QED
    BY <2>2, <1>4, <1>5 DEF Calm
<1>7. CASE ~ (u.intr \cap u.mask # {})
  <2>1. r = u
    BY <1>1, <1>7
  <2>2. Seen(r)
    BY <2>1, <1>7 DEF Seen
  <2>3. Queued(s) => Queued(r)
    BY <2>1, <1>4 DEF Queued, Enabled, Pending
  <2> QED
    BY <2>1, <2>2, <2>3, <1>4, <1>5 DEF Calm
<1> QED
  BY <1>6, <1>7

\* The queue may have grown by an event that is not the marker.
Grown(s, r) ==
    /\ Typed(r) /\ r.pi = s.pi /\ r.ai = s.ai
    /\ Len(r.queue) <= Len(s.queue) + 1
    /\ Len(s.queue) <= Capacity => Len(r.queue) <= Capacity
    /\ Kinds(s.queue) \subseteq Kinds(r.queue)
    /\ OneMarker(s.queue) => OneMarker(r.queue)
    /\ s.queue # <<>> /\ Headed(s) => Headed(r)

LEMMA CalmIsGrown ==
    ASSUME NEW s, Typed(s), NEW r, Calm(s, r)
    PROVE  Grown(s, r)
<1>1. Len(s.queue) \in Nat
  BY QueueOf DEF Typed
<1> QED
  BY <1>1 DEF Calm, Grown

LEMMA AddedIsGrown ==
    ASSUME NEW s, Typed(s), NEW t \in Types, t # "SPECIAL", NEW c, NEW r, Added(s, t, c, r)
    PROVE  Grown(s, r) /\ (Seen(s) => Seen(r)) /\ (Queued(s) => Queued(r))
<1>1. Grown(s, r)
  BY DEF Added, Grown, Frame
<1>2. (Seen(s) => Seen(r)) /\ (Queued(s) => Queued(r))
  BY DEF Added, Frame, Seen, Queued, Enabled, Pending
<1> QED
  BY <1>1, <1>2

\* check_interupt leaves nothing pending that is not in the queue, if there is
\* room for it.
LEMMA CheckInterruptFacts ==
    ASSUME NEW s, Typed(s), NEW r, r = CheckInterrupt(s)
    PROVE  Grown(s, r) /\ (Len(s.queue) < Capacity => Seen(r) /\ Queued(r))
<1> DEFINE d == IF s.intr \cap s.mask # {} THEN s.cause \cup {"rcp"} ELSE s.cause \ {"rcp"}
           u == [s EXCEPT !.cause = d]
           e == [type |-> "CHECK", count |-> u.count]
           q == Inserted(u.queue, 0, e)
           v == [u EXCEPT !.queue = q, !.next = u.count]
           due == Enabled(u) /\ Pending(u) /\ Len(u.queue) < Capacity
<1>1. r = IF due THEN v ELSE u
  BY Zenon DEF CheckInterrupt
<1>2. s \in Machine /\ s.cause \in SUBSET {"rcp", "timer", "hw2"}
  BY DEF Typed, Machine
<1>3. /\ d \in SUBSET {"rcp", "timer", "hw2"}
      /\ s.intr \cap s.mask # {} => "rcp" \in d
  <2>1. d = s.cause \cup {"rcp"} \/ d = s.cause \ {"rcp"}
    BY Zenon
  <2>2. s.intr \cap s.mask # {} => "rcp" \in d
    BY Zenon
  <2> HIDE DEF d
  <2> QED
    BY <2>1, <2>2, <1>2
<1> HIDE DEF d
<1>4. u \in Machine
  BY <1>2, <1>3 DEF Machine
<1>5. /\ u.queue = s.queue /\ u.next = s.next /\ u.pi = s.pi /\ u.ai = s.ai
      /\ u.ie = s.ie /\ u.exl = s.exl /\ u.cause = d /\ u.intr = s.intr
      /\ u.mask = s.mask /\ u.running = s.running /\ u.task = s.task
  BY <1>2 DEF Machine
<1>6. u.queue \in Seq(Events) /\ u.count \in Words /\ e \in Events /\ e.type = "CHECK"
      /\ e.count = u.count /\ Len(u.queue) \in Nat
  <2> HIDE DEF u
  <2>1. u.queue \in Seq(Events) /\ u.count \in Words /\ Len(u.queue) \in Nat
    BY <1>4, QueueOf
  <2>2. "CHECK" \in Types
    BY DEF Types
  <2> QED
    BY <2>1, <2>2 DEF Events
<1> HIDE DEF u, e
<1>7. Typed(u) /\ Seen(u)
  BY <1>3, <1>4, <1>5 DEF Typed, Seen
<1>8. CASE due
  <2>1. r = v /\ Len(u.queue) < Capacity
    BY <1>1, <1>8
  <2>2. Insertion(u.queue, 0, e, q)
    BY <1>6, InsertedFacts
  <2> HIDE DEF q
  <2>3. q \in Seq(Events)
    BY <2>2 DEF Insertion
  <2>4. v \in Machine
    BY <2>3, <1>4, <1>6 DEF Machine
  <2>5. /\ v.queue = q /\ v.next = u.count /\ v.pi = u.pi /\ v.ai = u.ai
        /\ v.ie = u.ie /\ v.exl = u.exl /\ v.cause = u.cause /\ v.intr = u.intr
        /\ v.mask = u.mask /\ v.running = u.running /\ v.task = u.task
    BY <1>4 DEF Machine
  <2> HIDE DEF v, due
  <2>6. Typed(v)
    BY <2>4, <2>5, <1>7 DEF Typed
  <2>7. /\ Len(q) = Len(u.queue) + 1 /\ Kinds(q) = Kinds(u.queue) \cup {"CHECK"}
        /\ q[1] = e /\ (OneMarker(u.queue) => OneMarker(q))
    BY <2>2, <1>6 DEF Insertion
  <2>8. Seen(v) /\ Queued(v)
    BY <2>5, <2>7, <1>7 DEF Seen, Queued, Enabled
  <2>9. Headed(v)
    BY <2>5, <2>7, <1>6 DEF Headed
  <2>10. Len(v.queue) = Len(s.queue) + 1 /\ Len(v.queue) <= Capacity
    <3>1. Capacity \in Nat
      BY Constants
    <3> QED
      BY <3>1, <2>1, <2>5, <2>7, <1>5, <1>6
  <2>11. Len(v.queue) <= Len(s.queue) + 1
    BY <2>10, <1>5, <1>6
  <2>12. Grown(s, v)
    BY <2>5, <2>6, <2>7, <2>9, <2>10, <2>11, <1>5 DEF Grown
  <2> QED
    BY <2>1, <2>8, <2>12
<1>9. CASE ~ due
  <2>1. r = u
    BY <1>1, <1>9
  <2>2. Len(s.queue) < Capacity => Queued(u)
    BY <1>9, <1>5 DEF Queued
  <2> HIDE DEF due
  <2>3. Headed(s) => Headed(u)
    BY <1>5 DEF Headed
  <2> QED
    BY <2>1, <2>2, <2>3, <1>5, <1>6, <1>7 DEF Grown
<1> QED
  BY <1>8, <1>9

LEMMA AddEventFacts ==
    ASSUME NEW s, Typed(s), NEW t \in Types, NEW d \in Words, NEW r, r = AddEvent(s, t, d)
    PROVE  \E c \in Words : Added(s, t, c, r)
<1> DEFINE c == (s.count + d) % Modulus
<1>1. c \in Words
  <2>1. s.count \in Int /\ d \in Int
    BY Constants DEF Typed, Machine
  <2>2. s.count + d \in Int
    BY <2>1
  <2> QED
    BY <2>2, Constants
<1>2. r = AddEventCount(s, t, c)
  BY Zenon DEF AddEvent
<1> HIDE DEF c
<1> QED
  BY <1>1, <1>2, AddFacts

-----------------------------------------------------------------------------
(* 3. gen_interupt and the handlers.                                       *)

\* What every step of the machine preserves.
Keeps(s, r) ==
    /\ Steady(r)
    /\ Busy(s) => Busy(r)
    /\ (Seen(s) => Seen(r)) /\ (Queued(s) => Queued(r))
    /\ Headed(s) => Headed(r)

LEMMA SteadyFacts ==
    ASSUME NEW s, Steady(s)
    PROVE  /\ Typed(s) /\ s \in Machine /\ s.queue \in Seq(Events)
           /\ Len(s.queue) \in Nat /\ Len(s.queue) <= Capacity
           /\ s.queue # <<>> /\ 1 \in DOMAIN s.queue /\ s.queue[1].type \in Kinds(s.queue)
<1>1. s \in Machine /\ s.queue \in Seq(Events) /\ Len(s.queue) \in Nat
  BY QueueOf DEF Steady, Fits, Typed
<1>2. s.queue # <<>> /\ 1 \in DOMAIN s.queue
  BY <1>1 DEF Steady, OneMarker
<1> QED
  BY <1>1, <1>2 DEF Steady, Fits, Kinds

LEMMA GrownKeeps ==
    ASSUME NEW s, Steady(s), NEW r, Grown(s, r),
           (Seen(s) => Seen(r)) /\ (Queued(s) => Queued(r))
    PROVE  Keeps(s, r)
<1>1. Steady(r)
  BY SteadyFacts DEF Steady, Fits, Grown
<1>2. Busy(s) => Busy(r)
  BY DEF Busy, Grown
<1> QED
  BY <1>1, <1>2, SteadyFacts DEF Keeps, Grown

LEMMA CalmKeeps ==
    ASSUME NEW s, Steady(s), NEW r, Calm(s, r)
    PROVE  Keeps(s, r)
BY SteadyFacts, CalmIsGrown, GrownKeeps DEF Calm

\* A queue that was filled afresh.
Fresh(r) ==
    /\ Steady(r) /\ Len(r.queue) <= 2
    /\ Busy(r) /\ Seen(r) /\ Queued(r) /\ Headed(r)

LEMMA InitInterruptFacts ==
    ASSUME NEW s, Typed(s), s.ie = FALSE, s.pi = FALSE, s.ai = 0,
           NEW r, r = InitInterrupt(s)
    PROVE  Fresh(r) /\ r.count = s.count /\ r.next \in {s.next, 0, FirstVi}
<1> DEFINE u == [s EXCEPT !.done = TRUE, !.vi = FirstVi, !.queue = <<>>]
           a == AddEventCount(u, "VI", FirstVi)
<1>1. r = AddEventCount(a, "SPECIAL", 0)
  BY Zenon DEF InitInterrupt
<1>2. FirstVi \in Words /\ 0 \in Words /\ Capacity \in Nat /\ Capacity > 2
      /\ "VI" \in Types /\ "SPECIAL" \in Types
  BY WidthAssumption, Constants DEF Types, Devices
<1>3. s \in Machine /\ <<>> \in Seq(Events)
  BY DEF Typed
<1>4. u \in Machine
  BY ZenonT(120), <1>2, <1>3 DEF Machine
<1>5. /\ u.queue = <<>> /\ u.next = s.next /\ u.pi = FALSE /\ u.ai = 0
      /\ u.ie = FALSE /\ u.running = s.running /\ u.task = s.task /\ u.count = s.count
  BY <1>3 DEF Machine
<1> HIDE DEF u
<1>6. Typed(u) /\ Len(u.queue) = 0 /\ NoMarker(u.queue)
  BY <1>4, <1>5 DEF Typed, NoMarker
<1>7. Added(u, "VI", FirstVi, a)
  BY <1>2, <1>6, AddFacts
<1> HIDE DEF a
<1>8. /\ Typed(a) /\ NoMarker(a.queue) /\ Len(a.queue) <= 1 /\ "VI" \in Kinds(a.queue)
      /\ Headed(a) /\ a.count = s.count /\ a.next \in {s.next, FirstVi}
      /\ a.ie = FALSE /\ a.pi = FALSE /\ a.ai = 0
  BY <1>2, <1>5, <1>6, <1>7 DEF Added, Frame
<1>9. Added(a, "SPECIAL", 0, r)
  BY <1>1, <1>2, <1>8, AddFacts
<1>10. Len(a.queue) \in Nat /\ Len(r.queue) \in Nat
  BY <1>8, <1>9, QueueOf DEF Added, Typed
<1>11. Steady(r) /\ Len(r.queue) <= 2
  BY <1>2, <1>8, <1>9, <1>10 DEF Added, Steady, Fits
<1>12. Headed(r) /\ "VI" \in Kinds(r.queue) /\ r.next \in {s.next, 0, FirstVi}
  BY <1>8, <1>9 DEF Added
<1>13. r.count = s.count /\ r.ie = FALSE /\ r.pi = FALSE /\ r.ai = 0
  BY <1>8, <1>9 DEF Added, Frame
<1> QED
  BY <1>11, <1>12, <1>13 DEF Fresh, Busy, Seen, Queued, Enabled

LEMMA ResetSoftFacts ==
    ASSUME NEW s, Typed(s), NEW r, r = ResetSoft(s)
    PROVE  /\ Typed(r) /\ r.ie = FALSE /\ r.pi = FALSE /\ r.running = FALSE
           /\ r.queue = s.queue /\ r.next = s.next /\ r.slot = s.slot
<1> DEFINE d == s.intr \ {"PI", "VI", "AI", "SP"}
           a == [s EXCEPT !.ie = FALSE, !.exl = FALSE, !.im = {},
                          !.running = FALSE]
           u == [a EXCEPT !.deferred = FALSE, !.onbreak = FALSE, !.pi = FALSE,
                          !.intr = d]
<1>1. r = u
  BY Zenon DEF ResetSoft
<1>2. s \in Machine /\ d \in SUBSET Devices
  BY DEF Typed, Machine
<1> HIDE DEF d
<1>3. a \in Machine
  BY ZenonT(120), <1>2 DEF Machine
<1>4. /\ a.ie = FALSE /\ a.running = FALSE
      /\ a.queue = s.queue /\ a.next = s.next /\ a.slot = s.slot
  BY <1>2 DEF Machine
<1> HIDE DEF a
<1>5. u \in Machine
  BY ZenonT(120), <1>2, <1>3 DEF Machine
<1>6. /\ u.ie = FALSE /\ u.pi = FALSE /\ u.running = FALSE
      /\ u.queue = s.queue /\ u.next = s.next /\ u.slot = s.slot
  BY <1>3, <1>4 DEF Machine
<1> HIDE DEF u
<1> QED
  BY <1>1, <1>5, <1>6 DEF Typed

\* The machine, its devices reset, whose queue a reset fills.
Cleared(u) == /\ Typed(u) /\ u.ie = FALSE /\ u.pi = FALSE /\ u.ai = 0 /\ u.lag = 0

LEMMA ResetHardStarts ==
    ASSUME NEW s, Typed(s)
    PROVE  \E u : /\ Cleared(u) /\ ResetHard(s) = InitInterrupt(u)
                  /\ u.count = BootCount /\ u.next = s.next /\ u.slot = s.slot
<1> DEFINE a == ResetSoft(s)
           b == [a EXCEPT !.count = BootCount, !.lag = 0, !.compare = 0, !.cause = {},
                          !.epc = "none"]
           d == [b EXCEPT !.intr = {}, !.mask = {}, !.ai = 0]
           u == [d EXCEPT !.frozen = FALSE, !.job = FALSE]
<1>1. ResetHard(s) = InitInterrupt(u)
  BY Zenon DEF ResetHard
<1>2. Typed(a) /\ a.ie = FALSE /\ a.pi = FALSE /\ a.running = FALSE /\ a.next = s.next
      /\ a.slot = s.slot
  BY ResetSoftFacts
<1> HIDE DEF a
<1>3. a \in Machine /\ BootCount \in Words /\ 0 \in Words
  BY <1>2, WidthAssumption, Constants DEF Typed
<1>4. /\ b \in Machine /\ b.ie = a.ie /\ b.pi = a.pi /\ b.running = a.running
      /\ b.next = a.next /\ b.count = BootCount /\ b.lag = 0 /\ b.slot = a.slot
  <2>1. b \in Machine
    BY <1>3 DEF Machine
  <2>2. /\ b.ie = a.ie /\ b.pi = a.pi /\ b.running = a.running
        /\ b.next = a.next /\ b.count = BootCount /\ b.lag = 0 /\ b.slot = a.slot
    BY <1>3 DEF Machine
  <2> HIDE DEF b
  <2> QED
    BY <2>1, <2>2
<1> HIDE DEF b
<1>7. /\ d \in Machine /\ d.ie = b.ie /\ d.pi = b.pi /\ d.running = b.running
      /\ d.next = b.next /\ d.count = b.count /\ d.ai = 0 /\ d.lag = b.lag /\ d.slot = b.slot
  <2>0. {} \in SUBSET Devices /\ 0 \in 0 .. 2
    OBVIOUS
  <2>1. d \in Machine
    BY <2>0, <1>4, ZenonT(40) DEF Machine
  <2>2. /\ d.ie = b.ie /\ d.pi = b.pi /\ d.running = b.running
        /\ d.next = b.next /\ d.count = b.count /\ d.ai = 0 /\ d.lag = b.lag /\ d.slot = b.slot
    BY <1>4 DEF Machine
  <2> HIDE DEF d
  <2> QED
    BY <2>1, <2>2
<1> HIDE DEF d
<1>8. u \in Machine
  BY ZenonT(120), <1>7 DEF Machine
<1>5. /\ u.ie = a.ie /\ u.pi = a.pi /\ u.ai = 0 /\ u.running = a.running
      /\ u.next = a.next /\ u.count = BootCount /\ u.lag = 0 /\ u.slot = a.slot
  <2>1. /\ u.ie = d.ie /\ u.pi = d.pi /\ u.ai = d.ai /\ u.running = d.running
        /\ u.next = d.next /\ u.count = d.count /\ u.lag = d.lag /\ u.slot = d.slot
    BY <1>7 DEF Machine
  <2> HIDE DEF u
  <2> QED
    BY <2>1, <1>4, <1>7
<1> HIDE DEF u
<1>6. Typed(u)
  BY <1>2, <1>5, <1>8 DEF Typed
<1> QED
  BY <1>1, <1>2, <1>5, <1>6 DEF Cleared

LEMMA ResetHardFacts ==
    ASSUME NEW s, Typed(s), NEW r, r = ResetHard(s)
    PROVE  Fresh(r) /\ r.count = BootCount /\ r.next \in {s.next, 0, FirstVi}
<1>1. PICK u : /\ Cleared(u) /\ ResetHard(s) = InitInterrupt(u)
               /\ u.count = BootCount /\ u.next = s.next
  BY ResetHardStarts
<1> QED
  BY <1>1, InitInterruptFacts DEF Cleared

\* gen_interupt does not make the queue longer, or the queue is a new one.
Step(s, r) == Keeps(s, r) /\ (Len(r.queue) <= Len(s.queue) \/ Len(r.queue) <= 2)

LEMMA KeepsItself ==
    ASSUME NEW s, Steady(s)
    PROVE  Step(s, s)
BY SteadyFacts DEF Step, Keeps

LEMMA FreshIsStep ==
    ASSUME NEW s, NEW r, Fresh(r)
    PROVE  Step(s, r)
BY DEF Fresh, Step, Keeps

LEMMA StepThenCalm ==
    ASSUME NEW s, NEW u, Step(s, u), NEW r, Calm(u, r)
    PROVE  Step(s, r)
<1>1. Keeps(u, r)
  BY CalmKeeps DEF Step, Keeps
<1> QED
  BY <1>1 DEF Step, Keeps, Calm

\* The head, unless it is the marker, is taken out of the queue.
LEMMA HeadTaken ==
    ASSUME NEW s, Steady(s), s.queue[1].type # "SPECIAL", NEW a, a = RemoveHead(s)
    PROVE  /\ Steady(a) /\ Frame(s, a) /\ Headed(a)
           /\ Len(a.queue) < Capacity /\ Len(a.queue) < Len(s.queue)
           /\ \A k \in Kinds(s.queue) : k = s.queue[1].type \/ k \in Kinds(a.queue)
           /\ s.queue[1].type # "CHECK" => (Seen(s) => Seen(a)) /\ (Queued(s) => Queued(a))
<1>1. /\ Taken(s, s.queue[1].type, a) /\ Headed(a)
      /\ Len(a.queue) < Capacity /\ Len(a.queue) < Len(s.queue)
  BY RemoveHeadKeepsPlace
<1>2. Capacity \in Nat /\ Len(a.queue) \in Nat
  BY <1>1, Constants, QueueOf DEF Taken, Typed
<1>3. Steady(a)
  BY <1>1, <1>2 DEF Taken, Steady, Fits
<1>4. s.queue[1].type # "CHECK" => (Seen(s) => Seen(a)) /\ (Queued(s) => Queued(a))
  BY <1>1 DEF Taken, Frame, Seen, Queued, Enabled, Pending
<1> QED
  BY <1>1, <1>3, <1>4 DEF Taken

LEMMA SpecialStep ==
    ASSUME NEW s, Steady(s), s.queue[1].type = "SPECIAL", NEW r, r = SpecialHandler(s)
    PROVE  Step(s, r)
<1> DEFINE u == [s EXCEPT !.done = TRUE]
           a == RemoveHead(u)
<1>1. CASE s.count > Near
  <2>1. r = s
    BY <1>1, Zenon DEF SpecialHandler
  <2> QED
    BY <2>1, KeepsItself
<1>2. CASE ~ s.count > Near
  <2>1. r = AddEventCount(a, "SPECIAL", 0)
    BY <1>2, Zenon DEF SpecialHandler
  <2>2. s \in Machine
    BY SteadyFacts
  <2>3. u \in Machine
    BY <2>2 DEF Machine
  <2>4. Alike(s, u) /\ u.running = s.running /\ u.task = s.task
    BY <2>2 DEF Machine, Alike
  <2> HIDE DEF u
  <2>5. Steady(u) /\ u.queue[1].type = "SPECIAL"
    BY <2>3, <2>4 DEF Alike, Steady, Fits, Typed
  <2>6. /\ Taken(u, "SPECIAL", a) /\ Headed(a)
        /\ Len(a.queue) < Capacity /\ Len(a.queue) < Len(u.queue)
    BY <2>5, RemoveHeadKeepsPlace
  <2> HIDE DEF a
  <2>7. Added(a, "SPECIAL", 0, r)
    BY <2>1, <2>6, AddFacts, Constants DEF Taken, Types
  <2>8. Len(a.queue) \in Nat /\ Len(r.queue) \in Nat /\ Len(u.queue) \in Nat
        /\ Capacity \in Nat
    BY <2>5, <2>6, <2>7, QueueOf, Constants DEF Added, Taken, Typed, Steady, Fits
  <2>9. Steady(r) /\ Headed(r) /\ Len(r.queue) <= Len(s.queue)
    BY <2>4, <2>5, <2>6, <2>7, <2>8 DEF Added, Taken, Steady, Fits, Alike
  <2>10. \A k \in Kinds(s.queue) : k = "SPECIAL" \/ k \in Kinds(r.queue)
    BY <2>4, <2>6, <2>7 DEF Added, Taken, Alike
  <2>11. Frame(u, r)
    BY <2>6, <2>7 DEF Added, Taken, Frame
  <2>12. Busy(s) => Busy(r)
    BY <2>4, <2>10, <2>11 DEF Busy, Frame, Alike
  <2>13. (Seen(s) => Seen(r)) /\ (Queued(s) => Queued(r))
    BY <2>4, <2>10, <2>11 DEF Seen, Queued, Enabled, Pending, Frame, Alike
  <2> QED
    BY <2>9, <2>12, <2>13 DEF Step, Keeps
<1> QED
  BY <1>1, <1>2

LEMMA CheckStep ==
    ASSUME NEW s, Steady(s), s.queue[1].type = "CHECK",
           NEW r, r = ExceptionGeneral(RemoveHead(s))
    PROVE  Step(s, r)
<1> DEFINE a == RemoveHead(s)
<1>1. /\ Steady(a) /\ Frame(s, a) /\ Headed(a) /\ Len(a.queue) < Len(s.queue)
      /\ \A k \in Kinds(s.queue) : k = "CHECK" \/ k \in Kinds(a.queue)
  BY HeadTaken
<1> HIDE DEF a
<1>2. Calm(a, r) /\ Seen(r) /\ Queued(r)
  BY <1>1, ExceptionFacts DEF Steady, Fits, a
<1>3. Busy(s) => Busy(a)
  BY <1>1 DEF Busy, Frame
<1>4. Keeps(a, r)
  BY <1>1, <1>2, CalmKeeps
<1>5. Len(a.queue) <= Len(s.queue)
  BY <1>1, SteadyFacts
<1> QED
  BY <1>1, <1>2, <1>3, <1>4, <1>5 DEF Step, Keeps, Calm

LEMMA Hw2Step ==
    ASSUME NEW s, Steady(s), s.queue[1].type = "HW2", NEW r, r = Hw2Handler(s)
    PROVE  Step(s, r)
<1> DEFINE a == RemoveHead(s)
           i == a.im \cup {"hw2"}
           c == a.cause \cup {"hw2"}
           u == [a EXCEPT !.im = i, !.cause = c]
<1>1. r = ExceptionGeneral(u)
  BY Zenon DEF Hw2Handler
<1>2. /\ Steady(a) /\ Frame(s, a) /\ Headed(a) /\ Len(a.queue) < Len(s.queue)
      /\ \A k \in Kinds(s.queue) : k = "HW2" \/ k \in Kinds(a.queue)
  BY HeadTaken
<1> HIDE DEF a
<1>3. a \in Machine /\ i \in SUBSET {"rcp", "timer", "hw2"} /\ c \in SUBSET {"rcp", "timer", "hw2"}
  BY <1>2 DEF Steady, Fits, Typed, Machine
<1> HIDE DEF i, c
<1>4. u \in Machine
  BY <1>3 DEF Machine
<1>5. /\ u.queue = a.queue /\ u.next = a.next /\ u.pi = a.pi /\ u.ai = a.ai
      /\ u.running = a.running /\ u.task = a.task
  BY <1>3 DEF Machine
<1> HIDE DEF u
<1>6. Steady(u) /\ Headed(u)
  BY <1>2, <1>4, <1>5 DEF Steady, Fits, Typed, Headed
<1>7. Calm(u, r) /\ Seen(r) /\ Queued(r)
  BY <1>1, <1>6, ExceptionFacts DEF Steady, Fits
<1>8. Busy(s) => Busy(u)
  BY <1>2, <1>5 DEF Busy, Frame
<1>9. Keeps(u, r)
  BY <1>6, <1>7, CalmKeeps
<1>10. Len(a.queue) <= Len(s.queue)
  BY <1>2, SteadyFacts
<1> QED
  BY <1>5, <1>6, <1>7, <1>8, <1>9, <1>10 DEF Step, Keeps, Calm

LEMMA NmiStarts ==
    ASSUME NEW s, Steady(s), s.queue[1].type = "NMI"
    PROVE  \E u : /\ Cleared(u) /\ NmiHandler(s) = InitInterrupt(u)
                  /\ u.count = 0 /\ u.slot = FALSE
<1> DEFINE a == ResetSoft(RemoveHead(s))
           b == [a EXCEPT !.count = 0, !.lag = 0, !.cause = {}]
           u == [b EXCEPT !.ai = 0, !.slot = FALSE]
<1>1. NmiHandler(s) = InitInterrupt(u)
  BY Zenon DEF NmiHandler
<1>2. Typed(a) /\ a.ie = FALSE /\ a.pi = FALSE /\ a.running = FALSE
  BY HeadTaken, ResetSoftFacts DEF Steady, Fits
<1> HIDE DEF a
<1>3. a \in Machine /\ 0 \in Words
  BY <1>2, Constants DEF Typed
<1>4. /\ b \in Machine /\ b.ie = a.ie /\ b.pi = a.pi /\ b.running = a.running
      /\ b.count = 0 /\ b.lag = 0
  BY <1>3 DEF Machine
<1> HIDE DEF b
<1>5. /\ u \in Machine /\ u.ie = b.ie /\ u.pi = b.pi /\ u.ai = 0
      /\ u.running = b.running /\ u.count = b.count /\ u.lag = b.lag /\ u.slot = FALSE
  <2>1. /\ u.ie = b.ie /\ u.pi = b.pi /\ u.ai = 0 /\ u.running = b.running
        /\ u.count = b.count /\ u.lag = b.lag /\ u.slot = FALSE
    BY <1>4 DEF Machine
  <2>2. 0 \in 0 .. 2
    OBVIOUS
  <2>3. u \in Machine
    BY <1>4, <2>2 DEF Machine
  <2> HIDE DEF u
  <2> QED
    BY <2>1, <2>3
<1> HIDE DEF u
<1>6. Cleared(u) /\ u.count = 0 /\ u.slot = FALSE
  BY <1>2, <1>4, <1>5 DEF Typed, Cleared
<1> QED
  BY <1>1, <1>6

LEMMA NmiStep ==
    ASSUME NEW s, Steady(s), s.queue[1].type = "NMI", NEW r, r = NmiHandler(s)
    PROVE  Step(s, r)
<1>1. PICK u : Cleared(u) /\ r = InitInterrupt(u)
  BY NmiStarts
<1> QED
  BY <1>1, InitInterruptFacts, FreshIsStep DEF Cleared

\* The timer's event is queued again, a period of Count later.
LEMMA CompareStep ==
    ASSUME NEW s, Steady(s), s.queue[1].type = "COMPARE", NEW r, r = CompareHandler(s)
    PROVE  Step(s, r)
<1> DEFINE a == RemoveHead(s)
           n == (a.count + CountPerOp) % Modulus
           u == [a EXCEPT !.count = n]
           b == AddEventCount(u, "COMPARE", a.compare)
           v == [b EXCEPT !.count = s.count]
<1>1. r = RaiseMaskable(v, "timer")
  BY Zenon DEF CompareHandler
<1>2. /\ Steady(a) /\ Frame(s, a) /\ Headed(a) /\ Len(a.queue) < Len(s.queue)
      /\ \A k \in Kinds(s.queue) : k = "COMPARE" \/ k \in Kinds(a.queue)
      /\ (Seen(s) => Seen(a)) /\ (Queued(s) => Queued(a))
  BY HeadTaken
<1> HIDE DEF a
<1>3. a \in Machine /\ a.count \in Words /\ a.compare \in Words
  BY <1>2 DEF Steady, Fits, Typed, Machine
<1>4. n \in Words
  <2>1. a.count \in Int /\ CountPerOp \in Int
    BY <1>3, Constants
  <2>2. a.count + CountPerOp \in Int
    BY <2>1
  <2> QED
    BY <2>2, Constants
<1> HIDE DEF n
<1>5. u \in Machine
  BY <1>3, <1>4 DEF Machine
<1>6. Alike(a, u) /\ u.running = a.running /\ u.task = a.task
  BY <1>3 DEF Machine, Alike
<1> HIDE DEF u
<1>7. Steady(u) /\ Headed(u) /\ (Seen(a) => Seen(u)) /\ (Queued(a) => Queued(u))
  <2>1. Typed(u) /\ Steady(u)
    BY <1>2, <1>5, <1>6 DEF Steady, Fits, Typed, Alike
  <2> QED
    BY <2>1, <1>2, <1>6, AlikeIsCalm DEF Calm
<1>8. Grown(u, b) /\ (Seen(u) => Seen(b)) /\ (Queued(u) => Queued(b))
  <2>1. "COMPARE" \in Types
    BY DEF Types
  <2>2. Added(u, "COMPARE", a.compare, b)
    BY <2>1, <1>3, <1>7, AddFacts DEF Steady, Fits
  <2> QED
    BY <2>1, <2>2, <1>7, AddedIsGrown DEF Steady, Fits
<1> HIDE DEF b
<1>9. b \in Machine /\ s.count \in Words
  BY <1>8, SteadyFacts, QueueOf DEF Grown, Typed
<1>10. v \in Machine
  BY <1>9 DEF Machine
<1>11. Alike(b, v) /\ v.running = b.running /\ v.task = b.task
  BY <1>9 DEF Machine, Alike
<1> HIDE DEF v
<1>12. Typed(v) /\ Calm(b, v)
  BY <1>8, <1>10, <1>11, AlikeIsCalm DEF Grown, Typed
<1>13. Calm(v, r)
  BY <1>1, <1>12, RaiseMaskableFacts
<1>14. Keeps(u, b)
  BY <1>7, <1>8, GrownKeeps
<1>15. Len(b.queue) <= Len(s.queue)
  <2>1. Len(b.queue) <= Len(a.queue) + 1
    BY <1>6, <1>8 DEF Grown, Alike
  <2> QED
    BY <2>1, <1>2, <1>8, SteadyFacts, QueueOf DEF Grown, Typed
<1>16. Busy(s) => Busy(u)
  BY <1>2, <1>6 DEF Busy, Frame, Alike
<1>17. Step(s, b)
  BY <1>2, <1>7, <1>14, <1>15, <1>16 DEF Step, Keeps
<1> QED
  BY <1>12, <1>13, <1>17, StepThenCalm

LEMMA ViStep ==
    ASSUME NEW s, Steady(s), s.queue[1].type = "VI", NEW d \in Words,
           NEW r, r = ViEnd(RemoveHead(s), d)
    PROVE  Step(s, r)
<1> DEFINE a == RemoveHead(s)
           n == (a.vi + d) % Modulus
           u == [a EXCEPT !.vi = n]
           b == AddEventCount(u, "VI", u.vi)
<1>1. r = RaiseRcp(b, "VI")
  BY Zenon DEF ViEnd
<1>2. /\ Steady(a) /\ Frame(s, a) /\ Headed(a) /\ Len(a.queue) < Capacity
      /\ Len(a.queue) < Len(s.queue)
      /\ \A k \in Kinds(s.queue) : k = "VI" \/ k \in Kinds(a.queue)
      /\ (Seen(s) => Seen(a)) /\ (Queued(s) => Queued(a))
  BY HeadTaken
<1> HIDE DEF a
<1>3. a \in Machine /\ a.vi \in Words
  BY <1>2 DEF Steady, Fits, Typed, Machine
<1>4. n \in Words
  <2>1. a.vi \in Int /\ d \in Int
    BY <1>3, Constants
  <2>2. a.vi + d \in Int
    BY <2>1
  <2> QED
    BY <2>2, Constants
<1> HIDE DEF n
<1>5. u \in Machine
  BY <1>3, <1>4 DEF Machine
<1>6. Alike(a, u) /\ u.running = a.running /\ u.task = a.task /\ u.vi = n
  BY <1>3 DEF Machine, Alike
<1> HIDE DEF u
<1>7. Steady(u) /\ Headed(u) /\ (Seen(a) => Seen(u)) /\ (Queued(a) => Queued(u))
  <2>1. Typed(u) /\ Steady(u)
    BY <1>2, <1>5, <1>6 DEF Steady, Fits, Typed, Alike
  <2> QED
    BY <2>1, <1>2, <1>6, AlikeIsCalm DEF Calm
<1>8. Grown(u, b) /\ (Seen(u) => Seen(b)) /\ (Queued(u) => Queued(b)) /\ "VI" \in Kinds(b.queue)
  <2>1. "VI" \in Types
    BY DEF Types, Devices
  <2>2. Added(u, "VI", u.vi, b)
    BY <2>1, <1>4, <1>6, <1>7, AddFacts DEF Steady, Fits
  <2>3. Len(u.queue) < Capacity
    BY <1>2, <1>6 DEF Alike
  <2> HIDE DEF b
  <2>4. "VI" \in Kinds(b.queue)
    BY <2>2, <2>3 DEF Added
  <2> QED
    BY <2>1, <2>2, <2>4, <1>7, AddedIsGrown DEF Steady, Fits
<1> HIDE DEF b
<1>9. Calm(b, r)
  BY <1>1, <1>8, RaiseRcpFacts DEF Grown, Devices
<1>10. Keeps(u, b)
  BY <1>7, <1>8, GrownKeeps
<1>11. Len(b.queue) <= Len(s.queue)
  <2>1. Len(b.queue) <= Len(a.queue) + 1
    BY <1>6, <1>8 DEF Grown, Alike
  <2> QED
    BY <2>1, <1>2, <1>8, SteadyFacts, QueueOf DEF Grown, Typed
<1>12. Busy(s) => Busy(b)
  <2>1. b.pi = s.pi /\ b.ai = s.ai
    BY <1>2, <1>6, <1>8 DEF Frame, Alike, Grown
  <2>2. \A k \in Kinds(s.queue) : k \in Kinds(b.queue)
    BY <1>2, <1>6, <1>8 DEF Alike, Grown
  <2> QED
    BY <2>1, <2>2, <1>8 DEF Busy
<1>13. Step(s, b)
  BY <1>2, <1>7, <1>10, <1>11, <1>12 DEF Step, Keeps
<1> QED
  BY <1>9, <1>13, StepThenCalm

LEMMA AiStep ==
    ASSUME NEW s, Steady(s), s.queue[1].type = "AI", NEW d \in Words,
           NEW r, r = AiEnd(RemoveHead(s), d)
    PROVE  Step(s, r)
<1> DEFINE a == RemoveHead(s)
           u == [a EXCEPT !.ai = 1]
           c == UpdateCount(u)
           b == AddEvent(c, "AI", d)
           v == [a EXCEPT !.ai = 0]
           w == IF a.ai = 2 THEN b ELSE v
<1>1. r = RaiseRcp(w, "AI")
  BY Zenon DEF AiEnd
<1>2. /\ Steady(a) /\ Frame(s, a) /\ Headed(a) /\ Len(a.queue) < Capacity
      /\ Len(a.queue) < Len(s.queue)
      /\ \A k \in Kinds(s.queue) : k = "AI" \/ k \in Kinds(a.queue)
      /\ (Seen(s) => Seen(a)) /\ (Queued(s) => Queued(a))
  BY HeadTaken
<1> HIDE DEF a
<1>3. a \in Machine /\ 0 \in 0 .. 2 /\ 1 \in 0 .. 2 /\ Len(a.queue) \in Nat /\ Len(s.queue) \in Nat
  BY <1>2, SteadyFacts
<1>4. "AI" \in Types /\ "AI" \in Devices /\ "AI" # "SPECIAL"
  BY DEF Types, Devices
<1>5. CASE a.ai = 2
  <2>1. w = b
    BY <1>5
  <2> HIDE DEF w
  <2>2. u \in Machine
    BY <1>3 DEF Machine
  <2>3. /\ u.queue = a.queue /\ u.next = a.next /\ u.pi = a.pi
        /\ u.running = a.running /\ u.task = a.task /\ u.ie = a.ie /\ u.exl = a.exl
        /\ u.im = a.im /\ u.cause = a.cause /\ u.intr = a.intr /\ u.mask = a.mask
    BY <1>3 DEF Machine
  <2> HIDE DEF u
  <2>4. Steady(u) /\ Headed(u)
    BY <1>2, <2>2, <2>3 DEF Steady, Fits, Typed, Headed
  <2>5. (Seen(a) => Seen(u)) /\ (Queued(a) => Queued(u))
    BY <2>3 DEF Seen, Queued, Enabled, Pending
  <2>6. Calm(u, c) /\ c.queue = u.queue
    BY <2>4, UpdateCountFacts, AlikeIsCalm DEF Steady, Fits, Calm
  <2>7. Keeps(u, c)
    BY <2>4, <2>6, CalmKeeps
  <2> HIDE DEF c
  <2>8. PICK n \in Words : Added(c, "AI", n, b)
    BY <2>6, <1>4, AddEventFacts DEF Calm
  <2> HIDE DEF b
  <2>9. Grown(c, b) /\ (Seen(c) => Seen(b)) /\ (Queued(c) => Queued(b))
    BY <2>6, <2>8, <1>4, AddedIsGrown DEF Calm
  <2>10. Keeps(c, b)
    BY <2>7, <2>9, GrownKeeps DEF Keeps
  <2>11. Len(c.queue) < Capacity
    BY <2>3, <2>6, <1>2
  <2>12. "AI" \in Kinds(b.queue)
    BY <2>8, <2>11 DEF Added
  <2>13. Busy(s) => Busy(b)
    <3>1. b.pi = s.pi
      BY <1>2, <2>3, <2>6, <2>9 DEF Frame, Calm, Grown
    <3>2. \A k \in Kinds(s.queue) : k \in Kinds(b.queue)
      BY <1>2, <2>3, <2>6, <2>9, <2>12 DEF Grown
    <3> QED
      BY <3>1, <3>2, <2>12 DEF Busy
  <2>14. Len(b.queue) <= Len(s.queue)
    <3>1. Len(b.queue) <= Len(a.queue) + 1
      BY <2>3, <2>6, <2>9 DEF Grown
    <3>2. Len(b.queue) \in Nat
      BY <2>9, QueueOf DEF Grown, Typed
    <3> QED
      BY <3>1, <3>2, <1>2, <1>3
  <2>15. Step(s, b)
    BY <1>2, <2>4, <2>5, <2>7, <2>10, <2>13, <2>14 DEF Step, Keeps
  <2>16. Calm(b, r)
    BY <1>1, <1>4, <2>1, <2>9, RaiseRcpFacts DEF Grown
  <2> QED
    BY <2>15, <2>16, StepThenCalm
<1>6. CASE a.ai # 2
  <2>1. w = v
    BY <1>6
  <2> HIDE DEF w
  <2>2. v \in Machine
    BY <1>3 DEF Machine
  <2>3. /\ v.queue = a.queue /\ v.next = a.next /\ v.pi = a.pi /\ v.ai = 0
        /\ v.running = a.running /\ v.task = a.task /\ v.ie = a.ie /\ v.exl = a.exl
        /\ v.im = a.im /\ v.cause = a.cause /\ v.intr = a.intr /\ v.mask = a.mask
    BY <1>3 DEF Machine
  <2> HIDE DEF v
  <2>4. Steady(v) /\ Headed(v)
    BY <1>2, <2>2, <2>3 DEF Steady, Fits, Typed, Headed
  <2>5. (Seen(a) => Seen(v)) /\ (Queued(a) => Queued(v))
    BY <2>3 DEF Seen, Queued, Enabled, Pending
  <2>6. Busy(s) => Busy(v)
    <3>1. v.pi = s.pi
      BY <1>2, <2>3 DEF Frame
    <3> QED
      BY <3>1, <1>2, <2>3 DEF Busy
  <2>7. Len(v.queue) <= Len(s.queue)
    BY <1>2, <1>3, <2>3
  <2>8. Step(s, v)
    BY <1>2, <2>4, <2>5, <2>6, <2>7 DEF Step, Keeps
  <2>9. Calm(v, r)
    BY <1>1, <1>4, <2>1, <2>4, RaiseRcpFacts DEF Steady, Fits
  <2> QED
    BY <2>8, <2>9, StepThenCalm
<1> QED
  BY <1>5, <1>6

\* The other devices.  A cartridge transfer is over when its event is.
LEMMA EndStep ==
    ASSUME NEW s, Steady(s), NEW r, NEW a, a = RemoveHead(s),
           \/ s.queue[1].type = "PI" /\ r = PiEnd(a)
           \/ s.queue[1].type = "SI" /\ r = RaiseRcp(a, "SI")
           \/ s.queue[1].type = "SP" /\ r = SpEnd(a)
           \/ s.queue[1].type = "DP" /\ r = DpEnd(a)
    PROVE  Step(s, r)
<1>1. s.queue[1].type \in {"PI", "SI", "SP", "DP"}
  OBVIOUS
<1>2. /\ Steady(a) /\ Frame(s, a) /\ Headed(a) /\ Len(a.queue) < Len(s.queue)
      /\ \A k \in Kinds(s.queue) : k = s.queue[1].type \/ k \in Kinds(a.queue)
      /\ (Seen(s) => Seen(a)) /\ (Queued(s) => Queued(a))
  BY <1>1, HeadTaken
<1>3. a \in Machine /\ Typed(a) /\ Len(a.queue) <= Len(s.queue)
  BY <1>2, SteadyFacts
<1>4. {"PI", "SI", "SP", "DP"} \subseteq Devices
  BY DEF Devices
<1>5. CASE s.queue[1].type # "PI"
  <2>1. Busy(s) => Busy(a)
    BY <1>1, <1>2, <1>5 DEF Busy, Frame
  <2>2. Step(s, a)
    BY <1>2, <1>3, <2>1 DEF Step, Keeps
  <2> DEFINE f == [a EXCEPT !.running = FALSE]
             g == [a EXCEPT !.frozen = FALSE]
  <2>3. f \in Machine /\ g \in Machine
    BY ZenonT(120), <1>3 DEF Machine
  <2>4. Alike(a, f) /\ f.running = FALSE
    BY <1>3 DEF Alike, Machine
  <2>5. Alike(a, g) /\ g.running = a.running /\ g.task = a.task
    BY <1>3 DEF Alike, Machine
  <2>6. r \in {RaiseRcp(a, "SI"), f, RaiseRcp(f, "SP"), RaiseRcp(g, "DP")}
    <3>1. SpEnd(a) \in {f, RaiseRcp(f, "SP")}
      BY Zenon DEF SpEnd
    <3>2. DpEnd(a) = RaiseRcp(g, "DP")
      BY Zenon DEF DpEnd
    <3> HIDE DEF f, g
    <3> QED
      BY <1>5, <3>1, <3>2
  <2> HIDE DEF f, g
  <2>7. Typed(f) /\ Calm(a, f) /\ Typed(g) /\ Calm(a, g)
    <3>1. Typed(f) /\ Typed(g)
      BY <1>3, <2>3, <2>4, <2>5 DEF Typed
    <3> QED
      BY <2>4, <2>5, <3>1, AlikeIsCalm
  <2>8. Step(s, f) /\ Step(s, g)
    BY <2>2, <2>7, StepThenCalm
  <2>9. Calm(a, RaiseRcp(a, "SI")) /\ Calm(f, RaiseRcp(f, "SP")) /\ Calm(g, RaiseRcp(g, "DP"))
    BY <1>3, <1>4, <2>7, RaiseRcpFacts
  <2> QED
    BY <2>2, <2>6, <2>8, <2>9, StepThenCalm
<1>6. CASE s.queue[1].type = "PI"
  <2> DEFINE u == [a EXCEPT !.pi = FALSE]
  <2>1. r = RaiseRcp(u, "PI")
    <3>1. PiEnd(a) = RaiseRcp(u, "PI")
      BY Zenon DEF PiEnd
    <3> HIDE DEF u
    <3> QED
      BY <1>6, <3>1
  <2>2. u \in Machine
    BY ZenonT(120), <1>3 DEF Machine
  <2>3. /\ u.queue = a.queue /\ u.next = a.next /\ u.pi = FALSE /\ u.ai = a.ai
        /\ u.running = a.running /\ u.task = a.task /\ u.ie = a.ie /\ u.exl = a.exl
        /\ u.im = a.im /\ u.cause = a.cause /\ u.intr = a.intr /\ u.mask = a.mask
    BY <1>3 DEF Machine
  <2> HIDE DEF u
  <2>4. Steady(u) /\ Headed(u)
    BY <1>2, <2>2, <2>3 DEF Steady, Fits, Typed, Headed
  <2>5. (Seen(a) => Seen(u)) /\ (Queued(a) => Queued(u))
    BY <2>3 DEF Seen, Queued, Enabled, Pending
  <2>6. Busy(s) => Busy(u)
    <3>1. u.ai = s.ai
      BY <1>2, <2>3 DEF Frame
    <3> QED
      BY <3>1, <1>2, <1>6, <2>3 DEF Busy
  <2>7. Step(s, u)
    BY <1>2, <1>3, <2>3, <2>4, <2>5, <2>6 DEF Step, Keeps
  <2>8. Calm(u, r)
    BY <1>4, <2>1, <2>4, RaiseRcpFacts DEF Steady, Fits
  <2> QED
    BY <2>7, <2>8, StepThenCalm
<1> QED
  BY <1>5, <1>6

\* Each type of event has its handler.
Handled(s, a, r) ==
    LET h == s.queue[1].type
    IN /\ h = "SPECIAL" => r = SpecialHandler(s)
       /\ h = "COMPARE" => r = CompareHandler(s)
       /\ h = "CHECK" => r = ExceptionGeneral(a)
       /\ h = "VI" => \E d \in Delays["VI"] : r = ViEnd(a, d)
       /\ h = "AI" => \E d \in Delays["AI"] : r = AiEnd(a, d)
       /\ h = "PI" => r = PiEnd(a)
       /\ h = "SI" => r = RaiseRcp(a, "SI")
       /\ h = "SP" => r = SpEnd(a)
       /\ h = "DP" => r = DpEnd(a)
       /\ h = "HW2" => r = Hw2Handler(s)
       /\ h = "NMI" => r = NmiHandler(s)

LEMMA DispatchOutcomes ==
    ASSUME NEW s, NEW a, a = RemoveHead(s), NEW r \in Dispatch(s)
    PROVE  Handled(s, a, r)
<1> DEFINE h == s.queue[1].type
<1>1. /\ h = "SPECIAL" => r = SpecialHandler(s)
      /\ h = "COMPARE" => r = CompareHandler(s)
      /\ h = "CHECK" => r = ExceptionGeneral(a)
      /\ h = "VI" => \E d \in Delays["VI"] : r = ViEnd(a, d)
      /\ h = "AI" => \E d \in Delays["AI"] : r = AiEnd(a, d)
  <2>1. h = "SPECIAL" => Dispatch(s) = {SpecialHandler(s)}
    BY Zenon DEF Dispatch
  <2>2. h = "COMPARE" => Dispatch(s) = {CompareHandler(s)}
    BY Zenon DEF Dispatch
  <2>3. h = "CHECK" => Dispatch(s) = {ExceptionGeneral(a)}
    BY Zenon DEF Dispatch
  <2>4. h = "VI" => Dispatch(s) = {ViEnd(a, d) : d \in Delays["VI"]}
    BY Zenon DEF Dispatch
  <2>5. h = "AI" => Dispatch(s) = {AiEnd(a, d) : d \in Delays["AI"]}
    BY Zenon DEF Dispatch
  <2> HIDE DEF h
  <2> QED
    BY <2>1, <2>2, <2>3, <2>4, <2>5
<1>2. /\ h = "PI" => r = PiEnd(a)
      /\ h = "SI" => r = RaiseRcp(a, "SI")
      /\ h = "SP" => r = SpEnd(a)
      /\ h = "DP" => r = DpEnd(a)
      /\ h = "HW2" => r = Hw2Handler(s)
      /\ h = "NMI" => r = NmiHandler(s)
  <2>1. h = "PI" => Dispatch(s) = {PiEnd(a)}
    BY Zenon DEF Dispatch
  <2>2. h = "SI" => Dispatch(s) = {RaiseRcp(a, "SI")}
    BY Zenon DEF Dispatch
  <2>3. h = "SP" => Dispatch(s) = {SpEnd(a)}
    BY Zenon DEF Dispatch
  <2>4. h = "DP" => Dispatch(s) = {DpEnd(a)}
    BY Zenon DEF Dispatch
  <2>5. h = "HW2" => Dispatch(s) = {Hw2Handler(s)}
    BY Zenon DEF Dispatch
  <2>6. h = "NMI" => Dispatch(s) = {NmiHandler(s)}
    BY Zenon DEF Dispatch
  <2> HIDE DEF h
  <2> QED
    BY <2>1, <2>2, <2>3, <2>4, <2>5, <2>6
<1> QED
  BY <1>1, <1>2 DEF Handled

LEMMA DispatchStep ==
    ASSUME NEW s, Steady(s), NEW r \in Dispatch(s)
    PROVE  Step(s, r)
<1> DEFINE h == s.queue[1].type
           a == RemoveHead(s)
<1>1. h \in Types
  BY SteadyFacts, QueueOf
<1>2. \A d \in Delays["VI"] \cup Delays["AI"] : d \in Words
  BY ChoicesAssumption DEF Timed
<1>3. Handled(s, a, r)
  BY DispatchOutcomes
<1>5. h \in {"SPECIAL", "COMPARE", "CHECK", "VI", "AI"} => Step(s, r)
  BY <1>2, <1>3, SpecialStep, CompareStep, CheckStep, ViStep, AiStep DEF Handled
<1>6. h \in {"PI", "SI", "SP", "DP", "HW2", "NMI"} => Step(s, r)
  BY <1>3, EndStep, Hw2Step, NmiStep DEF Handled
<1> HIDE DEF h
<1> QED
  BY <1>1, <1>5, <1>6 DEF Types, Devices

\* gen_interupt does a reset, ends an exception in a delay slot, or dispatches.
LEMMA GenOutcomes ==
    ASSUME NEW s, NEW unsafe, NEW r \in GenIfDue(s, unsafe)
    PROVE  \/ r = s /\ ~ s.next <= s.count
           \/ r = ResetHard(s)
           \/ r = [s EXCEPT !.skip = FALSE, !.next = Recomputed(s)] /\ s.skip
           \/ r \in Dispatch(s) /\ ~ s.skip
<1> DEFINE u == [s EXCEPT !.skip = FALSE, !.next = Recomputed(s)]
<1>1. \/ GenIfDue(s, unsafe) = {s} /\ ~ s.next <= s.count
      \/ GenIfDue(s, unsafe) = {ResetHard(s)}
      \/ GenIfDue(s, unsafe) = {u} /\ s.skip
      \/ GenIfDue(s, unsafe) = Dispatch(s) /\ ~ s.skip
  BY Zenon DEF GenIfDue, GenInterrupt
<1> HIDE DEF u
<1>2. (r = s /\ ~ s.next <= s.count) \/ r = ResetHard(s) \/ (r = u /\ s.skip)
        \/ (r \in Dispatch(s) /\ ~ s.skip)
  BY <1>1
<1> QED
  BY <1>2 DEF u

LEMMA GenStep ==
    ASSUME NEW s, Steady(s), NEW unsafe, NEW r \in GenIfDue(s, unsafe)
    PROVE  Step(s, r)
<1> DEFINE n == Recomputed(s)
           u == [s EXCEPT !.skip = FALSE, !.next = n]
<1>1. \/ r = s
      \/ r = ResetHard(s)
      \/ r = u
      \/ r \in Dispatch(s)
  BY GenOutcomes
<1>2. Step(s, s)
  BY KeepsItself
<1>3. Step(s, ResetHard(s))
  BY SteadyFacts, ResetHardFacts, FreshIsStep
<1>4. Step(s, u)
  <2>1. s \in Machine /\ n \in Words /\ n \in {0, s.queue[1].count}
    BY SteadyFacts, RecomputedFacts
  <2> HIDE DEF n
  <2>2. u \in Machine
    BY <2>1 DEF Machine
  <2>3. /\ u.queue = s.queue /\ u.next = n /\ u.pi = s.pi /\ u.ai = s.ai
        /\ u.running = s.running /\ u.task = s.task /\ u.ie = s.ie /\ u.exl = s.exl
        /\ u.im = s.im /\ u.cause = s.cause /\ u.intr = s.intr /\ u.mask = s.mask
    BY <2>1 DEF Machine
  <2> HIDE DEF u
  <2>4. Typed(u) /\ Headed(u)
    BY <2>1, <2>2, <2>3, SteadyFacts DEF Typed, Headed
  <2>5. (Seen(s) => Seen(u)) /\ (Queued(s) => Queued(u))
    BY <2>3 DEF Seen, Queued, Enabled, Pending
  <2> QED
    BY <2>3, <2>4, <2>5, <1>2, StepThenCalm DEF Calm
<1> HIDE DEF u
<1> QED
  BY <1>1, <1>2, <1>3, <1>4, DispatchStep

-----------------------------------------------------------------------------
(* 4. The instructions.                                                    *)

\* What an instruction preserves.  The devices' events and the CHECK_INT are
\* only sure to be queued if the pool has room.
Moves(s, r) ==
    /\ Steady(r)
    /\ Headed(s) => Headed(r)
    /\ Len(s.queue) < Capacity =>
        (Busy(s) => Busy(r)) /\ (Seen(s) => Seen(r)) /\ (Queued(s) => Queued(r))

LEMMA MovesThenStep ==
    ASSUME NEW s, NEW u, Moves(s, u), NEW r, Keeps(u, r)
    PROVE  Moves(s, r)
BY DEF Moves, Keeps

LEMMA KeepsIsMoves ==
    ASSUME NEW s, NEW r, Keeps(s, r)
    PROVE  Moves(s, r)
BY DEF Moves, Keeps

\* The queue and the busy flags are as they were; interrupts may not be.
Touched(s, r) ==
    /\ Typed(r) /\ r.queue = s.queue /\ r.next = s.next /\ r.pi = s.pi /\ r.ai = s.ai

LEMMA UpdateCountTouches ==
    ASSUME NEW s, Typed(s)
    PROVE  /\ Touched(s, UpdateCount(s)) /\ Alike(s, UpdateCount(s))
           /\ Calm(s, UpdateCount(s))
BY UpdateCountFacts, AlikeIsCalm DEF Touched, Alike

LEMMA TouchedSteady ==
    ASSUME NEW s, Steady(s), NEW r, Touched(s, r)
    PROVE  Steady(r)
BY DEF Steady, Fits, Touched

\* check_interupt makes up for whatever was done to the interrupts.
LEMMA CheckedMoves ==
    ASSUME NEW s, Steady(s), NEW u, Touched(s, u), NEW r, r = CheckInterrupt(u)
    PROVE  Moves(s, r)
<1>1. Steady(u) /\ Typed(u)
  BY TouchedSteady DEF Touched
<1>2. Grown(u, r) /\ (Len(u.queue) < Capacity => Seen(r) /\ Queued(r))
  BY <1>1, CheckInterruptFacts
<1>3. Steady(r)
  BY <1>1, <1>2, SteadyFacts DEF Steady, Fits, Grown
<1>4. Busy(s) => Busy(r)
  BY <1>2 DEF Busy, Grown, Touched
<1>5. Headed(s) => Headed(r)
  BY <1>1, <1>2, SteadyFacts DEF Headed, Grown, Touched
<1> QED
  BY <1>2, <1>3, <1>4, <1>5 DEF Moves, Touched

LEMMA IntrTouches ==
    ASSUME NEW s, Typed(s), NEW d \in SUBSET Devices
    PROVE  Touched(s, [s EXCEPT !.intr = d])
<1> DEFINE u == [s EXCEPT !.intr = d]
<1>1. s \in Machine
  BY DEF Typed
<1>2. u \in Machine
  BY <1>1 DEF Machine
<1>3. /\ u.queue = s.queue /\ u.next = s.next /\ u.pi = s.pi /\ u.ai = s.ai
      /\ u.running = s.running /\ u.task = s.task
  BY <1>1 DEF Machine
<1> HIDE DEF u
<1>4. Touched(s, u)
  BY <1>2, <1>3 DEF Touched, Typed
<1> QED
  BY <1>4 DEF u

LEMMA SignalMoves ==
    ASSUME NEW s, Steady(s), NEW i \in Devices
    PROVE  Moves(s, SignalRcp(s, i)) /\ Moves(s, ClearRcp(s, i))
<1> DEFINE d == s.intr \cup {i}
           e == s.intr \ {i}
<1>1. Typed(s) /\ d \in SUBSET Devices /\ e \in SUBSET Devices
  BY SteadyFacts DEF Machine
<1>2. /\ SignalRcp(s, i) = CheckInterrupt([s EXCEPT !.intr = d])
      /\ ClearRcp(s, i) = CheckInterrupt([s EXCEPT !.intr = e])
  BY Zenon DEF SignalRcp, ClearRcp
<1> HIDE DEF d, e
<1> QED
  BY <1>1, <1>2, IntrTouches, CheckedMoves

LEMMA MaskMoves ==
    ASSUME NEW s, Steady(s), NEW r \in StoreMiMask(s)
    PROVE  Moves(s, r)
<1>1. PICK w \in Masks :
        r \in GenIfDue(UpdateCount(CheckInterrupt([s EXCEPT !.mask = w])), FALSE)
  BY DEF StoreMiMask
<1> DEFINE u == [s EXCEPT !.mask = w]
           a == CheckInterrupt(u)
           b == UpdateCount(a)
<1>2. s \in Machine /\ w \in SUBSET Devices
  BY SteadyFacts, ChoicesAssumption
<1>3. u \in Machine
  BY <1>2 DEF Machine
<1>4. /\ u.queue = s.queue /\ u.next = s.next /\ u.pi = s.pi /\ u.ai = s.ai
      /\ u.running = s.running /\ u.task = s.task
  BY <1>2 DEF Machine
<1> HIDE DEF u
<1>5. Touched(s, u)
  BY <1>3, <1>4, SteadyFacts DEF Touched, Typed
<1>6. Moves(s, a)
  BY <1>5, CheckedMoves
<1>7. Steady(a)
  BY <1>6 DEF Moves
<1> HIDE DEF a
<1>8. Keeps(a, b)
  BY <1>7, SteadyFacts, UpdateCountTouches, CalmKeeps
<1> HIDE DEF b
<1>9. Keeps(b, r)
  BY <1>1, <1>8, GenStep DEF Keeps, Step, u, a, b
<1> QED
  BY <1>6, <1>8, <1>9, MovesThenStep

\* An event is added; no property was broken before.
LEMMA AddEventMoves ==
    ASSUME NEW s, Steady(s), NEW t \in Types, t # "SPECIAL", NEW d \in Words,
           NEW r, r = AddEvent(s, t, d)
    PROVE  Keeps(s, r) /\ (Len(s.queue) < Capacity => t \in Kinds(r.queue))
<1>1. PICK c \in Words : Added(s, t, c, r)
  BY SteadyFacts, AddEventFacts
<1> QED
  BY <1>1, SteadyFacts, AddedIsGrown, GrownKeeps DEF Added

LEMMA PiMoves ==
    ASSUME NEW s, Steady(s), NEW r \in StorePiLength(s)
    PROVE  Moves(s, r)
<1>1. PICK d \in Delays["PI"] : r = StartPi(s, d)
  BY DEF StorePiLength
<1> DEFINE u == [s EXCEPT !.pi = TRUE]
           c == UpdateCount(u)
<1>2. r = AddEvent(c, "PI", d)
  BY <1>1, Zenon DEF StartPi
<1>3. s \in Machine /\ d \in Words /\ "PI" \in Types
  BY SteadyFacts, ChoicesAssumption DEF Types, Devices, Timed
<1>4. u \in Machine
  BY <1>3 DEF Machine
<1>5. /\ u.queue = s.queue /\ u.next = s.next /\ u.pi = TRUE /\ u.ai = s.ai
      /\ u.running = s.running /\ u.task = s.task /\ u.ie = s.ie /\ u.exl = s.exl
      /\ u.im = s.im /\ u.cause = s.cause /\ u.intr = s.intr /\ u.mask = s.mask
  BY <1>3 DEF Machine
<1> HIDE DEF u
<1>6. Steady(u) /\ (Headed(s) => Headed(u))
  BY <1>4, <1>5 DEF Steady, Fits, Typed, Headed
<1>7. (Seen(s) => Seen(u)) /\ (Queued(s) => Queued(u))
  BY <1>5 DEF Seen, Queued, Enabled, Pending
<1>8. Calm(u, c) /\ Touched(u, c) /\ Keeps(u, c)
  BY <1>6, SteadyFacts, UpdateCountTouches, CalmKeeps
<1> HIDE DEF c
<1>9. PICK n \in Words : Added(c, "PI", n, r)
  BY <1>2, <1>3, <1>8, AddEventFacts DEF Touched
<1>10. Grown(c, r) /\ Keeps(c, r)
  BY <1>3, <1>8, <1>9, SteadyFacts, AddedIsGrown, GrownKeeps DEF Keeps
<1>11. ASSUME Len(s.queue) < Capacity, Busy(s) PROVE Busy(r)
  <2>1. "PI" \in Kinds(r.queue)
    BY <1>5, <1>8, <1>9, <1>11 DEF Added, Touched
  <2>2. Kinds(s.queue) \subseteq Kinds(r.queue) /\ r.ai = s.ai
    BY <1>5, <1>8, <1>10 DEF Grown, Touched
  <2> QED
    BY <2>1, <2>2, <1>11 DEF Busy
<1> QED
  BY <1>6, <1>7, <1>8, <1>10, <1>11 DEF Moves, Keeps

LEMMA AiMoves ==
    ASSUME NEW s, Steady(s), NEW r \in StoreAiLength(s)
    PROVE  Moves(s, r)
<1>1. PICK d \in Delays["AI"] : r = FifoPush(s, d)
  BY DEF StoreAiLength
<1> DEFINE u == [s EXCEPT !.ai = 1]
           c == UpdateCount(u)
           v == [s EXCEPT !.ai = 2]
<1>2. r = IF s.ai = 0 THEN AddEvent(c, "AI", d) ELSE v
  BY <1>1, Zenon DEF FifoPush
<1>3. /\ s \in Machine /\ d \in Words /\ "AI" \in Types /\ s.ai \in 0 .. 2
      /\ 1 \in 0 .. 2 /\ 2 \in 0 .. 2
  BY SteadyFacts, ChoicesAssumption DEF Types, Devices, Timed, Machine
<1>4. CASE s.ai = 0
  <2>1. r = AddEvent(c, "AI", d)
    BY <1>2, <1>4
  <2>2. u \in Machine
    BY <1>3 DEF Machine
  <2>3. /\ u.queue = s.queue /\ u.next = s.next /\ u.pi = s.pi
        /\ u.running = s.running /\ u.task = s.task /\ u.ie = s.ie /\ u.exl = s.exl
        /\ u.im = s.im /\ u.cause = s.cause /\ u.intr = s.intr /\ u.mask = s.mask
    BY <1>3 DEF Machine
  <2> HIDE DEF u
  <2>4. Steady(u) /\ (Headed(s) => Headed(u))
    BY <2>2, <2>3 DEF Steady, Fits, Typed, Headed
  <2>5. (Seen(s) => Seen(u)) /\ (Queued(s) => Queued(u))
    BY <2>3 DEF Seen, Queued, Enabled, Pending
  <2>6. Calm(u, c) /\ Touched(u, c) /\ Keeps(u, c)
    BY <2>4, SteadyFacts, UpdateCountTouches, CalmKeeps
  <2> HIDE DEF c
  <2>7. PICK n \in Words : Added(c, "AI", n, r)
    BY <2>1, <2>6, <1>3, AddEventFacts DEF Touched
  <2>8. Grown(c, r) /\ Keeps(c, r)
    BY <2>6, <2>7, <1>3, SteadyFacts, AddedIsGrown, GrownKeeps DEF Keeps
  <2>9. ASSUME Len(s.queue) < Capacity, Busy(s) PROVE Busy(r)
    <3>1. "AI" \in Kinds(r.queue)
      BY <2>3, <2>6, <2>7, <2>9 DEF Added, Touched
    <3>2. Kinds(s.queue) \subseteq Kinds(r.queue) /\ r.pi = s.pi
      BY <2>3, <2>6, <2>8 DEF Grown, Touched
    <3> QED
      BY <3>1, <3>2, <2>9 DEF Busy
  <2> QED
    BY <2>4, <2>5, <2>6, <2>8, <2>9 DEF Moves, Keeps
<1>5. CASE s.ai # 0
  <2>1. r = v
    BY <1>2, <1>5
  <2>2. v \in Machine
    BY <1>3 DEF Machine
  <2>3. /\ v.queue = s.queue /\ v.next = s.next /\ v.pi = s.pi
        /\ v.running = s.running /\ v.task = s.task /\ v.ie = s.ie /\ v.exl = s.exl
        /\ v.im = s.im /\ v.cause = s.cause /\ v.intr = s.intr /\ v.mask = s.mask
    BY <1>3 DEF Machine
  <2> HIDE DEF v
  <2>4. Steady(v) /\ (Headed(s) => Headed(v))
    BY <2>2, <2>3 DEF Steady, Fits, Typed, Headed
  <2>5. (Seen(s) => Seen(v)) /\ (Queued(s) => Queued(v))
    BY <2>3 DEF Seen, Queued, Enabled, Pending
  <2>6. s.ai > 0
    BY <1>3, <1>5
  <2>7. Busy(s) => Busy(v)
    BY <2>3, <2>6 DEF Busy
  <2> QED
    BY <2>1, <2>4, <2>5, <2>7 DEF Moves
<1> QED
  BY <1>4, <1>5

LEMMA SiMoves ==
    ASSUME NEW s, Steady(s), NEW r \in StartSi(s) \cup StartSiNow(s)
    PROVE  Moves(s, r)
<1> DEFINE c == UpdateCount(s)
<1>1. Calm(s, c) /\ Keeps(s, c) /\ Steady(c)
  BY SteadyFacts, UpdateCountTouches, CalmKeeps DEF Keeps
<1>2. \/ \E t \in Delays["SI"] : r = AddEvent(c, "SI", t)
      \/ r = SignalRcp(c, "SI")
  BY DEF StartSi, StartSiNow
<1> HIDE DEF c
<1>3. "SI" \in Types /\ "SI" \in Devices /\ \A t \in Delays["SI"] : t \in Words
  BY ChoicesAssumption DEF Types, Devices, Timed
<1>4. CASE \E t \in Delays["SI"] : r = AddEvent(c, "SI", t)
  <2>1. Keeps(c, r)
    BY <1>1, <1>3, <1>4, AddEventMoves
  <2> QED
    BY <1>1, <2>1, KeepsIsMoves, MovesThenStep
<1>5. CASE r = SignalRcp(c, "SI")
  <2>1. Moves(c, r)
    BY <1>1, <1>3, <1>5, SignalMoves
  <2> QED
    BY <1>1, <2>1 DEF Moves, Keeps, Calm
<1> QED
  BY <1>2, <1>4, <1>5

\* A change that no property is about.
LEMMA AlikeKeeps ==
    ASSUME NEW s, Steady(s), NEW r, Typed(r), Alike(s, r)
    PROVE  Keeps(s, r)
BY AlikeIsCalm, CalmKeeps

LEMMA FlagsMove ==
    ASSUME NEW s, Steady(s), NEW r \in Freeze(s) \cup HaltSp(s) \cup ResetHardRequested(s)
    PROVE  Moves(s, r)
<1> DEFINE u == [s EXCEPT !.frozen = TRUE]
           v == [s EXCEPT !.running = FALSE, !.deferred = FALSE]
           w == [s EXCEPT !.job = TRUE]
<1>1. r = u \/ r = v \/ r = w
  BY DEF Freeze, HaltSp, ResetHardRequested
<1>2. s \in Machine
  BY SteadyFacts
<1>3. u \in Machine /\ v \in Machine /\ w \in Machine
  BY ZenonT(120), <1>2 DEF Machine
<1>4. Alike(s, u) /\ u.running = s.running /\ u.task = s.task
  BY <1>2 DEF Machine, Alike
<1>5. Alike(s, v) /\ v.running = FALSE
  BY <1>2 DEF Machine, Alike
<1>6. Alike(s, w) /\ w.running = s.running /\ w.task = s.task
  BY <1>2 DEF Machine, Alike
<1> HIDE DEF u, v, w
<1>7. Typed(r) /\ Alike(s, r)
  BY <1>1, <1>3, <1>4, <1>5, <1>6, SteadyFacts DEF Typed
<1> QED
  BY <1>7, AlikeKeeps, KeepsIsMoves

LEMMA BreakMoves ==
    ASSUME NEW s, Steady(s), NEW r \in BreakSp(s)
    PROVE  Moves(s, r)
<1> DEFINE u == [s EXCEPT !.onbreak = TRUE]
<1>1. r = ClearRcp(u, "SP")
  BY DEF BreakSp
<1>2. s \in Machine
  BY SteadyFacts
<1>3. u \in Machine
  BY <1>2 DEF Machine
<1>4. Alike(s, u) /\ u.running = s.running /\ u.task = s.task
  BY <1>2 DEF Machine, Alike
<1> HIDE DEF u
<1>5. Typed(u) /\ Keeps(s, u)
  BY <1>3, <1>4, SteadyFacts, AlikeKeeps DEF Typed
<1>6. Moves(u, r)
  BY <1>1, <1>5, SignalMoves DEF Keeps, Devices
<1> QED
  BY <1>4, <1>5, <1>6 DEF Moves, Keeps, Alike

\* A task leaves the SP and DP bits of MI_INTR as they were, or clears them.
LEMMA RunMoves ==
    ASSUME NEW s, Steady(s), s.task \in Tasks, NEW r \in RunSp(s)
    PROVE  Moves(s, r)
<1>1. PICK raised \in Raised(s) : r = SpTask(s, raised)
  BY DEF RunSp
<1> DEFINE gfx == s.task = "gfx"
           i == s.intr \cup raised
           u == [s EXCEPT !.intr = i, !.deferred = FALSE]
           c == UpdateCount(u)
           sp == IF "SP" \in c.intr THEN AddEvent(c, "SP", SpDelays[c.task]) ELSE c
           dp == IF gfx /\ "DP" \in c.intr THEN AddEvent(sp, "DP", SpDelays[c.task]) ELSE sp
           j == dp.intr \ (IF gfx THEN {"SP", "DP"} ELSE {"SP"})
           v == [dp EXCEPT !.intr = j]
           w == [s EXCEPT !.deferred = TRUE]
<1>2. r = IF gfx /\ s.frozen THEN w ELSE v
  BY <1>1, Zenon DEF SpTask
<1>3. raised \subseteq (IF gfx THEN {"SP", "DP"} ELSE {"SP"})
  BY DEF Raised
<1>4. s \in Machine
  BY SteadyFacts
<1>5. CASE gfx /\ s.frozen
  <2>1. w \in Machine
    BY <1>4 DEF Machine
  <2>2. Alike(s, w) /\ w.running = s.running /\ w.task = s.task
    BY <1>4 DEF Machine, Alike
  <2>3. r = w
    BY <1>2, <1>5
  <2> HIDE DEF w, gfx
  <2>4. Typed(w)
    BY <2>1, <2>2, SteadyFacts DEF Typed
  <2> QED
    BY <2>2, <2>3, <2>4, AlikeKeeps, KeepsIsMoves
<1>6. CASE ~ (gfx /\ s.frozen)
  <2>1. r = v
    BY <1>2, <1>6
  <2>2. {"SP", "DP"} \subseteq Devices
    BY DEF Devices
  <2>3. i \in SUBSET Devices
    BY ZenonT(120), <1>3, <1>4, <2>2 DEF Machine
  <2>4. u \in Machine
    BY ZenonT(120), <1>4, <2>3 DEF Machine
  <2>5. /\ u.queue = s.queue /\ u.next = s.next /\ u.pi = s.pi /\ u.ai = s.ai
        /\ u.running = s.running /\ u.task = s.task /\ u.ie = s.ie /\ u.exl = s.exl
        /\ u.im = s.im /\ u.cause = s.cause /\ u.intr = i /\ u.mask = s.mask
    BY <1>4 DEF Machine
  <2> HIDE DEF u
  <2>6. Steady(u) /\ Touched(s, u)
    BY <2>4, <2>5, SteadyFacts DEF Touched, Steady, Fits, Typed
  <2>7. Touched(u, c) /\ Alike(u, c) /\ Steady(c) /\ c.task = s.task
    BY <2>5, <2>6, SteadyFacts, UpdateCountTouches, UpdateCountFacts, TouchedSteady
  <2> HIDE DEF c
  <2>8. SpDelays[c.task] \in Words /\ "SP" \in Types /\ "DP" \in Types
    BY <2>7, ChoicesAssumption DEF Types, Devices
  \* what the two events leave of c
  <2> DEFINE Longer(x, y) ==
               /\ Steady(y) /\ Kinds(x.queue) \subseteq Kinds(y.queue)
               /\ (Headed(x) => Headed(y))
               /\ y.pi = x.pi /\ y.ai = x.ai /\ y.ie = x.ie /\ y.exl = x.exl
               /\ y.im = x.im /\ y.cause = x.cause /\ y.intr = x.intr /\ y.mask = x.mask
  <2>9. ASSUME NEW x, Steady(x), NEW t \in {"SP", "DP"}
        PROVE  Longer(x, AddEvent(x, t, SpDelays[c.task]))
    <3> DEFINE y == AddEvent(x, t, SpDelays[c.task])
    <3>1. PICK n \in Words : Added(x, t, n, y)
      BY <2>8, <2>9, SteadyFacts, AddEventFacts
    <3> HIDE DEF y
    <3>2. Grown(x, y)
      BY <2>8, <2>9, <3>1, SteadyFacts, AddedIsGrown
    <3>3. Steady(y) /\ (Headed(x) => Headed(y))
      BY <3>2, <2>9, SteadyFacts DEF Grown, Steady, Fits
    <3>4. Longer(x, y)
      BY <3>1, <3>2, <3>3 DEF Added, Frame, Grown
    <3> QED
      BY <3>4 DEF y
  <2>10. Longer(c, c)
    BY <2>7
  <2>11. Longer(c, sp)
    <3>1. sp = c \/ sp = AddEvent(c, "SP", SpDelays[c.task])
      BY Zenon
    <3> HIDE DEF sp, Longer
    <3> QED
      BY <3>1, <2>7, <2>9, <2>10
  <2> HIDE DEF sp
  <2>12. Longer(c, dp)
    <3>1. dp = sp \/ dp = AddEvent(sp, "DP", SpDelays[c.task])
      BY Zenon
    <3> HIDE DEF dp
    <3>2. dp = AddEvent(sp, "DP", SpDelays[c.task]) => Longer(sp, dp)
      BY <2>9, <2>11
    <3> QED
      BY <3>1, <3>2, <2>11
  <2> HIDE DEF dp
  <2>13. dp \in Machine /\ j \in SUBSET Devices
    BY <2>12, SteadyFacts DEF Machine
  <2>14. j \subseteq s.intr
    BY <1>3, <2>5, <2>7, <2>12 DEF Alike
  <2> HIDE DEF j, i
  <2>15. Touched(dp, v)
    BY <2>12, <2>13, SteadyFacts, IntrTouches
  <2>16. /\ v.ie = dp.ie /\ v.exl = dp.exl /\ v.im = dp.im /\ v.cause = dp.cause
         /\ v.mask = dp.mask /\ v.intr = j
    BY <2>13 DEF Machine
  <2> HIDE DEF v
  <2>17. Steady(v) /\ (Headed(s) => Headed(v))
    BY <2>5, <2>7, <2>12, <2>15, TouchedSteady DEF Touched, Headed
  <2>18. Busy(s) => Busy(v)
    BY <2>5, <2>7, <2>12, <2>15 DEF Touched, Busy
  <2>19. /\ v.ie = s.ie /\ v.exl = s.exl /\ v.im = s.im /\ v.cause = s.cause
         /\ v.mask = s.mask /\ v.intr \subseteq s.intr
         /\ Kinds(s.queue) \subseteq Kinds(v.queue)
    BY <2>5, <2>7, <2>12, <2>14, <2>15, <2>16 DEF Alike, Touched
  <2>20. (Seen(s) => Seen(v)) /\ (Queued(s) => Queued(v))
    BY <2>19 DEF Seen, Queued, Enabled, Pending
  <2> QED
    BY SMTT(60), <2>1, <2>17, <2>18, <2>20 DEF Moves
<1> QED
  BY <1>5, <1>6

LEMMA StartSpMoves ==
    ASSUME NEW s, Steady(s), NEW r \in StartSp(s) \cup Unfreeze(s)
    PROVE  Moves(s, r)
<1>1. s \in Machine
  BY SteadyFacts
<1>2. ASSUME NEW t \in Tasks, r \in RunSp([s EXCEPT !.running = TRUE, !.task = t])
      PROVE  Moves(s, r)
  <2> DEFINE u == [s EXCEPT !.running = TRUE, !.task = t]
  <2>1. u \in Machine
    BY <1>1 DEF Machine
  <2>2. Alike(s, u) /\ u.task = t
    BY <1>1 DEF Machine, Alike
  <2>3. r \in RunSp(u)
    BY <1>2
  <2> HIDE DEF u
  <2>4. Typed(u)
    BY <2>1, <2>2 DEF Typed
  <2>5. Keeps(s, u)
    BY <2>2, <2>4, AlikeKeeps
  <2>6. Moves(u, r)
    BY <2>2, <2>3, <2>5, RunMoves DEF Keeps
  <2> QED
    BY <2>2, <2>5, <2>6 DEF Moves, Keeps, Alike
<1>3. ASSUME r \in Unfreeze(s) PROVE Moves(s, r)
  <2> DEFINE u == [s EXCEPT !.frozen = FALSE]
  <2>1. u \in Machine
    BY <1>1 DEF Machine
  <2>2. Alike(s, u) /\ u.running = s.running /\ u.task = s.task
    BY <1>1 DEF Machine, Alike
  <2>3. r = u \/ (s.running /\ r \in RunSp(u))
    <3>1. (s.running /\ Unfreeze(s) = RunSp(u)) \/ Unfreeze(s) = {u}
      BY Zenon DEF Unfreeze
    <3> HIDE DEF u
    <3>2. CASE Unfreeze(s) = {u}
      BY <1>3, <3>2
    <3>3. CASE s.running /\ Unfreeze(s) = RunSp(u)
      BY <1>3, <3>3, Zenon
    <3> QED
      BY <3>1, <3>2, <3>3
  <2> HIDE DEF u
  <2>4. Typed(u)
    BY <2>1, <2>2, SteadyFacts DEF Typed
  <2>5. Keeps(s, u)
    BY <2>2, <2>4, AlikeKeeps
  <2>6. CASE r = u
    BY <2>5, <2>6, KeepsIsMoves
  <2>7. CASE s.running /\ r \in RunSp(u)
    <3>1. u.task \in Tasks
      BY <2>2, <2>7, SteadyFacts DEF Typed
    <3>2. Moves(u, r)
      BY <2>5, <2>7, <3>1, RunMoves DEF Keeps
    <3> QED
      BY <2>2, <2>5, <3>2 DEF Moves, Keeps, Alike
  <2> QED
    BY <2>3, <2>6, <2>7
<1> QED
  BY <1>2, <1>3 DEF StartSp

LEMMA EretMoves ==
    ASSUME NEW s, Steady(s), NEW r \in Eret(s)
    PROVE  Moves(s, r)
<1> DEFINE c == UpdateCount(s)
           u == [c EXCEPT !.exl = FALSE, !.epc = "none"]
           a == CheckInterrupt(u)
<1>1. r \in GenIfDue(a, FALSE)
  BY DEF Eret
<1>2. Touched(s, c)
  BY SteadyFacts, UpdateCountTouches
<1> HIDE DEF c
<1>3. c \in Machine
  BY <1>2 DEF Touched, Typed
<1>4. u \in Machine
  BY <1>3 DEF Machine
<1>5. /\ u.queue = c.queue /\ u.next = c.next /\ u.pi = c.pi /\ u.ai = c.ai
      /\ u.running = c.running /\ u.task = c.task
  BY <1>3 DEF Machine
<1> HIDE DEF u
<1>6. Touched(s, u)
  BY <1>2, <1>4, <1>5 DEF Touched, Typed
<1>7. Moves(s, a)
  BY <1>6, CheckedMoves
<1> HIDE DEF a
<1>8. Keeps(a, r)
  BY <1>1, <1>7, GenStep DEF Moves, Step
<1> QED
  BY <1>7, <1>8, MovesThenStep

LEMMA StatusMoves ==
    ASSUME NEW s, Steady(s), NEW r \in StoreStatus(s)
    PROVE  Moves(s, r)
<1>1. PICK w \in [ie : BOOLEAN, im : Lines] :
        r \in GenIfDue(CheckInterrupt(UpdateCount(
                [s EXCEPT !.ie = w.ie, !.exl = FALSE, !.im = w.im])), TRUE)
  BY DEF StoreStatus
<1> DEFINE u == [s EXCEPT !.ie = w.ie, !.exl = FALSE, !.im = w.im]
           c == UpdateCount(u)
           a == CheckInterrupt(c)
<1>2. s \in Machine /\ w.ie \in BOOLEAN /\ w.im \in SUBSET {"rcp", "timer", "hw2"}
  BY SteadyFacts, ChoicesAssumption
<1>3. u \in Machine
  BY <1>2 DEF Machine
<1>4. /\ u.queue = s.queue /\ u.next = s.next /\ u.pi = s.pi /\ u.ai = s.ai
      /\ u.running = s.running /\ u.task = s.task
  BY <1>2 DEF Machine
<1>5. r \in GenIfDue(a, TRUE)
  BY <1>1
<1> HIDE DEF u
<1>6. Typed(u)
  BY <1>3, <1>4, SteadyFacts DEF Typed
<1>7. Touched(s, c)
  <2>1. Touched(u, c)
    BY <1>6, UpdateCountTouches
  <2> QED
    BY <2>1, <1>4 DEF Touched
<1> HIDE DEF c
<1>8. Moves(s, a)
  BY <1>7, CheckedMoves
<1> HIDE DEF a
<1>9. Keeps(a, r)
  BY <1>5, <1>8, GenStep DEF Moves, Step
<1> QED
  BY <1>8, <1>9, MovesThenStep

\* An exception of the program's own leaves nothing to be noticed.
LEMMA SyscallMoves ==
    ASSUME NEW s, Steady(s), NEW r \in Syscall(s)
    PROVE  Moves(s, r)
<1> DEFINE u == [s EXCEPT !.cause = {}]
<1>1. r = ExceptionGeneral(u)
  BY DEF Syscall
<1>2. s \in Machine
  BY SteadyFacts
<1>3. u \in Machine
  BY <1>2 DEF Machine
<1>4. /\ u.queue = s.queue /\ u.next = s.next /\ u.pi = s.pi /\ u.ai = s.ai
      /\ u.running = s.running /\ u.task = s.task
  BY <1>2 DEF Machine
<1> HIDE DEF u
<1>5. Touched(s, u) /\ Steady(u)
  BY <1>3, <1>4, SteadyFacts, TouchedSteady DEF Touched, Typed
<1>6. Calm(u, r) /\ Seen(r) /\ Queued(r)
  BY <1>1, <1>5, ExceptionFacts DEF Touched
<1>7. Keeps(u, r)
  BY <1>5, <1>6, CalmKeeps
<1>8. (Busy(s) => Busy(u)) /\ (Headed(s) => Headed(u))
  BY <1>4 DEF Busy, Headed
<1> QED
  BY <1>6, <1>7, <1>8 DEF Moves, Keeps

\* MTC0 Cause clears what is pending: nothing is left to be queued, but an
\* interrupt of the RCP may not be seen any more.
LEMMA CauseMoves ==
    ASSUME NEW s, Steady(s), NEW r \in StoreCause(s)
    PROVE  /\ Steady(r)
           /\ Headed(s) => Headed(r)
           /\ Busy(s) => Busy(r)
           /\ Queued(r)
<1>1. r = [s EXCEPT !.cause = {}]
  BY DEF StoreCause
<1>2. s \in Machine
  BY SteadyFacts
<1>3. r \in Machine
  BY <1>1, <1>2 DEF Machine
<1>4. /\ r.queue = s.queue /\ r.next = s.next /\ r.pi = s.pi /\ r.ai = s.ai
      /\ r.running = s.running /\ r.task = s.task /\ r.cause = {}
  BY <1>1, <1>2 DEF Machine
<1>5. Touched(s, r)
  BY <1>3, <1>4, SteadyFacts DEF Touched, Typed
<1>6. Queued(r)
  BY <1>4 DEF Queued, Pending
<1> QED
  BY <1>4, <1>5, <1>6, TouchedSteady DEF Busy, Headed

\* MTC0 Compare replaces the timer's event and leaves next_interupt, so that
\* the queue may not be headed any more.
LEMMA CompareMoves ==
    ASSUME NEW s, Steady(s), NEW r \in StoreCompare(s)
    PROVE  /\ Steady(r)
           /\ Busy(s) => Busy(r)
           /\ (Seen(s) => Seen(r)) /\ (Queued(s) => Queued(r))
<1>1. PICK w \in Compares :
        r = [AddEventCount(RemoveEvent(UpdateCount(s), "COMPARE"), "COMPARE", w)
               EXCEPT !.compare = w, !.cause = @ \ {"timer"}]
  BY Zenon DEF StoreCompare
<1> DEFINE c == UpdateCount(s)
           a == RemoveEvent(c, "COMPARE")
           b == AddEventCount(a, "COMPARE", w)
           k == b.cause \ {"timer"}
           u == [b EXCEPT !.compare = w, !.cause = k]
<1>2. r = u
  BY <1>1, Zenon
<1>3. Steady(c) /\ Alike(s, c)
  BY SteadyFacts, UpdateCountTouches, TouchedSteady
<1>4. Taken(c, "COMPARE", a)
  BY <1>3, SteadyFacts, RemoveEventFacts
<1> HIDE DEF c
<1>5. w \in Words /\ "COMPARE" \in Types
  BY WidthAssumption DEF Types
<1>6. Added(a, "COMPARE", w, b)
  BY <1>4, <1>5, AddFacts DEF Taken
<1> HIDE DEF a
<1>7. Typed(a) /\ OneMarker(a.queue) /\ Len(a.queue) <= Capacity
  <2>1. Len(a.queue) \in Nat /\ Capacity \in Nat
    BY <1>4, Constants, QueueOf DEF Taken, Typed
  <2> QED
    BY <2>1, <1>3, <1>4, SteadyFacts DEF Taken, Steady
<1>8. Steady(b)
  BY <1>6, <1>7 DEF Added, Steady, Fits
<1>9. \A t \in Kinds(s.queue) : t = "COMPARE" \/ t \in Kinds(b.queue)
  BY <1>3, <1>4, <1>6 DEF Alike, Taken, Added
<1>10. /\ b.pi = s.pi /\ b.ai = s.ai /\ b.ie = s.ie /\ b.exl = s.exl /\ b.im = s.im
       /\ b.cause = s.cause /\ b.intr = s.intr /\ b.mask = s.mask
  BY <1>3, <1>4, <1>6 DEF Alike, Taken, Added, Frame
<1> HIDE DEF b
<1>11. b \in Machine /\ k \in SUBSET {"rcp", "timer", "hw2"}
       /\ k \subseteq b.cause /\ ("rcp" \in b.cause => "rcp" \in k)
  BY <1>8, SteadyFacts DEF Machine
<1> HIDE DEF k
<1>12. u \in Machine
  BY <1>5, <1>11 DEF Machine
<1>13. /\ u.queue = b.queue /\ u.pi = b.pi /\ u.ai = b.ai /\ u.ie = b.ie
       /\ u.exl = b.exl /\ u.im = b.im /\ u.cause = k /\ u.intr = b.intr
       /\ u.mask = b.mask /\ u.running = b.running /\ u.task = b.task
  BY <1>11 DEF Machine
<1> HIDE DEF u
<1>14. Steady(u)
  BY <1>8, <1>12, <1>13 DEF Steady, Fits, Typed
<1>15. Busy(s) => Busy(u)
  BY <1>9, <1>10, <1>13 DEF Busy
<1>16. (Seen(s) => Seen(u)) /\ (Queued(s) => Queued(u))
  BY <1>9, <1>10, <1>11, <1>13 DEF Seen, Queued, Enabled, Pending
<1> QED
  BY <1>2, <1>14, <1>15, <1>16

\* MTC0 Count moves every event, and loses none if the pool has room.
LEMMA CountMoves ==
    ASSUME NEW s, Steady(s), Len(s.queue) < Capacity, NEW r \in StoreCount(s)
    PROVE  /\ Steady(r)
           /\ Busy(s) => Busy(r)
           /\ (Seen(s) => Seen(r)) /\ (Queued(s) => Queued(r))
<1>1. PICK w \in Counts, g \in GenIfDue(UpdateCount(s), TRUE) :
        r = [TranslateEventQueue(g, w) EXCEPT !.count = w]
  BY DEF StoreCount
<1> DEFINE d == RemoveEvent(g, "COMPARE")
           e == RemoveEvent(d, "SPECIAL")
           p == Translated(e, w)
           x == [e EXCEPT !.queue = p]
           y == AddEventCount(x, "COMPARE", x.compare)
           z == AddEventCount(y, "SPECIAL", 0)
           u == [z EXCEPT !.count = w]
<1>2. r = u
  BY <1>1, Zenon DEF TranslateEventQueue
<1>3. /\ Steady(UpdateCount(s)) /\ Keeps(s, UpdateCount(s))
      /\ Len(UpdateCount(s).queue) < Capacity
  BY SteadyFacts, UpdateCountTouches, CalmKeeps, TouchedSteady DEF Touched
<1>4. Steady(g) /\ Keeps(s, g) /\ Len(g.queue) < Capacity
  <2>1. Step(UpdateCount(s), g)
    BY <1>3, GenStep
  <2>2. Len(g.queue) \in Nat /\ Len(UpdateCount(s).queue) \in Nat
        /\ Capacity \in Nat /\ Capacity > 2
    BY <1>3, <2>1, Constants, SteadyFacts DEF Step, Keeps
  <2> QED
    BY <1>3, <2>1, <2>2 DEF Step, Keeps
<1>5. w \in Words /\ 0 \in Words /\ "COMPARE" \in Types /\ "SPECIAL" \in Types
  BY WidthAssumption, Constants DEF Types
<1>6. Taken(g, "COMPARE", d)
  BY <1>4, SteadyFacts, RemoveEventFacts
<1> HIDE DEF d
<1>7. Taken(d, "SPECIAL", e)
  BY <1>6, RemoveEventFacts DEF Taken
<1> HIDE DEF e
<1>8. e \in Machine /\ e.queue \in Seq(Events) /\ e.count \in Words
  BY <1>7, QueueOf DEF Taken, Typed
<1>9. OneMarker(d.queue)
  BY <1>4, <1>6 DEF Steady, Taken
<1>10. /\ NoMarker(e.queue) /\ Len(e.queue) = Len(d.queue) - 1
       /\ Len(d.queue) <= Len(g.queue)
  <2>1. "SPECIAL" \in Kinds(d.queue)
    BY <1>9 DEF OneMarker, Kinds
  <2> QED
    BY <2>1, <1>6, <1>7, <1>9 DEF Taken
<1>11. /\ p \in Seq(Events) /\ Len(p) = Len(e.queue) /\ Kinds(p) = Kinds(e.queue)
       /\ NoMarker(p)
  BY <1>5, <1>8, <1>10, TranslatedFacts
<1> HIDE DEF p
<1>12. x \in Machine
  BY <1>8, <1>11 DEF Machine
<1>13. x.queue = p /\ Frame(e, x)
  BY <1>8 DEF Machine, Frame
<1> HIDE DEF x
<1>14. Typed(x) /\ x.compare \in Words
  <2>1. Typed(x)
    BY <1>7, <1>12, <1>13 DEF Taken, Typed, Frame
  <2> QED
    BY <2>1, <1>12 DEF Machine
<1>15. Added(x, "COMPARE", x.compare, y)
  BY <1>5, <1>14, AddFacts
<1> HIDE DEF y
<1>16. Added(y, "SPECIAL", 0, z)
  BY <1>5, <1>15, AddFacts DEF Added
<1> HIDE DEF z
<1>17. Len(y.queue) < Capacity
  <2>1. /\ Len(g.queue) \in Nat /\ Len(d.queue) \in Nat /\ Len(e.queue) \in Nat
        /\ Len(y.queue) \in Nat /\ Capacity \in Nat
    BY <1>4, <1>6, <1>7, <1>15, Constants, SteadyFacts, QueueOf DEF Taken, Added, Typed
  <2> QED
    BY <2>1, <1>4, <1>10, <1>11, <1>13, <1>15 DEF Added
<1>18. Steady(z)
  <2>1. NoMarker(y.queue)
    BY <1>11, <1>13, <1>15 DEF Added
  <2>2. OneMarker(z.queue) /\ Typed(z)
    BY <1>16, <1>17, <2>1 DEF Added
  <2>3. Len(y.queue) <= Capacity
    <3>1. Len(y.queue) \in Nat /\ Capacity \in Nat
      BY <1>15, Constants, QueueOf DEF Added, Typed
    <3> QED
      BY <3>1, <1>17
  <2> QED
    BY <1>16, <2>2, <2>3 DEF Added, Steady, Fits
<1>19. \A t \in Kinds(g.queue) : t \in {"COMPARE", "SPECIAL"} \/ t \in Kinds(z.queue)
  BY <1>6, <1>7, <1>11, <1>13, <1>15, <1>16 DEF Taken, Added
<1>20. Frame(g, z)
  BY <1>6, <1>7, <1>13, <1>15, <1>16 DEF Taken, Added, Frame
<1>21. u \in Machine
  BY <1>5, <1>18, SteadyFacts DEF Machine
<1>22. Alike(z, u) /\ u.running = z.running /\ u.task = z.task
  BY <1>18, SteadyFacts DEF Machine, Alike
<1> HIDE DEF u
<1>23. Keeps(z, u)
  BY <1>18, <1>21, <1>22, SteadyFacts, AlikeKeeps DEF Typed
<1>24. Busy(g) => Busy(z)
  BY <1>19, <1>20 DEF Busy, Frame
<1>25. (Seen(g) => Seen(z)) /\ (Queued(g) => Queued(z))
  BY <1>19, <1>20 DEF Seen, Queued, Enabled, Pending, Frame
<1> QED
  BY <1>2, <1>4, <1>23, <1>24, <1>25 DEF Keeps

\* What the instructions do, for the programs that write Compare, Count or
\* Cause and for those that do not.
Acts(i, s, r) ==
    /\ Steady(r)
    /\ i \notin {"compare", "count"} => (Headed(s) => Headed(r))
    /\ Len(s.queue) < Capacity =>
        /\ Busy(s) => Busy(r)
        /\ i # "cause" => (Seen(s) => Seen(r))
        /\ Queued(s) => Queued(r)

LEMMA MovesActs ==
    ASSUME NEW s, NEW r, Moves(s, r), NEW i
    PROVE  Acts(i, s, r)
BY DEF Moves, Acts

\* Each instruction has its operator.
Performed(i, s, r) ==
    /\ i = "mask"      => r \in StoreMiMask(s)
    /\ i = "pi"        => r \in StorePiLength(s)
    /\ i = "si"        => r \in StartSi(s)
    /\ i = "sinow"     => r \in StartSiNow(s)
    /\ i = "ai"        => r \in StoreAiLength(s)
    /\ i \in {"cleardp", "pistatus", "sistatus", "aistatus", "vicurrent", "dpcend",
              "signalsp"} => \E d \in Devices : r = ClearRcp(s, d) \/ r = SignalRcp(s, d)
    /\ i = "haltsp"    => r \in HaltSp(s)
    /\ i = "breaksp"   => r \in BreakSp(s)
    /\ i = "startsp"   => r \in StartSp(s)
    /\ i = "freeze"    => r \in Freeze(s)
    /\ i = "unfreeze"  => r \in Unfreeze(s)
    /\ i = "count"     => r \in StoreCount(s)
    /\ i = "compare"   => r \in StoreCompare(s)
    /\ i = "status"    => r \in StoreStatus(s)
    /\ i = "cause"     => r \in StoreCause(s)
    /\ i = "syscall"   => r \in Syscall(s)
    /\ i = "eret"      => r \in Eret(s)

LEMMA EffectOutcomes ==
    ASSUME NEW s, NEW i, NEW r \in Effect(i, s)
    PROVE  Performed(i, s, r)
<1>1. /\ i = "mask"   => r \in StoreMiMask(s)
      /\ i = "pi"     => r \in StorePiLength(s)
      /\ i = "si"     => r \in StartSi(s)
      /\ i = "sinow"  => r \in StartSiNow(s)
      /\ i = "ai"     => r \in StoreAiLength(s)
  BY Zenon DEF Effect
<1>2. /\ i = "cleardp"   => r \in ClearDp(s)
      /\ i = "pistatus"  => r \in StorePiStatus(s)
      /\ i = "sistatus"  => r \in StoreSiStatus(s)
      /\ i = "aistatus"  => r \in StoreAiStatus(s)
      /\ i = "vicurrent" => r \in StoreViCurrent(s)
      /\ i = "dpcend"    => r \in StoreDpcEnd(s)
      /\ i = "signalsp"  => r \in SignalSp(s)
  BY Zenon DEF Effect
<1>3. /\ i = "haltsp"   => r \in HaltSp(s)
      /\ i = "breaksp"  => r \in BreakSp(s)
      /\ i = "startsp"  => r \in StartSp(s)
      /\ i = "freeze"   => r \in Freeze(s)
      /\ i = "unfreeze" => r \in Unfreeze(s)
  BY Zenon DEF Effect
<1>4. /\ i = "count"   => r \in StoreCount(s)
      /\ i = "compare" => r \in StoreCompare(s)
      /\ i = "status"  => r \in StoreStatus(s)
      /\ i = "cause"   => r \in StoreCause(s)
      /\ i = "syscall" => r \in Syscall(s)
      /\ i = "eret"    => r \in Eret(s)
  BY Zenon DEF Effect
<1>5. i \in {"cleardp", "pistatus", "sistatus", "aistatus", "vicurrent", "dpcend",
            "signalsp"} => \E d \in Devices : r = ClearRcp(s, d) \/ r = SignalRcp(s, d)
  BY <1>2 DEF ClearDp, StorePiStatus, StoreSiStatus, StoreAiStatus, StoreViCurrent,
     StoreDpcEnd, SignalSp, Devices
<1> QED
  BY <1>1, <1>3, <1>4, <1>5 DEF Performed

LEMMA EffectActs ==
    ASSUME NEW s, Steady(s), NEW i, NEW r \in Effect(i, s),
           i \in {"mask", "cleardp", "pi", "pistatus", "si", "sinow", "sistatus",
                  "ai", "aistatus", "vicurrent", "dpcend", "haltsp", "breaksp",
                  "signalsp", "startsp", "freeze", "unfreeze", "compare",
                  "status", "cause", "syscall", "eret"}
             \/ (i = "count" /\ Len(s.queue) < Capacity)
    PROVE  Acts(i, s, r)
<1>1. Performed(i, s, r)
  BY EffectOutcomes
<1>5. i \in {"mask", "pi", "si", "sinow", "ai"} => Moves(s, r)
  BY <1>1, MaskMoves, PiMoves, SiMoves, AiMoves DEF Performed
<1>6. i \in {"cleardp", "pistatus", "sistatus", "aistatus", "vicurrent", "dpcend",
            "signalsp"} => Moves(s, r)
  BY <1>1, SignalMoves DEF Performed
<1>7. i \in {"haltsp", "breaksp", "startsp", "freeze", "unfreeze"} => Moves(s, r)
  BY <1>1, FlagsMove, BreakMoves, StartSpMoves DEF Performed
<1>8. i \in {"status", "eret", "syscall"} => Moves(s, r)
  BY <1>1, StatusMoves, EretMoves, SyscallMoves DEF Performed
<1>9. i = "compare" => Acts(i, s, r)
  BY <1>1, CompareMoves DEF Acts, Performed
<1>10. i = "count" => Acts(i, s, r)
  BY <1>1, CountMoves DEF Acts, Performed
<1>11. i = "cause" => Acts(i, s, r)
  BY <1>1, CauseMoves DEF Acts, Performed
<1> QED
  BY <1>5, <1>6, <1>7, <1>8, <1>9, <1>10, <1>11, MovesActs

LEMMA EndJumpStep ==
    ASSUME NEW s, Steady(s), NEW r \in EndJump(s)
    PROVE  Keeps(s, r)
<1> DEFINE c == UpdateCount(s)
           u == [c EXCEPT !.slot = FALSE]
<1>1. r \in GenIfDue(u, FALSE)
  BY DEF EndJump
<1>2. Keeps(s, c) /\ c \in Machine /\ Typed(c)
  BY SteadyFacts, UpdateCountTouches, CalmKeeps DEF Keeps
<1> HIDE DEF c
<1>3. u \in Machine
  BY <1>2 DEF Machine
<1>4. Alike(c, u) /\ u.running = c.running /\ u.task = c.task
  BY <1>2 DEF Machine, Alike
<1> HIDE DEF u
<1>5. Keeps(c, u)
  BY <1>2, <1>3, <1>4, AlikeKeeps DEF Keeps, Typed
<1>6. Keeps(u, r)
  BY <1>1, <1>5, GenStep DEF Keeps, Step
<1> QED
  BY <1>2, <1>5, <1>6 DEF Keeps

LEMMA IdleStep ==
    ASSUME NEW s, Steady(s), NEW r \in Idle(s)
    PROVE  Keeps(s, r)
<1> DEFINE c == UpdateCount(s)
           skip == Diff(c.next, c.count)
           n == (c.count + skip - (skip % 4)) % Modulus
           u == [c EXCEPT !.count = n]
<1>1. r = u \/ r \in EndJump(c)
  <2>1. Idle(s) = {u} \/ Idle(s) = EndJump(c)
    BY Zenon DEF Idle
  <2> HIDE DEF u, c
  <2> QED
    BY <2>1
<1>2. Keeps(s, c) /\ c \in Machine /\ Typed(c) /\ c.next \in Words /\ c.count \in Words
  <2>1. Keeps(s, c) /\ c \in Machine /\ Typed(c)
    BY SteadyFacts, UpdateCountTouches, CalmKeeps DEF Keeps
  <2> HIDE DEF c
  <2> QED
    BY <2>1 DEF Machine
<1> HIDE DEF c
<1>3. n \in Words
  <2>1. c.next \in Int /\ c.count \in Int
    BY <1>2, Constants
  <2>2. c.next - c.count \in Int
    BY <2>1
  <2>3. skip \in Int
    BY <2>2, Constants DEF Diff
  <2> HIDE DEF skip
  <2>4. c.count + skip - (skip % 4) \in Int
    BY <2>1, <2>3
  <2> QED
    BY <2>4, Constants
<1> HIDE DEF n
<1>4. u \in Machine
  BY <1>2, <1>3 DEF Machine
<1>5. Alike(c, u) /\ u.running = c.running /\ u.task = c.task
  BY <1>2 DEF Machine, Alike
<1> HIDE DEF u
<1>6. Keeps(c, u)
  BY <1>2, <1>4, <1>5, AlikeKeeps DEF Keeps, Typed
<1>7. r \in EndJump(c) => Keeps(c, r)
  BY <1>2, EndJumpStep DEF Keeps
<1> QED
  BY <1>1, <1>2, <1>6, <1>7 DEF Keeps

LEMMA SoftResetStep ==
    ASSUME NEW s, Steady(s), NEW r \in ResetSoftRequested(s)
    PROVE  Keeps(s, r)
<1> DEFINE a == AddEvent(s, "HW2", 0)
<1>1. r = AddEvent(a, "NMI", ResetDelay)
  BY DEF ResetSoftRequested
<1>2. 0 \in Words /\ ResetDelay \in Words /\ "HW2" \in Types /\ "NMI" \in Types
  BY Constants, ChoicesAssumption DEF Types
<1>3. Keeps(s, a)
  BY <1>2, AddEventMoves
<1> HIDE DEF a
<1>4. Keeps(a, r)
  BY <1>1, <1>2, <1>3, AddEventMoves DEF Keeps
<1> QED
  BY <1>3, <1>4 DEF Keeps

LEMMA LagKeeps ==
    ASSUME NEW s, Steady(s), NEW d \in Words
    PROVE  /\ Keeps(s, [s EXCEPT !.lag = d])
           /\ Keeps(s, [s EXCEPT !.lag = d, !.slot = TRUE])
           /\ [s EXCEPT !.lag = d].queue = s.queue
           /\ [s EXCEPT !.lag = d, !.slot = TRUE].queue = s.queue
<1> DEFINE u == [s EXCEPT !.lag = d]
           v == [s EXCEPT !.lag = d, !.slot = TRUE]
<1>1. s \in Machine
  BY SteadyFacts
<1>2. u \in Machine /\ v \in Machine
  BY <1>1 DEF Machine
<1>3. Alike(s, u) /\ u.running = s.running /\ u.task = s.task
  BY <1>1 DEF Machine, Alike
<1>4. Alike(s, v) /\ v.running = s.running /\ v.task = s.task
  BY <1>1 DEF Machine, Alike
<1> HIDE DEF u, v
<1>5. Typed(u) /\ Typed(v)
  BY <1>2, <1>3, <1>4, SteadyFacts DEF Typed
<1>6. Keeps(s, u) /\ Keeps(s, v) /\ u.queue = s.queue /\ v.queue = s.queue
  BY <1>3, <1>4, <1>5, AlikeKeeps DEF Alike
<1> QED
  BY <1>6 DEF u, v

-----------------------------------------------------------------------------
(* 5. The theorems.                                                        *)

\* The pool of the queue's nodes has one to spare.  CHECK_INTs may fill it:
\* each register write with an interrupt pending queues another, and one that
\* Count has wrapped past is not dispatched before the next wrap.
PoolHasRoom == Len(m.queue) < Capacity

\* MTC0 Count takes the marker out and needs a node to put it back.
MarkerFits == "count" \in program => PoolHasRoom

IndInv ==
    /\ line \in 0 .. MaxLine /\ rare \in 0 .. MaxRare
    /\ lapsed \in BOOLEAN /\ erased \in BOOLEAN /\ program \in Programs
    /\ Steady(m)
    /\ ~ Rewritten => Headed(m)

\* What a step of this program, one that writes Cause or not, may make of the
\* machine.
Good(writes, r) ==
    /\ Steady(r)
    /\ ~ Rewritten /\ Headed(m) => Headed(r)
    /\ PoolHasRoom =>
        /\ Busy(m) => Busy(r)
        /\ ~ writes => (Seen(m) => Seen(r))
        /\ Queued(m) => Queued(r)

\* A step, as far as the properties are concerned.
Changes == \E writes \in BOOLEAN : \E r : Good(writes, r) /\ Becomes(r) /\ Erases(writes)
Advance ==
    /\ Changes
    /\ line' \in 0 .. MaxLine /\ rare' \in 0 .. MaxRare

LEMMA KeepsIsGood ==
    ASSUME NEW r, Keeps(m, r)
    PROVE  Good(FALSE, r)
BY DEF Keeps, Good

Executed ==
    {"mask", "cleardp", "pi", "pistatus", "si", "sinow", "sistatus", "ai",
     "aistatus", "vicurrent", "dpcend", "haltsp", "breaksp", "signalsp",
     "startsp", "freeze", "unfreeze", "compare", "status", "cause",
     "syscall", "eret"}

LEMMA ActsIsGood ==
    ASSUME Steady(m), NEW i \in program, i \in Executed \/ (i = "count" /\ PoolHasRoom),
           NEW u, Keeps(m, u), u.queue = m.queue,
           NEW s \in Effect(i, u), NEW r, Keeps(s, r)
    PROVE  Good(i = "cause", r)
<1>1. Acts(i, u, s)
  BY EffectActs DEF Keeps, Executed, PoolHasRoom
<1>2. ~ Rewritten => i \notin {"compare", "count"}
  BY DEF Rewritten
<1>3. Steady(r)
  BY DEF Keeps
<1>4. ~ Rewritten /\ Headed(m) => Headed(r)
  BY <1>1, <1>2 DEF Acts, Keeps
<1>5. PoolHasRoom =>
        /\ Busy(m) => Busy(r)
        /\ i # "cause" => (Seen(m) => Seen(r))
        /\ Queued(m) => Queued(r)
  BY <1>1 DEF Acts, Keeps, PoolHasRoom
<1> QED
  BY <1>3, <1>4, <1>5 DEF Good

LEMMA LinesAndLags ==
    /\ \A d \in Lags : d \in Words
    /\ MaxLine \in Nat /\ MaxRare \in Nat /\ 0 \in Words
BY ChoicesAssumption, WidthAssumption, Constants

LEMMA ExecuteGood ==
    ASSUME Steady(m), line \in 0 .. MaxLine, NEW i,
           i \in Executed \/ (i = "count" /\ PoolHasRoom), Execute(i)
    PROVE  /\ Changes
           /\ line' \in 0 .. MaxLine
<1>1. PICK d \in Lags : \E s \in Effect(i, [m EXCEPT !.lag = d]) : Becomes([s EXCEPT !.lag = 0])
  BY DEF Execute
<1> DEFINE u == [m EXCEPT !.lag = d]
<1>2. PICK s \in Effect(i, u) : Becomes([s EXCEPT !.lag = 0])
  BY <1>1
<1>3. Keeps(m, u) /\ u.queue = m.queue
  BY LinesAndLags, LagKeeps
<1> HIDE DEF u
<1>4. i \in program /\ line < MaxLine /\ line' = line + 1
  BY DEF Execute
<1>5. Acts(i, u, s)
  BY <1>3, EffectActs DEF Keeps, Executed, PoolHasRoom
<1>6. Keeps(s, [s EXCEPT !.lag = 0])
  BY <1>5, LinesAndLags, LagKeeps DEF Acts
<1>7. Good(i = "cause", [s EXCEPT !.lag = 0])
  BY <1>3, <1>4, <1>6, ActsIsGood
<1>8. line' \in 0 .. MaxLine
  BY <1>4, LinesAndLags
<1>9. Erases(i = "cause") /\ (i = "cause") \in BOOLEAN
  BY DEF Execute
<1>10. Changes
  BY <1>2, <1>7, <1>9, Zenon DEF Changes
<1> QED
  BY <1>8, <1>10

LEMMA InSlotGood ==
    ASSUME Steady(m), NEW i, i \in Executed \/ (i = "count" /\ PoolHasRoom),
           InSlot(i)
    PROVE  /\ Changes
           /\ line' \in 0 .. MaxLine
<1>1. PICK d \in Lags : \E s \in Effect(i, [m EXCEPT !.lag = d, !.slot = TRUE]) :
                           \E e \in EndJump(s) : Becomes(e)
  BY DEF InSlot
<1> DEFINE u == [m EXCEPT !.lag = d, !.slot = TRUE]
<1>2. PICK s \in Effect(i, u) : \E e \in EndJump(s) : Becomes(e)
  BY <1>1
<1>3. Keeps(m, u) /\ u.queue = m.queue
  BY LinesAndLags, LagKeeps
<1> HIDE DEF u
<1>4. i \in program /\ line' = 0
  BY DEF InSlot
<1>5. PICK e \in EndJump(s) : Becomes(e)
  BY <1>2
<1>6. Acts(i, u, s)
  BY <1>3, EffectActs DEF Keeps, Executed, PoolHasRoom
<1>7. Keeps(s, e)
  BY <1>6, EndJumpStep DEF Acts
<1>8. Good(i = "cause", e)
  BY <1>3, <1>4, <1>7, ActsIsGood
<1>9. line' \in 0 .. MaxLine
  BY <1>4, LinesAndLags
<1>10. Erases(i = "cause") /\ (i = "cause") \in BOOLEAN
  BY DEF InSlot
<1>11. Changes
  BY <1>5, <1>8, <1>10, Zenon DEF Changes
<1> QED
  BY <1>9, <1>11

LEMMA NextAdvances ==
    ASSUME IndInv, MarkerFits, Next
    PROVE  Advance
<1>0. Steady(m) /\ line \in 0 .. MaxLine /\ rare \in 0 .. MaxRare
  BY DEF IndInv
<1>1. ASSUME Jump PROVE Advance
  <2>0. PICK d \in Lags : \E s \in EndJump([m EXCEPT !.lag = d]) : Becomes(s)
    BY <1>1 DEF Jump
  <2>1. PICK s \in EndJump([m EXCEPT !.lag = d]) : Becomes(s)
    BY <2>0
  <2>2. Keeps(m, [m EXCEPT !.lag = d])
    BY <1>0, LinesAndLags, LagKeeps
  <2>3. Keeps([m EXCEPT !.lag = d], s)
    BY <2>2, EndJumpStep DEF Keeps
  <2>4. Good(FALSE, s) /\ Erases(FALSE)
    BY <1>1, <2>2, <2>3, KeepsIsGood DEF Keeps, Jump
  <2>5. line' \in 0 .. MaxLine /\ rare' \in 0 .. MaxRare
    BY <1>0, <1>1, LinesAndLags DEF Jump
  <2> QED
    BY <2>1, <2>4, <2>5 DEF Advance, Changes
<1>2. ASSUME IdleJump PROVE Advance
  <2>0. PICK d \in Lags : \E s \in Idle([m EXCEPT !.lag = d]) : Becomes(s)
    BY <1>2 DEF IdleJump
  <2>1. PICK s \in Idle([m EXCEPT !.lag = d]) : Becomes(s)
    BY <2>0
  <2>2. Keeps(m, [m EXCEPT !.lag = d])
    BY <1>0, LinesAndLags, LagKeeps
  <2>3. Keeps([m EXCEPT !.lag = d], s)
    BY <2>2, IdleStep DEF Keeps
  <2>4. Good(FALSE, s) /\ Erases(FALSE)
    BY <1>2, <2>2, <2>3, KeepsIsGood DEF Keeps, IdleJump
  <2>5. line' \in 0 .. MaxLine /\ rare' \in 0 .. MaxRare
    BY <1>0, <1>2, LinesAndLags DEF IdleJump
  <2> QED
    BY <2>1, <2>4, <2>5 DEF Advance, Changes
<1>3. ASSUME WriteCount PROVE Advance
  <2>1. (Execute("count") \/ InSlot("count")) /\ rare < MaxRare /\ rare' = rare + 1
    BY <1>3 DEF WriteCount
  <2>2. PoolHasRoom
    BY <2>1 DEF Execute, InSlot, MarkerFits
  <2>3. rare' \in 0 .. MaxRare
    BY <2>1, <1>0, LinesAndLags
  <2> QED
    BY <2>1, <2>2, <2>3, <1>0, ExecuteGood, InSlotGood DEF Advance
<1>4. ASSUME Request PROVE Advance
  <2>1. PICK s \in ResetSoftRequested(m) \cup ResetHardRequested(m) : Becomes(s)
    BY <1>4 DEF Request
  <2>2. Good(FALSE, s)
    <3>1. s \in ResetSoftRequested(m) => Good(FALSE, s)
      BY <1>0, SoftResetStep, KeepsIsGood
    <3>2. s \in ResetHardRequested(m) => Good(FALSE, s)
      BY <1>0, FlagsMove DEF Moves, Good, PoolHasRoom
    <3> QED
      BY <3>1, <3>2
  <2>3. line' \in 0 .. MaxLine /\ rare' \in 0 .. MaxRare
    BY <1>0, <1>4, LinesAndLags DEF Request
  <2>4. Erases(FALSE)
    BY <1>4 DEF Request
  <2> QED
    BY <2>1, <2>2, <2>3, <2>4 DEF Advance, Changes
<1>5. ASSUME NEW i \in Executed, Execute(i) \/ InSlot(i), UNCHANGED rare PROVE Advance
  <2>1. Changes /\ line' \in 0 .. MaxLine
    BY <1>0, <1>5, ExecuteGood, InSlotGood
  <2> QED
    BY <2>1, <1>0, <1>5 DEF Advance
<1>6. \/ Jump \/ IdleJump \/ WriteCount \/ Request
      \/ \E i \in Executed : (Execute(i) \/ InSlot(i)) /\ UNCHANGED rare
  BY DEF Next, Executed, Instruction, ReturnFromException
<1> QED
  BY <1>1, <1>2, <1>3, <1>4, <1>5, <1>6

\* The machine that was just switched on.
LEMMA PowerOnFacts == Fresh(PowerOn) /\ PowerOn.next <= PowerOn.count
<1> DEFINE s == [count |-> 0, lag |-> 0, compare |-> 0, queue |-> <<>>,
               next |-> 0, done |-> TRUE, ie |-> FALSE, exl |-> FALSE,
               epc |-> "none", im |-> {}, cause |-> {}, intr |-> {},
               mask |-> {}, slot |-> FALSE, skip |-> FALSE, pi |-> FALSE,
               ai |-> 0, vi |-> 0, running |-> FALSE, onbreak |-> FALSE,
               task |-> "other", frozen |-> FALSE, deferred |-> FALSE,
               job |-> FALSE]
<1>1. PowerOn = ResetHard(s)
  BY Zenon DEF PowerOn
<1>2. s \in Machine /\ s.next = 0 /\ s.running = FALSE
  BY Constants DEF Machine
<1> HIDE DEF s
<1>3. Typed(s)
  BY <1>2 DEF Typed
<1>4. Fresh(PowerOn) /\ PowerOn.count = BootCount /\ PowerOn.next \in {0, FirstVi}
  BY <1>1, <1>2, <1>3, ResetHardFacts
<1>5. FirstVi <= BootCount /\ 0 <= BootCount
  BY WidthAssumption DEF Words
<1> QED
  BY <1>4, <1>5

LEMMA InitIndInv == Init => IndInv
<1> SUFFICES ASSUME Init PROVE IndInv
  OBVIOUS
<1>1. /\ m = PowerOn /\ line = 0 /\ rare = 0 /\ program \in Programs
      /\ lapsed \in BOOLEAN /\ erased \in BOOLEAN
  BY DEF Init
<1>2. Steady(m) /\ Headed(m)
  BY <1>1, PowerOnFacts DEF Fresh
<1>3. line \in 0 .. MaxLine /\ rare \in 0 .. MaxRare
  BY <1>1, LinesAndLags
<1> QED
  BY <1>1, <1>2, <1>3 DEF IndInv

LEMMA NextIndInv == IndInv /\ MarkerFits /\ [Next]_vars => IndInv'
<1> SUFFICES ASSUME IndInv, MarkerFits, [Next]_vars PROVE IndInv'
  OBVIOUS
<1>1. CASE UNCHANGED vars
  BY <1>1 DEF IndInv, vars, Rewritten
<1>2. CASE Next
  <2>1. Advance
    BY <1>2, NextAdvances
  <2>1a. PICK w \in BOOLEAN : \E r : Good(w, r) /\ Becomes(r) /\ Erases(w)
    BY <2>1 DEF Advance, Changes
  <2>2. PICK r : Good(w, r) /\ Becomes(r) /\ Erases(w)
    BY <2>1a
  <2>3. /\ m' = r /\ program' = program
        /\ lapsed' \in BOOLEAN /\ erased' \in BOOLEAN
    BY <2>2, Zenon DEF Becomes, Erases
  <2>4. Rewritten' <=> Rewritten
    BY <2>3 DEF Rewritten
  <2>5. Steady(m)' /\ (~ Rewritten' => Headed(m)')
    BY <2>2, <2>3, <2>4 DEF Good, IndInv
  <2> QED
    BY <2>1, <2>3, <2>5 DEF Advance, IndInv
<1> QED
  BY <1>1, <1>2

\* Whatever the program does, the machine stays a machine and its queue within
\* the pool: no handler leaves a field half written, and an event that finds no
\* node is dropped, not queued beyond the pool.
THEOREM TypeCorrect ==
    Spec /\ []MarkerFits => [](TypeOK /\ Len(m.queue) <= Capacity)
<1>1. IndInv => TypeOK /\ Len(m.queue) <= Capacity
  BY DEF IndInv, TypeOK, Steady, Fits, Typed
<1> QED
  BY <1>1, InitIndInv, NextIndInv, PTL DEF Spec

\* The marker of Count's wrap is in the queue exactly once, whatever the
\* handlers, the resets and MTC0 Count do to it.
THEOREM MarkerIsKept == Spec /\ []MarkerFits => []OneSpecial
<1>1. IndInv => OneSpecial
  BY DEF IndInv, Steady, OneMarker, OneSpecial, Positions
<1> QED
  BY <1>1, InitIndInv, NextIndInv, PTL DEF Spec

\* A busy device has its event, and the next vertical interrupt is queued, as
\* long as the pool does not fill up.
THEOREM BusyDevicesEnd == Spec /\ []PoolHasRoom => []BusyHasEvent
<1> DEFINE Inv == IndInv /\ Busy(m)
<1>1. Init => Inv
  BY InitIndInv, PowerOnFacts DEF Init, Fresh
<1>2. Inv /\ PoolHasRoom /\ [Next]_vars => Inv'
  <2> SUFFICES ASSUME Inv, PoolHasRoom, [Next]_vars PROVE Inv'
    OBVIOUS
  <2>1. MarkerFits
    BY DEF MarkerFits
  <2>2. CASE UNCHANGED vars
    BY <2>1, <2>2, NextIndInv DEF vars
  <2>3. CASE Next
    <3>1a. PICK w \in BOOLEAN : \E r : Good(w, r) /\ Becomes(r)
      BY <2>1, <2>3, NextAdvances DEF Advance, Changes
    <3>1. PICK r : Good(w, r) /\ Becomes(r)
      BY <3>1a
    <3> QED
      BY <2>1, <3>1, NextIndInv DEF Good, Becomes
  <2> QED
    BY <2>2, <2>3
<1>3. Inv => BusyHasEvent
  BY PositionsOfKind DEF Busy, BusyHasEvent
<1> QED
  BY <1>1, <1>2, <1>3, PTL DEF Spec

\* No way of enabling, unmasking or raising an interrupt forgets it, as long
\* as the pool does not fill up: a CPU that takes interrupts has a CHECK_INT
\* queued for every pending one, and sees those of the RCP in Cause unless
\* MTC0 Cause has hidden them.
THEOREM PendingIsNoticed == Spec /\ []PoolHasRoom => []PendingIsChecked
<1> DEFINE Inv == IndInv /\ (Hidden(m) => erased) /\ Queued(m)
<1>1. Init => Inv
  BY InitIndInv, PowerOnFacts DEF Init, Fresh, Seen, Hidden
<1>2. Inv /\ PoolHasRoom /\ [Next]_vars => Inv'
  <2> SUFFICES ASSUME Inv, PoolHasRoom, [Next]_vars PROVE Inv'
    OBVIOUS
  <2>1. MarkerFits
    BY DEF MarkerFits
  <2>2. CASE UNCHANGED vars
    BY <2>1, <2>2, NextIndInv DEF vars
  <2>3. CASE Next
    <3>1a. PICK w \in BOOLEAN : \E r : Good(w, r) /\ Becomes(r) /\ Erases(w)
      BY <2>1, <2>3, NextAdvances DEF Advance, Changes
    <3>1. PICK r : Good(w, r) /\ Becomes(r) /\ Erases(w)
      BY <3>1a
    <3>2. m' = r /\ (erased' <=> Hidden(m)' /\ (erased \/ w))
      BY <3>1 DEF Becomes, Erases
    <3>3. Hidden(m)' => Hidden(r)
      BY <3>2
    <3>4. Queued(r) /\ (Hidden(m)' => erased')
      <4>1. ~ Hidden(m) => Seen(m)
        BY DEF Seen, Hidden
      <4>2. Hidden(r) => ~ Seen(r)
        BY DEF Seen, Hidden
      <4> QED
        BY <3>1, <3>2, <3>3, <4>1, <4>2 DEF Good
    <3> QED
      BY <2>1, <3>2, <3>4, NextIndInv
  <2> QED
    BY <2>2, <2>3
<1>3. Inv => PendingIsChecked
  BY PositionsOfKind DEF Queued, PendingIsChecked
<1> QED
  BY <1>1, <1>2, <1>3, PTL DEF Spec

LEMMA ProgramStays == [Next]_vars => program' = program
<1>1. \A i : Execute(i) \/ InSlot(i) => program' = program
  BY DEF Execute, InSlot, Becomes
<1>2. Next => program' = program
  BY <1>1 DEF Next, Jump, IdleJump, WriteCount, Request, Instruction,
     ReturnFromException, Becomes
<1> QED
  BY <1>2 DEF vars

\* The next jump dispatches the head once it is due: next_interupt is 0 or the
\* head's Count whatever was queued, dispatched or reset, unless Count wrapped
\* past the head or Compare or Count was written.
THEOREM HeadIsDispatched == Spec => []DueIsSeen
<1> DEFINE Inv == Rewritten \/ (IndInv /\ DueIsSeen)
<1>1. Init => Inv
  BY InitIndInv, PowerOnFacts DEF Init, DueIsSeen
<1>2. Inv /\ [Next]_vars => Inv'
  <2> SUFFICES ASSUME IndInv, DueIsSeen, ~ Rewritten, [Next]_vars
               PROVE  IndInv' /\ DueIsSeen'
    BY ProgramStays DEF Rewritten
  <2>1. IndInv' /\ MarkerFits
    BY NextIndInv DEF MarkerFits, Rewritten
  <2>2. CASE UNCHANGED vars
    BY <2>1, <2>2 DEF vars, DueIsSeen, Rewritten
  <2>3. CASE Next
    <3>1. PICK r : Becomes(r)
      BY <2>1, <2>3, NextAdvances DEF Advance, Changes
    <3>2. lapsed' \/ ~ PassedOver(m)'
      BY <3>1 DEF Becomes
    <3>3. ASSUME ~ lapsed', ~ Rewritten', Due(m, FirstEvent(m))'
          PROVE  (m.next <= m.count)'
      <4>1. ~ (FirstEvent(m).count > m.count)'
        BY <3>2, <3>3 DEF PassedOver
      <4>2. Steady(m)' /\ Headed(m)'
        BY <2>1, <3>3 DEF IndInv
      <4>3. (m.count \in Words /\ FirstEvent(m).count \in Words)'
        BY <4>2, SteadyFacts, QueueOf DEF FirstEvent
      <4> QED
        BY <4>1, <4>2, <4>3, Constants DEF Headed, FirstEvent, Words
    <3> QED
      BY <2>1, <3>3 DEF DueIsSeen
  <2> QED
    BY <2>2, <2>3
<1>3. Inv => DueIsSeen
  BY DEF DueIsSeen
<1> QED
  BY <1>1, <1>2, <1>3, PTL DEF Spec

-----------------------------------------------------------------------------
(* 6. Nothing is early.                                                    *)

\* Count's range, and the difference of two values of Count.
LEMMA Counting ==
    /\ Modulus \in Nat /\ Half \in Nat /\ Near \in Nat
    /\ 0 < Near /\ Near < Half /\ Modulus = 2 * Half
    /\ BootCount \in Words /\ FirstVi \in Words /\ BootCount < Near
    /\ \A x \in Words : x \in Int /\ 0 <= x /\ x < Modulus
BY WidthAssumption DEF Words

\* A number less than a range away from the range is brought back into it.
LEMMA Wrapping ==
    ASSUME NEW n \in Nat, 0 < n, NEW x \in Int, -n <= x, x < 2 * n
    PROVE  x % n = IF x < 0 THEN x + n ELSE IF x < n THEN x ELSE x - n
OBVIOUS

LEMMA Differences ==
    ASSUME NEW a \in Words, NEW b \in Words
    PROVE  /\ Diff(a, b) \in Int
           /\ Diff(a, b) = IF a < b THEN a - b + Modulus ELSE a - b
           /\ (a + b) % Modulus = IF a + b < Modulus THEN a + b ELSE a + b - Modulus
<1>1. a \in Int /\ b \in Int /\ 0 <= a /\ 0 <= b /\ a < Modulus /\ b < Modulus
      /\ Modulus \in Nat /\ 0 < Modulus
  BY Counting
<1>2. /\ a - b \in Int /\ -Modulus <= a - b /\ a - b < 2 * Modulus /\ a - b < Modulus
      /\ a + b \in Int /\ -Modulus <= a + b /\ a + b < 2 * Modulus /\ 0 <= a + b
  BY <1>1
<1>3. (a - b) % Modulus = IF a - b < 0 THEN a - b + Modulus ELSE a - b
  BY <1>1, <1>2, Wrapping
<1>4. (a + b) % Modulus = IF a + b < Modulus THEN a + b ELSE a + b - Modulus
  BY <1>1, <1>2, Wrapping
<1> QED
  BY <1>1, <1>3, <1>4 DEF Diff


\* The events before the marker: those due before Count wraps around.
Front(q) == {i \in DOMAIN q : \A j \in 1 .. i : q[j].type # "SPECIAL"}

\* An event at x, seen at Count c with l cycles still to be added: ahead
\* without a wrap, or so recently due that the code can still tell.
Fitting(c, l, x) ==
    x > c \/ (Diff(c, x) < Half /\ (Diff(c, x) + l < Near \/ (l = 0 /\ c <= Near)))

Timely(s) ==
    s.lag < Near /\ \A i \in Front(s.queue) : Fitting(s.count, s.lag, s.queue[i].count)
\* next_interupt is the head's Count, or the 0 with which an exception in a
\* delay slot makes the jump's end look at the queue.
Aimed(s) == s.next = s.queue[1].count \/ (s.slot /\ s.skip /\ s.next = 0)
Plain(q) ==
    \A i \in DOMAIN q :
        q[i].type # "COMPARE" /\ (q[i].type = "SPECIAL" => q[i].count = 0)
Well(s) == Steady(s) /\ Timely(s) /\ Aimed(s) /\ Plain(s.queue)

\* A call returns a machine that is well again.
Carried(s, r) ==
    /\ Well(r)
    /\ s.lag = 0 => r.lag = 0
    /\ ~ s.slot => ~ r.slot

LEMMA CarriedOn ==
    ASSUME NEW s, NEW u, Carried(s, u), NEW r, Carried(u, r)
    PROVE  Carried(s, r)
BY DEF Carried

LEMMA CarriedItself ==
    ASSUME NEW s, Well(s)
    PROVE  Carried(s, s)
BY DEF Carried

\* Soon after the wrap every event is ahead or can be told to be due.
LEMMA SmallFits ==
    ASSUME NEW c \in Words, c <= Near, NEW x \in Words
    PROVE  Fitting(c, 0, x)
<1>1. /\ c \in Int /\ x \in Int /\ 0 <= x /\ Near < Half /\ Near \in Int /\ Half \in Int
      /\ Diff(c, x) = IF c < x THEN c - x + Modulus ELSE c - x
  BY Counting, Differences
<1>2. CASE c < x
  BY <1>1, <1>2 DEF Fitting
<1>3. CASE ~ c < x
  <2>1. Diff(c, x) < Half
    BY <1>1, <1>3
  <2> QED
    BY <2>1 DEF Fitting
<1> QED
  BY <1>2, <1>3

\* update_count: less than Near cycles bring no event from ahead to lost.
LEMMA LaterFits ==
    ASSUME NEW c \in Words, NEW l \in Words, NEW x \in Words, l < Near, Fitting(c, l, x)
    PROVE  Fitting((c + l) % Modulus, 0, x)
<1> DEFINE n == (c + l) % Modulus
<1>1. /\ c \in Int /\ x \in Int /\ l \in Int /\ 0 <= x /\ 0 <= l /\ 0 <= c
      /\ c < Modulus /\ x < Modulus /\ 0 < Near
      /\ Near < Half /\ Near \in Int /\ Half \in Int /\ Modulus = 2 * Half
      /\ Diff(c, x) = IF c < x THEN c - x + Modulus ELSE c - x
      /\ n = IF c + l < Modulus THEN c + l ELSE c + l - Modulus
  BY Counting, Differences
<1>2. n \in Words
  BY <1>1, Constants
<1>3. n \in Int /\ Diff(n, x) = IF n < x THEN n - x + Modulus ELSE n - x
  BY <1>2, Counting, Differences
<1> HIDE DEF n
<1>4. CASE n <= Near
  BY <1>2, <1>4, SmallFits DEF n
<1>5. CASE n > Near
  <2>1. n = c + l
    BY <1>1, <1>3, <1>5
  <2>2. CASE n < x
    BY <2>2, <1>1, <1>3 DEF Fitting, n
  <2>3. CASE ~ n < x
    <3>1. Diff(n, x) = c + l - x
      BY <2>1, <2>3, <1>1, <1>3
    <3>2. c + l - x < Near
      <4>1. CASE x > c
        BY <4>1, <1>1
      <4>2. CASE ~ x > c
        <5>1. Diff(c, x) = c - x /\ (Diff(c, x) + l < Near \/ (l = 0 /\ c <= Near))
          BY <4>2, <1>1 DEF Fitting
        <5>2. ~ (l = 0 /\ c <= Near)
          BY <2>1, <1>5, <1>1
        <5> QED
          BY <5>1, <5>2, <1>1
      <4> QED
        BY <4>1, <4>2
    <3>3. Diff(n, x) < Half /\ Diff(n, x) + 0 < Near
      BY <3>1, <3>2, <1>1
    <3> QED
      BY <3>3 DEF Fitting, n
  <2> QED
    BY <2>2, <2>3
<1> QED
  BY <1>1, <1>3, <1>4, <1>5

\* An event for a Count that is not behind, now or ahead before the wrap.
LEMMA AheadFits ==
    ASSUME NEW c \in Words, NEW l \in Words, l < Near, NEW x \in Words, c <= x
    PROVE  Fitting(c, l, x)
<1>1. /\ c \in Int /\ x \in Int /\ l \in Int /\ 0 < Near /\ Near < Half
      /\ Near \in Int /\ Half \in Int
      /\ Diff(c, x) = IF c < x THEN c - x + Modulus ELSE c - x
  BY Counting, Differences
<1>2. CASE c < x
  BY <1>1, <1>2 DEF Fitting
<1>3. CASE c = x
  <2>1. Diff(c, x) = 0
    BY <1>1, <1>3
  <2> QED
    BY <2>1, <1>1 DEF Fitting
<1> QED
  BY <1>1, <1>2, <1>3

\* next_interupt is recomputed as the head's Count.
LEMMA RecomputedHead ==
    ASSUME NEW s \in Machine, s.queue # <<>>, Plain(s.queue),
           s.queue[1].type # "SPECIAL" => Fitting(s.count, s.lag, s.queue[1].count)
    PROVE  Recomputed(s) = s.queue[1].count
<1>1. 1 \in DOMAIN s.queue
  BY QueueOf
<1>2. CASE s.queue[1].type = "SPECIAL"
  <2>1. s.queue[1].count = 0
    BY <1>1, <1>2 DEF Plain
  <2> QED
    BY <2>1 DEF Recomputed
<1>3. CASE s.queue[1].type # "SPECIAL"
  <2>1. s.queue[1].count > s.count \/ Diff(s.count, s.queue[1].count) < Half
    BY <1>3 DEF Fitting
  <2> QED
    BY <2>1 DEF Recomputed
<1> QED
  BY <1>2, <1>3

\* The front of a queue with one more event.
LEMMA InsertedFront ==
    ASSUME NEW q \in Seq(Events), NEW k \in 0 .. Len(q), NEW e \in Events,
           NEW p, p = Inserted(q, k, e), NEW i \in Front(p)
    PROVE  \/ \E j \in Front(q) : p[i] = q[j]
           \/ p[i] = e /\ e.type # "SPECIAL" /\ \A j \in 1 .. k : q[j].type # "SPECIAL"
<1>1. /\ DOMAIN p = 1 .. Len(q) + 1 /\ Len(q) \in Nat /\ DOMAIN q = 1 .. Len(q)
      /\ \A j \in 1 .. Len(q) + 1 :
           p[j] = IF j <= k THEN q[j] ELSE IF j = k + 1 THEN e ELSE q[j - 1]
  BY DEF Inserted
<1>2. /\ i \in Int /\ 1 <= i /\ i <= Len(q) + 1
      /\ \A j \in 1 .. i : j \in 1 .. Len(q) + 1 /\ p[j].type # "SPECIAL"
  BY <1>1 DEF Front
<1>3. CASE i <= k
  <2>1. \A j \in 1 .. i : q[j] = p[j]
    BY <1>1, <1>2, <1>3
  <2>2. i \in Front(q)
    BY <1>1, <1>2, <1>3, <2>1 DEF Front
  <2> QED
    BY <2>1, <2>2, <1>2
<1>4. CASE i = k + 1
  <2>1. p[i] = e
    BY <1>1, <1>2, <1>4
  <2>2. \A j \in 1 .. k : q[j] = p[j] /\ j \in 1 .. i
    BY <1>1, <1>2, <1>4
  <2>3. p[i].type # "SPECIAL"
    BY <1>2
  <2> QED
    BY <2>1, <2>2, <2>3, <1>2
<1>5. CASE i > k + 1
  <2>1. p[i] = q[i - 1] /\ i - 1 \in 1 .. Len(q)
    BY <1>1, <1>2, <1>5
  <2>2. ASSUME NEW j \in 1 .. (i - 1)
        PROVE  q[j].type # "SPECIAL"
    <3>1. CASE j <= k
      <4>1. q[j] = p[j] /\ j \in 1 .. i
        BY <1>1, <1>2, <3>1
      <4> QED
        BY <4>1, <1>2
    <3>2. CASE ~ j <= k
      <4>1. q[j] = p[j + 1] /\ j + 1 \in 1 .. i
        BY <1>1, <1>2, <1>5, <3>2
      <4> QED
        BY <4>1, <1>2
    <3> QED
      BY <3>1, <3>2
  <2>3. i - 1 \in Front(q)
    BY <2>1, <2>2, <1>1 DEF Front
  <2> QED
    BY <2>1, <2>3
<1> QED
  BY <1>2, <1>3, <1>4, <1>5

LEMMA InsertedPlain ==
    ASSUME NEW q \in Seq(Events), NEW k \in 0 .. Len(q), NEW e \in Events,
           Plain(q), e.type # "COMPARE", e.type = "SPECIAL" => e.count = 0
    PROVE  Plain(Inserted(q, k, e))
<1> DEFINE p == Inserted(q, k, e)
<1>1. /\ DOMAIN p = 1 .. Len(q) + 1 /\ Len(q) \in Nat /\ DOMAIN q = 1 .. Len(q)
      /\ \A j \in 1 .. Len(q) + 1 :
           p[j] = IF j <= k THEN q[j] ELSE IF j = k + 1 THEN e ELSE q[j - 1]
  BY DEF Inserted
<1> HIDE DEF p
<1>2. ASSUME NEW i \in DOMAIN p
      PROVE  p[i].type # "COMPARE" /\ (p[i].type = "SPECIAL" => p[i].count = 0)
  <2>1. p[i] = e \/ \E j \in DOMAIN q : p[i] = q[j]
    BY <1>1, SMTT(30)
  <2> QED
    BY <2>1 DEF Plain
<1> QED
  BY <1>2 DEF Plain, p

\* The rest of the queue, the head being taken out.
LEMMA RestFront ==
    ASSUME NEW q \in Seq(Events), q # <<>>, NEW p, p = Without(q, 1)
    PROVE  /\ Plain(q) => Plain(p)
           /\ q[1].type # "SPECIAL" => \A i \in Front(p) : i + 1 \in Front(q) /\ p[i] = q[i + 1]
<1>1. /\ DOMAIN p = 1 .. Len(q) - 1 /\ Len(q) \in Nat /\ DOMAIN q = 1 .. Len(q)
      /\ \A j \in 1 .. Len(q) - 1 : p[j] = q[j + 1]
  BY DEF Without
<1>2. ASSUME Plain(q), NEW i \in DOMAIN p
      PROVE  p[i].type # "COMPARE" /\ (p[i].type = "SPECIAL" => p[i].count = 0)
  <2>1. i + 1 \in DOMAIN q /\ p[i] = q[i + 1]
    BY <1>1
  <2> QED
    BY <2>1, <1>2 DEF Plain
<1>3. ASSUME q[1].type # "SPECIAL", NEW i \in Front(p)
      PROVE  i + 1 \in Front(q) /\ p[i] = q[i + 1]
  <2>1. /\ i \in 1 .. Len(q) - 1 /\ \A j \in 1 .. i : p[j].type # "SPECIAL"
    BY <1>1 DEF Front
  <2>2. ASSUME NEW j \in 1 .. (i + 1)
        PROVE  q[j].type # "SPECIAL"
    <3>1. CASE j = 1
      BY <3>1, <1>3
    <3>2. CASE j # 1
      <4>1. j - 1 \in 1 .. i /\ p[j - 1] = q[j]
        BY <3>2, <2>1, <1>1
      <4> QED
        BY <4>1, <2>1
    <3> QED
      BY <3>1, <3>2
  <2>3. i + 1 \in DOMAIN q
    BY <2>1, <1>1
  <2> QED
    BY <2>1, <2>2, <2>3, <1>1 DEF Front
<1> QED
  BY <1>2, <1>3 DEF Plain


\* add_interupt_event_count passes every event that is not behind the new one.
LEMMA PlaceBeyond ==
    ASSUME NEW s, s.queue \in Seq(Events), NEW t, NEW c, NEW k \in 1 .. Len(s.queue),
           \A j \in 1 .. k : ~ BeforeEvent(s, c, s.queue[j])
    PROVE  k <= Place(s, t, c)
<1> DEFINE n == Len(s.queue)
           B == {i \in 1 .. n : i = n \/ BeforeEvent(s, c, s.queue[i + 1])}
           behind == Least(B)
           E == {i \in behind .. n : i = n \/ s.queue[i + 1].count # c}
<1>0. n \in Nat /\ n # 0 /\ k \in 1 .. n /\ 1 \in 1 .. k
  OBVIOUS
<1>1. n \in B /\ B \in SUBSET Nat /\ B \subseteq 1 .. n
  BY <1>0
<1>2. \A i \in B : i = n \/ BeforeEvent(s, c, s.queue[i + 1])
  OBVIOUS
<1>3. Place(s, t, c) =
        IF n = 0 \/ t = "SPECIAL" THEN n
        ELSE IF BeforeEvent(s, c, s.queue[1]) THEN 0
        ELSE IF behind = n THEN n ELSE Least(E)
  BY Zenon DEF Place
<1> HIDE DEF B
<1>4. behind \in B
  BY <1>1, LeastIsLeast
<1> HIDE DEF behind, n
<1>5. behind \in 1 .. n /\ k <= behind
  <2>1. behind \in 1 .. n
    BY <1>1, <1>4
  <2>2. CASE behind = n
    BY <2>2, <1>0
  <2>3. CASE behind # n
    <3>1. BeforeEvent(s, c, s.queue[behind + 1])
      BY <2>3, <1>2, <1>4
    <3>2. behind + 1 \notin 1 .. k
      BY <3>1
    <3> QED
      BY <2>1, <3>2, <1>0
  <2> QED
    BY <2>1, <2>2, <2>3
<1>6. Least(E) \in behind .. n
  <2>1. n \in E /\ E \in SUBSET Nat /\ E \subseteq behind .. n
    BY <1>0, <1>5
  <2> HIDE DEF E
  <2> QED
    BY <2>1, LeastIsLeast
<1>7. ~ BeforeEvent(s, c, s.queue[1])
  BY <1>0
<1> HIDE DEF E
<1> QED
  BY <1>0, <1>3, <1>5, <1>6, <1>7

\* An event for a Count beyond the wrap is not before one of this side of it,
\* nor before the marker.
LEMMA BeyondTheWrap ==
    ASSUME NEW s, s.count \in Words, NEW l \in Words, NEW c \in Words, NEW e \in Events,
           c < s.count \/ Diff(c, s.count) >= Half,
           \/ e.type # "SPECIAL" /\ Fitting(s.count, l, e.count)
           \/ e.type = "SPECIAL" /\ e.count = 0
    PROVE  ~ BeforeEvent(s, c, e)
<1> DEFINE x == e.count
           n == s.count
<1>1. x \in Words /\ n \in Words
  BY DEF Events
<1>2. /\ c \in Int /\ x \in Int /\ n \in Int /\ l \in Int /\ 0 <= x /\ 0 <= n /\ 0 <= c
      /\ 0 <= l /\ c < Modulus /\ x < Modulus /\ n < Modulus
      /\ 0 < Near /\ Near < Half /\ Near \in Int /\ Half \in Int /\ Modulus = 2 * Half
  BY <1>1, Counting
<1>3. /\ Diff(c, n) = IF c < n THEN c - n + Modulus ELSE c - n
      /\ Diff(x, n) = IF x < n THEN x - n + Modulus ELSE x - n
      /\ Diff(n, x) = IF n < x THEN n - x + Modulus ELSE n - x
  BY <1>1, Differences
<1>4. BeforeEvent(s, c, e) <=>
        /\ Diff(c, n) < Half
        /\ IF Diff(x, n) < Half
           THEN Diff(c, n) < Diff(x, n)
           ELSE Diff(n, x) < Near => e.type = "SPECIAL" /\ s.done
  BY DEF BeforeEvent
<1>5. c < n \/ Diff(c, n) >= Half
  OBVIOUS
<1>6. \/ e.type # "SPECIAL" /\ Fitting(n, l, x)
      \/ e.type = "SPECIAL" /\ x = 0
  OBVIOUS
<1> HIDE DEF x, n
<1>7. CASE Diff(c, n) >= Half
  BY <1>2, <1>3, <1>4, <1>7
<1>8. CASE c < n /\ ~ Diff(c, n) >= Half
  <2>1. Diff(c, n) = c - n + Modulus /\ n > Half
    BY <1>2, <1>3, <1>8
  <2>2. CASE x > n \/ x = 0
    <3>1. Diff(x, n) < Half /\ ~ Diff(c, n) < Diff(x, n)
      BY <1>2, <1>3, <2>1, <2>2
    <3> QED
      BY <3>1, <1>4
  <2>3. CASE ~ (x > n \/ x = 0)
    <3>1. e.type # "SPECIAL" /\ Diff(n, x) = n - x /\ Diff(n, x) < Near
      BY <1>2, <1>3, <1>6, <2>1, <2>3 DEF Fitting
    <3>2. ~ Diff(c, n) < Diff(x, n) \/ ~ Diff(x, n) < Half
      BY <1>2, <1>3, <2>1, <2>3, <3>1
    <3> QED
      BY <3>1, <3>2, <1>4
  <2> QED
    BY <2>2, <2>3
<1> QED
  BY <1>5, <1>7, <1>8

\* What add_interupt_event_count makes of the queue.
Refused(s, r) == s.queue # <<>> /\ r.queue = s.queue /\ r.next = s.next
Placed(s, t, c, r) ==
    \E u, k : /\ u.queue = s.queue /\ u.count = s.count /\ k = Place(u, t, c)
              /\ k \in 0 .. Len(s.queue)
              /\ r.queue = Inserted(s.queue, k, [type |-> t, count |-> c])
              /\ r.next = IF k = 0 THEN c ELSE s.next

LEMMA AddShape ==
    ASSUME NEW s, Typed(s), NEW t \in Types, NEW c \in Words,
           NEW r, r = AddEventCount(s, t, c)
    PROVE  Refused(s, r) \/ Placed(s, t, c, r)
<1> DEFINE d == s.done /\ s.count <= Half
           u == [s EXCEPT !.done = d]
           k == Place(u, t, c)
           p == Inserted(u.queue, k, [type |-> t, count |-> c])
           v == [u EXCEPT !.queue = p, !.next = IF k = 0 THEN c ELSE @]
           refused == GetEvent(u, t) # 0 \/ Len(u.queue) >= Capacity
<1>1. s \in Machine /\ s.queue \in Seq(Events) /\ Capacity > 2 /\ Capacity \in Nat
  BY QueueOf, Constants DEF Typed
<1>3. r = IF refused THEN u ELSE v
  BY Zenon DEF AddEventCount
<1> HIDE DEF d
<1>0. DOMAIN u = DOMAIN s
  OBVIOUS
<1>2. u.queue = s.queue /\ u.count = s.count /\ u.next = s.next
  BY <1>1 DEF Machine
<1>4. v.queue = p /\ v.next = IF k = 0 THEN c ELSE u.next
  <2> HIDE DEF p, k
  <2> QED
    BY <1>1 DEF Machine
<1>5. refused => s.queue # <<>>
  <2>1. s.queue = <<>> => Positions(u, t) = {}
    BY <1>2 DEF Positions
  <2>2. Positions(u, t) = {} => GetEvent(u, t) = 0
    BY Zenon DEF GetEvent
  <2> QED
    BY <2>1, <2>2, <1>1, <1>2
<1>6. k \in 0 .. Len(s.queue)
  BY <1>1, <1>2, PlaceInside
<1> HIDE DEF u, v, refused
<1>7. CASE refused
  BY <1>2, <1>3, <1>5, <1>7 DEF Refused
<1>8. CASE ~ refused
  <2>1. r = v
    BY <1>3, <1>8
  <2>2. r.queue = Inserted(s.queue, k, [type |-> t, count |-> c])
    BY <2>1, <1>2, <1>4
  <2>3. r.next = IF k = 0 THEN c ELSE s.next
    BY <2>1, <1>2, <1>4
  <2>4. k = Place(u, t, c) /\ u.queue = s.queue /\ u.count = s.count
    BY <1>2
  <2> HIDE DEF k
  <2>5. \E w, j : /\ w.queue = s.queue /\ w.count = s.count /\ j = Place(w, t, c)
                  /\ j \in 0 .. Len(s.queue)
                  /\ r.queue = Inserted(s.queue, j, [type |-> t, count |-> c])
                  /\ r.next = IF j = 0 THEN c ELSE s.next
    BY <2>2, <2>3, <2>4, <1>6
  <2> QED
    BY <2>5 DEF Placed
<1> QED
  BY <1>7, <1>8

\* next_interupt stays with the head when an event is added.
LEMMA AddAimed ==
    ASSUME NEW s, Typed(s), Plain(s.queue), s.queue = <<>> \/ Aimed(s),
           NEW t \in Types, t # "COMPARE", NEW c \in Words, t = "SPECIAL" => c = 0,
           NEW r, r = AddEventCount(s, t, c)
    PROVE  Aimed(r) /\ Plain(r.queue)
<1> DEFINE e == [type |-> t, count |-> c]
<1>1. r.slot = s.slot /\ r.skip = s.skip
  BY AddFacts DEF Added, Frame
<1>2. s.queue \in Seq(Events)
  BY QueueOf DEF Typed
<1>3. e \in Events /\ e.type = t /\ e.count = c
  BY DEF Events
<1>4. CASE Refused(s, r)
  BY <1>1, <1>4 DEF Aimed, Refused
<1>5. ASSUME NEW k \in 0 .. Len(s.queue), r.queue = Inserted(s.queue, k, e),
             r.next = IF k = 0 THEN c ELSE s.next
      PROVE  Aimed(r) /\ Plain(r.queue)
  <2> HIDE DEF e
  <2>1. Plain(r.queue)
    BY <1>2, <1>3, <1>5, InsertedPlain
  <2>5. Insertion(s.queue, k, e, r.queue)
    BY <1>2, <1>3, <1>5, InsertedFacts
  <2>2. r.queue[1] = IF k = 0 THEN e ELSE s.queue[1]
    BY <2>5 DEF Insertion
  <2>3. k # 0 => s.queue # <<>>
    BY <1>2
  <2>4. Aimed(r)
    BY <2>2, <2>3, <1>1, <1>3, <1>5 DEF Aimed
  <2> QED
    BY <2>1, <2>4
<1>6. CASE Placed(s, t, c, r)
  BY <1>5, <1>6 DEF Placed
<1> QED
  BY <1>4, <1>6, AddShape

\* A queue in which next_interupt is right and Count has just wrapped around.
LEMMA SmallIsWell ==
    ASSUME NEW s, Steady(s), s.lag = 0, s.count <= Near, Aimed(s), Plain(s.queue)
    PROVE  Well(s)
<1>1. s \in Machine /\ s.count \in Words /\ 0 < Near
      /\ \A i \in DOMAIN s.queue : s.queue[i].count \in Words
  BY SteadyFacts, QueueOf, Counting
<1>2. \A i \in Front(s.queue) : Fitting(s.count, s.lag, s.queue[i].count)
  BY <1>1, SmallFits DEF Front
<1> QED
  BY <1>1, <1>2 DEF Well, Timely

\* A device's event takes its place: behind the marker if it is for a Count
\* beyond the wrap, and due or ahead if it is in front of it.
LEMMA AddCarries ==
    ASSUME NEW s, Well(s), NEW t \in Types, t \notin {"SPECIAL", "COMPARE"},
           NEW c \in Words, NEW r, r = AddEventCount(s, t, c)
    PROVE  Carried(s, r)
<1> DEFINE e == [type |-> t, count |-> c]
<1>1. /\ Typed(s) /\ s \in Machine /\ s.queue \in Seq(Events) /\ s.queue # <<>>
      /\ s.count \in Words /\ s.lag \in Words /\ Steady(s)
      /\ \A i \in DOMAIN s.queue : s.queue[i] \in Events
  BY SteadyFacts DEF Well, Machine
<1>2. Added(s, t, c, r)
  BY <1>1, AddFacts
<1>3. Steady(r) /\ Frame(s, r)
  BY <1>1, <1>2, AddedIsGrown, GrownKeeps DEF Keeps, Added
<1>4. Aimed(r) /\ Plain(r.queue)
  BY <1>1, AddAimed DEF Well
<1>5. e \in Events /\ e.type = t /\ e.count = c
  BY DEF Events
<1>6. r.count = s.count /\ r.lag = s.lag /\ s.lag < Near
  BY <1>3 DEF Frame, Well, Timely
<1>7. CASE Refused(s, r)
  BY <1>3, <1>4, <1>6, <1>7 DEF Well, Timely, Carried, Frame, Refused
<1>8. ASSUME NEW u, NEW k \in 0 .. Len(s.queue), u.queue = s.queue, u.count = s.count,
             k = Place(u, t, c), r.queue = Inserted(s.queue, k, e)
      PROVE  Carried(s, r)
  <2> HIDE DEF e
  <2>1. ASSUME \A j \in 1 .. k : s.queue[j].type # "SPECIAL"
        PROVE  Fitting(s.count, s.lag, c)
    <3>1. PICK i \in DOMAIN s.queue :
                 \A j \in DOMAIN s.queue : s.queue[j].type = "SPECIAL" <=> j = i
      BY <1>1 DEF Steady, OneMarker
    <3>2. i \in 1 .. Len(s.queue) /\ Len(s.queue) \in Nat /\ s.queue[i].type = "SPECIAL"
          /\ s.queue[i].count = 0
      BY <3>1, <1>1 DEF Well, Plain
    <3>3. k < i
      BY <2>1, <3>2
    <3>4. CASE c < s.count \/ Diff(c, s.count) >= Half
      <4>1. ASSUME NEW j \in 1 .. i
            PROVE  ~ BeforeEvent(u, c, s.queue[j])
        <5>1. j \in DOMAIN s.queue /\ s.queue[j] \in Events
          BY <1>1, <3>2
        <5>2. CASE j = i
          BY <5>1, <5>2, <3>2, <3>4, <1>1, <1>8, BeyondTheWrap
        <5>3. CASE j # i
          <6>1. s.queue[j].type # "SPECIAL" /\ j \in Front(s.queue)
            BY <5>1, <5>3, <3>1, <3>2, <1>1 DEF Front
          <6>2. Fitting(s.count, s.lag, s.queue[j].count)
            BY <6>1 DEF Well, Timely
          <6> QED
            BY <5>1, <6>1, <6>2, <3>4, <1>1, <1>8, BeyondTheWrap
        <5> QED
          BY <5>2, <5>3
      <4>2. i <= Place(u, t, c)
        BY <4>1, <3>2, <1>1, <1>8, PlaceBeyond
      <4> QED
        BY <4>2, <3>2, <3>3, <1>8
    <3>5. CASE ~ c < s.count
      <4>1. s.count <= c
        BY <3>5, <1>1, Counting
      <4> QED
        BY <4>1, <1>1, <1>6, AheadFits
    <3> QED
      BY <3>4, <3>5
  <2>2. ASSUME NEW i \in Front(r.queue)
        PROVE  Fitting(s.count, s.lag, r.queue[i].count)
    <3>1. CASE \E j \in Front(s.queue) : r.queue[i] = s.queue[j]
      BY <3>1 DEF Well, Timely
    <3>2. CASE r.queue[i] = e /\ \A j \in 1 .. k : s.queue[j].type # "SPECIAL"
      BY <3>2, <2>1, <1>5
    <3> QED
      BY <3>1, <3>2, <1>1, <1>5, <1>8, InsertedFront
  <2> QED
    BY <2>2, <1>3, <1>4, <1>6 DEF Well, Timely, Carried, Frame
<1>9. CASE Placed(s, t, c, r)
  BY <1>8, <1>9 DEF Placed
<1> QED
  BY <1>1, <1>7, <1>9, AddShape


\* The two are alike in what the queue's dispatch depends on.
Same(s, r) ==
    /\ r.queue = s.queue /\ r.next = s.next /\ r.count = s.count /\ r.lag = s.lag
    /\ r.slot = s.slot /\ r.skip = s.skip

LEMMA SameCarried ==
    ASSUME NEW s, Well(s), NEW r, Typed(r), Same(s, r)
    PROVE  Carried(s, r)
<1>1. Steady(r)
  BY DEF Well, Steady, Fits, Same
<1>2. Timely(r) /\ Plain(r.queue)
  BY DEF Well, Timely, Same
<1>3. Aimed(r)
  BY DEF Well, Aimed, Same
<1> QED
  BY <1>1, <1>2, <1>3 DEF Well, Carried, Same

LEMMA UpdateCarried ==
    ASSUME NEW s, Well(s), NEW r, r = UpdateCount(s)
    PROVE  Carried(s, r) /\ r.lag = 0
<1> DEFINE n == (s.count + s.lag) % Modulus
           u == [s EXCEPT !.count = n, !.lag = 0]
<1>1. /\ Typed(s) /\ s \in Machine /\ s.count \in Words /\ s.lag \in Words
      /\ \A i \in DOMAIN s.queue : s.queue[i].count \in Words
  BY SteadyFacts, QueueOf DEF Well, Machine
<1>2. r = u
  BY Zenon DEF UpdateCount
<1> HIDE DEF n
<1>3. u.count = n
  BY <1>1 DEF Machine
<1> HIDE DEF u
<1>4. /\ Typed(r) /\ r.queue = s.queue /\ r.next = s.next /\ r.lag = 0
      /\ r.slot = s.slot /\ r.skip = s.skip /\ r.count = n
  BY <1>1, <1>2, <1>3, UpdateCountFacts, ZenonT(60) DEF Alike
<1>5. \A i \in Front(r.queue) : Fitting(r.count, r.lag, r.queue[i].count)
  BY <1>1, <1>4, LaterFits DEF Well, Timely, Front, n
<1>6. Timely(r) /\ Plain(r.queue)
  BY <1>4, <1>5, Counting DEF Well, Timely
<1>7. Aimed(r)
  BY <1>4 DEF Well, Aimed
<1>8. Steady(r)
  BY <1>4 DEF Well, Steady, Fits
<1> QED
  BY <1>4, <1>6, <1>7, <1>8 DEF Well, Carried

\* A CHECK_INT is due now.
LEMMA CheckCarried ==
    ASSUME NEW s, Well(s), NEW r, r = CheckInterrupt(s)
    PROVE  Carried(s, r)
<1> DEFINE d == IF s.intr \cap s.mask # {} THEN s.cause \cup {"rcp"} ELSE s.cause \ {"rcp"}
           u == [s EXCEPT !.cause = d]
           e == [type |-> "CHECK", count |-> u.count]
           q == Inserted(u.queue, 0, e)
           v == [u EXCEPT !.queue = q, !.next = u.count]
           due == Enabled(u) /\ Pending(u) /\ Len(u.queue) < Capacity
<1>1. r = IF due THEN v ELSE u
  BY Zenon DEF CheckInterrupt
<1>2. /\ Typed(s) /\ s \in Machine /\ s.queue \in Seq(Events)
      /\ s.count \in Words /\ s.lag \in Words
  BY SteadyFacts DEF Well, Machine
<1>3. Grown(s, r)
  BY <1>2, CheckInterruptFacts
<1>4. Steady(r)
  BY <1>2, <1>3, SteadyFacts DEF Grown, Well, Steady, Fits
<1> HIDE DEF d
<1>0. DOMAIN u = DOMAIN s
  OBVIOUS
<1>5. Same(s, u)
  BY <1>2 DEF Machine, Same
<1> HIDE DEF u, due
<1>6. v.queue = q /\ v.next = u.count /\ v.count = u.count /\ v.lag = u.lag
      /\ v.slot = u.slot /\ v.skip = u.skip
  <2>1. DOMAIN u = DOMAIN s
    BY <1>0
  <2> HIDE DEF q
  <2> QED
    BY <2>1, <1>2 DEF Machine
<1> HIDE DEF v
<1>7. CASE r = u
  BY <1>2, <1>3, <1>5, <1>7, SameCarried DEF Grown
<1>8. CASE r = v
  <2>1. e \in Events /\ e.type = "CHECK" /\ e.count = s.count
    BY <1>2, <1>5 DEF Events, Types, Same
  <2>2. q = Inserted(s.queue, 0, e)
    BY <1>5 DEF Same
  <2> HIDE DEF e, q
  <2>3. Insertion(s.queue, 0, e, q)
    BY <1>2, <2>1, <2>2, InsertedFacts
  <2>4. Aimed(r)
    BY <2>1, <2>3, <1>5, <1>6, <1>8 DEF Aimed, Insertion, Same
  <2>5. Plain(r.queue)
    BY <2>1, <2>2, <1>2, <1>6, <1>8, InsertedPlain DEF Well
  <2>6. Fitting(s.count, s.lag, s.count)
    BY <1>2, AheadFits, Counting DEF Well, Timely
  <2>7. ASSUME NEW i \in Front(q)
        PROVE  Fitting(s.count, s.lag, q[i].count)
    <3>1. CASE \E j \in Front(s.queue) : q[i] = s.queue[j]
      BY <3>1 DEF Well, Timely
    <3>2. CASE q[i] = e
      BY <3>2, <2>1, <2>6
    <3> QED
      BY <3>1, <3>2, <2>1, <2>2, <1>2, InsertedFront
  <2>8. Timely(r)
    BY <2>7, <1>5, <1>6, <1>8 DEF Well, Timely, Same
  <2> QED
    BY <2>4, <2>5, <2>8, <1>4, <1>5, <1>6, <1>8 DEF Carried, Well, Same
<1> QED
  BY <1>1, <1>7, <1>8

\* The head is taken out, and next_interupt is recomputed.
LEMMA HeadGone ==
    ASSUME NEW s, Typed(s), s.queue # <<>>, Plain(s.queue), NEW r, r = RemoveHead(s)
    PROVE  /\ Typed(r) /\ Frame(s, r) /\ r.queue = Without(s.queue, 1) /\ Plain(r.queue)
           /\ \/ r.queue = <<>>
              \/ /\ r.queue[1].type # "SPECIAL"
                 /\ ~ Fitting(s.count, s.lag, r.queue[1].count)
              \/ r.next = r.queue[1].count
<1> DEFINE q == Without(s.queue, 1)
           u == [s EXCEPT !.queue = q]
           n == Recomputed(u)
<1>1. s \in Machine /\ s.queue \in Seq(Events) /\ Len(s.queue) \in Nat /\ 1 \in 1 .. Len(s.queue)
  BY QueueOf DEF Typed
<1>2. q \in Seq(Events) /\ Plain(q)
  BY <1>1, WithoutFacts, RestFront
<1>3. r = [u EXCEPT !.next = n]
  BY Zenon DEF RemoveHead
<1>4. Typed(r) /\ Frame(s, r)
  BY RemoveHeadFacts DEF Taken
<1> HIDE DEF q
<1>5. u \in Machine /\ u.queue = q /\ u.count = s.count /\ u.lag = s.lag
  BY <1>1, <1>2 DEF Machine
<1> HIDE DEF u, n
<1>6. r.queue = q /\ r.next = n
  BY <1>3, <1>5 DEF Machine
<1>7. q = <<>> \/ (q[1].type # "SPECIAL" /\ ~ Fitting(s.count, s.lag, q[1].count))
        \/ n = q[1].count
  BY <1>2, <1>5, RecomputedHead DEF n
<1> QED
  BY <1>2, <1>4, <1>6, <1>7 DEF q

LEMMA HeadCarried ==
    ASSUME NEW s, Well(s), s.queue[1].type # "SPECIAL", NEW r, r = RemoveHead(s)
    PROVE  Carried(s, r)
<1>1. Typed(s) /\ s.queue # <<>> /\ s.queue \in Seq(Events) /\ Steady(s)
  BY SteadyFacts DEF Well
<1>2. Steady(r)
  BY <1>1, HeadTaken
<1>3. r.queue # <<>> /\ r.queue \in Seq(Events)
  BY <1>2, SteadyFacts
<1>4. /\ Frame(s, r) /\ r.queue = Without(s.queue, 1) /\ Plain(r.queue)
      /\ \/ r.queue[1].type # "SPECIAL" /\ ~ Fitting(s.count, s.lag, r.queue[1].count)
         \/ r.next = r.queue[1].count
  BY <1>1, <1>3, HeadGone DEF Well
<1>5. \A i \in Front(r.queue) : Fitting(s.count, s.lag, r.queue[i].count)
  BY <1>1, <1>4, RestFront DEF Well, Timely
<1>6. r.queue[1].type # "SPECIAL" => 1 \in Front(r.queue)
  BY <1>3 DEF Front
<1>7. Timely(r) /\ Aimed(r)
  BY <1>4, <1>5, <1>6 DEF Well, Timely, Aimed, Frame
<1> QED
  BY <1>2, <1>4, <1>7 DEF Carried, Well, Frame

\* An exception in a delay slot has the jump's end look at the queue.
LEMMA ExceptionCarried ==
    ASSUME NEW s, Well(s), NEW r, r = ExceptionGeneral(s)
    PROVE  Carried(s, r)
<1> DEFINE b == UpdateCount(s)
           e == IF b.exl THEN "handler" ELSE "thread"
           k == b.skip \/ b.slot
           n == IF b.slot THEN 0 ELSE b.next
           u == [b EXCEPT !.exl = TRUE, !.epc = e, !.skip = k, !.next = n]
<1>1. r = u
  BY Zenon DEF ExceptionGeneral
<1>2. Carried(s, b) /\ b.lag = 0
  BY UpdateCarried
<1>3. Typed(s) /\ Steady(s)
  BY SteadyFacts DEF Well
<1>4. Steady(r)
  BY <1>3, ExceptionFacts, CalmKeeps DEF Keeps
<1>5. Typed(b)
  BY <1>3, UpdateCountFacts
<1> HIDE DEF b
<1>6. (b.slot => k /\ n = 0) /\ (~ b.slot => n = b.next)
  BY Zenon
<1> HIDE DEF e, k, n
<1>7. u.queue = b.queue /\ u.count = b.count /\ u.lag = b.lag /\ u.slot = b.slot
      /\ u.skip = k /\ u.next = n
  BY <1>5 DEF Typed, Machine
<1> HIDE DEF u
<1>8. Timely(r) /\ Plain(r.queue)
  BY <1>1, <1>2, <1>7 DEF Carried, Well, Timely
<1>9. Aimed(r)
  <2>1. CASE b.slot
    BY <2>1, <1>1, <1>6, <1>7 DEF Aimed
  <2>2. CASE ~ b.slot
    BY <2>2, <1>1, <1>2, <1>6, <1>7 DEF Aimed, Carried, Well
  <2> QED
    BY <2>1, <2>2
<1> QED
  BY <1>1, <1>2, <1>4, <1>7, <1>8, <1>9 DEF Carried, Well

LEMMA MaskableCarried ==
    ASSUME NEW s, Well(s), NEW l \in {"rcp", "timer", "hw2"},
           NEW r, r = RaiseMaskable(s, l)
    PROVE  Carried(s, r)
<1> DEFINE d == s.cause \cup {l}
           u == [s EXCEPT !.cause = d]
<1>1. r = IF Enabled(u) /\ Pending(u) THEN ExceptionGeneral(u) ELSE u
  BY Zenon DEF RaiseMaskable
<1>2. Typed(s) /\ s \in Machine /\ d \in SUBSET {"rcp", "timer", "hw2"}
  BY SteadyFacts DEF Well, Machine
<1> HIDE DEF d
<1>3. u \in Machine
  BY <1>2 DEF Machine
<1>4. Same(s, u) /\ u.running = s.running /\ u.task = s.task
  BY <1>2 DEF Machine, Same
<1> HIDE DEF u
<1>5. Carried(s, u)
  BY <1>2, <1>3, <1>4, SameCarried DEF Typed
<1>6. Carried(u, ExceptionGeneral(u))
  BY <1>5, ExceptionCarried DEF Carried
<1> QED
  BY <1>1, <1>5, <1>6, CarriedOn

LEMMA RcpCarried ==
    ASSUME NEW s, Well(s), NEW i \in Devices, NEW r, r = RaiseRcp(s, i)
    PROVE  Carried(s, r)
<1> DEFINE d == s.intr \cup {i}
           u == [s EXCEPT !.intr = d]
<1>1. r = IF u.intr \cap u.mask # {} THEN RaiseMaskable(u, "rcp") ELSE u
  BY Zenon DEF RaiseRcp
<1>2. Typed(s) /\ s \in Machine /\ d \in SUBSET Devices
  BY SteadyFacts DEF Well, Machine
<1> HIDE DEF d
<1>3. u \in Machine
  BY <1>2 DEF Machine
<1>4. Same(s, u) /\ u.running = s.running /\ u.task = s.task
  BY <1>2 DEF Machine, Same
<1> HIDE DEF u
<1>5. Carried(s, u)
  BY <1>2, <1>3, <1>4, SameCarried DEF Typed
<1>6. Carried(u, RaiseMaskable(u, "rcp"))
  BY <1>5, MaskableCarried DEF Carried
<1> QED
  BY <1>1, <1>5, <1>6, CarriedOn


LEMMA EventCarried ==
    ASSUME NEW s, Well(s), NEW t \in Types, t \notin {"SPECIAL", "COMPARE"},
           NEW d \in Words, NEW r, r = AddEvent(s, t, d)
    PROVE  Carried(s, r)
<1> DEFINE c == (s.count + d) % Modulus
<1>1. c \in Words
  <2>0. s.count \in Words
    BY SteadyFacts DEF Well, Machine
  <2>1. s.count \in Int /\ d \in Int
    BY <2>0, Constants
  <2>2. s.count + d \in Int
    BY <2>1
  <2> QED
    BY <2>2, Constants
<1>2. r = AddEventCount(s, t, c)
  BY Zenon DEF AddEvent
<1> HIDE DEF c
<1> QED
  BY <1>1, <1>2, AddCarries

\* A reset fills the queue anew, at a Count that has just started.
LEMMA InitWell ==
    ASSUME NEW s, Cleared(s), s.count <= Near, NEW r, r = InitInterrupt(s)
    PROVE  Well(r) /\ r.lag = 0 /\ r.slot = s.slot
<1> DEFINE u == [s EXCEPT !.done = TRUE, !.vi = FirstVi, !.queue = <<>>]
           a == AddEventCount(u, "VI", FirstVi)
<1>1. r = AddEventCount(a, "SPECIAL", 0)
  BY Zenon DEF InitInterrupt
<1>2. FirstVi \in Words /\ 0 \in Words /\ "VI" \in Types /\ "SPECIAL" \in Types
  BY WidthAssumption, Constants DEF Types, Devices
<1>3. s \in Machine /\ <<>> \in Seq(Events)
  BY DEF Typed, Cleared
<1>4. u \in Machine
  BY ZenonT(120), <1>2, <1>3 DEF Machine
<1>5. /\ u.queue = <<>> /\ u.running = s.running /\ u.task = s.task /\ u.count = s.count
      /\ u.lag = s.lag /\ u.slot = s.slot
  BY <1>3 DEF Machine
<1> HIDE DEF u
<1>6. Typed(u) /\ Plain(u.queue)
  BY <1>4, <1>5 DEF Typed, Plain, Cleared
<1>7. Added(u, "VI", FirstVi, a) /\ Aimed(a) /\ Plain(a.queue)
  BY <1>2, <1>5, <1>6, AddFacts, AddAimed
<1> HIDE DEF a
<1>8. Added(a, "SPECIAL", 0, r) /\ Aimed(r) /\ Plain(r.queue)
  <2>1. Typed(a)
    BY <1>7 DEF Added
  <2>2. Added(a, "SPECIAL", 0, r)
    BY <2>1, <1>1, <1>2, AddFacts
  <2>3. Aimed(r) /\ Plain(r.queue)
    BY <2>1, <1>1, <1>2, <1>7, AddAimed
  <2> QED
    BY <2>2, <2>3
<1>9. r.count = s.count /\ r.lag = 0 /\ r.slot = s.slot
  BY <1>5, <1>7, <1>8 DEF Added, Frame, Cleared
<1>10. Steady(r)
  BY InitInterruptFacts DEF Cleared, Fresh
<1> QED
  BY <1>8, <1>9, <1>10, SmallIsWell

LEMMA ResetCarried ==
    ASSUME NEW s, Well(s), NEW r, r = ResetHard(s)
    PROVE  Carried(s, r)
<1>1. PICK u : /\ Cleared(u) /\ ResetHard(s) = InitInterrupt(u)
               /\ u.count = BootCount /\ u.slot = s.slot
  BY ResetHardStarts, SteadyFacts DEF Well
<1>2. u.count <= Near
  BY <1>1, Counting
<1>3. Well(r) /\ r.lag = 0 /\ r.slot = s.slot
  BY <1>1, <1>2, InitWell
<1> QED
  BY <1>3 DEF Carried

LEMMA NmiCarried ==
    ASSUME NEW s, Well(s), s.queue[1].type = "NMI", NEW r, r = NmiHandler(s)
    PROVE  Carried(s, r)
<1>1. PICK u : Cleared(u) /\ NmiHandler(s) = InitInterrupt(u) /\ u.count = 0 /\ u.slot = FALSE
  BY NmiStarts DEF Well
<1>2. u.count <= Near
  BY <1>1, Counting
<1>3. Well(r) /\ r.lag = 0 /\ r.slot = FALSE
  BY <1>1, <1>2, InitWell
<1> QED
  BY <1>3 DEF Carried

\* The marker is taken out soon after the wrap, and put at the end again.
LEMMA SpecialCarried ==
    ASSUME NEW s, Well(s), s.lag = 0, s.queue[1].type = "SPECIAL",
           NEW r, r = SpecialHandler(s)
    PROVE  Carried(s, r)
<1> DEFINE u == [s EXCEPT !.done = TRUE]
           a == RemoveHead(u)
<1>1. CASE s.count > Near
  <2>1. r = s
    BY <1>1, Zenon DEF SpecialHandler
  <2> QED
    BY <2>1, CarriedItself
<1>2. CASE ~ s.count > Near
  <2>1. r = AddEventCount(a, "SPECIAL", 0)
    BY <1>2, Zenon DEF SpecialHandler
  <2>2. s \in Machine /\ Typed(s) /\ s.queue # <<>> /\ Steady(s) /\ s.count \in Words
    BY SteadyFacts, QueueOf DEF Well
  <2>3. u \in Machine
    BY <2>2, ZenonT(40) DEF Machine
  <2>4. Same(s, u) /\ u.running = s.running /\ u.task = s.task
    BY <2>2 DEF Machine, Same
  <2> HIDE DEF u
  <2>5. Typed(u) /\ u.queue # <<>> /\ Plain(u.queue)
    BY <2>2, <2>3, <2>4 DEF Well, Same, Typed
  <2>6. /\ Typed(a) /\ Frame(u, a) /\ Plain(a.queue)
        /\ \/ a.queue = <<>>
           \/ /\ a.queue[1].type # "SPECIAL"
              /\ ~ Fitting(u.count, u.lag, a.queue[1].count)
           \/ a.next = a.queue[1].count
    BY <2>5, HeadGone
  <2> HIDE DEF a
  <2>7. s.count <= Near
    BY <1>2, <2>2, Counting
  <2>8. a.queue # <<>> => a.queue[1].count \in Words
    BY <2>6, QueueOf DEF Typed
  <2>9. a.queue = <<>> \/ Aimed(a)
    BY <2>2, <2>4, <2>6, <2>7, <2>8, SmallFits DEF Aimed, Same
  <2>10. 0 \in Words /\ "SPECIAL" \in Types
    BY Constants DEF Types
  <2>11. Added(a, "SPECIAL", 0, r) /\ Aimed(r) /\ Plain(r.queue)
    BY <2>1, <2>6, <2>9, <2>10, AddFacts, AddAimed
  <2>12. r.count = s.count /\ r.lag = 0 /\ r.slot = s.slot
    BY <2>4, <2>6, <2>11 DEF Added, Frame, Same
  <2>13. Steady(r)
    BY <2>2, SpecialStep DEF Step, Keeps
  <2>14. Well(r)
    BY <2>7, <2>11, <2>12, <2>13, SmallIsWell
  <2> QED
    BY <2>12, <2>14 DEF Carried
<1> QED
  BY <1>1, <1>2

LEMMA Hw2Carried ==
    ASSUME NEW s, Well(s), s.queue[1].type = "HW2", NEW r, r = Hw2Handler(s)
    PROVE  Carried(s, r)
<1> DEFINE a == RemoveHead(s)
           i == a.im \cup {"hw2"}
           c == a.cause \cup {"hw2"}
           u == [a EXCEPT !.im = i, !.cause = c]
<1>1. r = ExceptionGeneral(u)
  BY Zenon DEF Hw2Handler
<1>2. Carried(s, a)
  BY HeadCarried
<1> HIDE DEF a
<1>3. Typed(a) /\ a \in Machine /\ i \in SUBSET {"rcp", "timer", "hw2"}
      /\ c \in SUBSET {"rcp", "timer", "hw2"}
  BY <1>2, SteadyFacts DEF Carried, Well, Machine
<1> HIDE DEF i, c
<1>4. u \in Machine
  BY <1>3 DEF Machine
<1>5. Same(a, u) /\ u.running = a.running /\ u.task = a.task
  BY <1>3 DEF Machine, Same
<1> HIDE DEF u
<1>6. Carried(a, u)
  BY <1>2, <1>3, <1>4, <1>5, SameCarried DEF Typed, Carried
<1>7. Carried(u, r)
  BY <1>1, <1>6, ExceptionCarried DEF Carried
<1> QED
  BY <1>2, <1>6, <1>7, CarriedOn

LEMMA ViCarried ==
    ASSUME NEW s, Well(s), s.queue[1].type = "VI", NEW d \in Words,
           NEW r, r = ViEnd(RemoveHead(s), d)
    PROVE  Carried(s, r)
<1> DEFINE a == RemoveHead(s)
           n == (a.vi + d) % Modulus
           u == [a EXCEPT !.vi = n]
           b == AddEventCount(u, "VI", u.vi)
<1>1. r = RaiseRcp(b, "VI")
  BY Zenon DEF ViEnd
<1>2. Carried(s, a)
  BY HeadCarried
<1> HIDE DEF a
<1>3. Typed(a) /\ a \in Machine /\ a.vi \in Words
  BY <1>2, SteadyFacts DEF Carried, Well, Machine
<1>4. n \in Words
  <2>1. a.vi \in Int /\ d \in Int
    BY <1>3, Constants
  <2>2. a.vi + d \in Int
    BY <2>1
  <2> QED
    BY <2>2, Constants
<1> HIDE DEF n
<1>5. u \in Machine
  BY <1>3, <1>4 DEF Machine
<1>6. Same(a, u) /\ u.running = a.running /\ u.task = a.task /\ u.vi = n
  BY <1>3 DEF Machine, Same
<1> HIDE DEF u
<1>7. Carried(a, u)
  BY <1>2, <1>3, <1>5, <1>6, SameCarried DEF Typed, Carried
<1>8. "VI" \in Types /\ "VI" \in Devices
  BY DEF Types, Devices
<1>9. Carried(u, b)
  BY <1>4, <1>6, <1>7, <1>8, AddCarries DEF Carried
<1> HIDE DEF b
<1>10. Carried(b, r)
  BY <1>1, <1>8, <1>9, RcpCarried DEF Carried
<1> QED
  BY <1>2, <1>7, <1>9, <1>10, CarriedOn

LEMMA AiCarried ==
    ASSUME NEW s, Well(s), s.queue[1].type = "AI", NEW d \in Words,
           NEW r, r = AiEnd(RemoveHead(s), d)
    PROVE  Carried(s, r)
<1> DEFINE a == RemoveHead(s)
           u == [a EXCEPT !.ai = 1]
           c == UpdateCount(u)
           b == AddEvent(c, "AI", d)
           v == [a EXCEPT !.ai = 0]
           w == IF a.ai = 2 THEN b ELSE v
<1>1. r = RaiseRcp(w, "AI")
  BY Zenon DEF AiEnd
<1>2. Carried(s, a)
  BY HeadCarried
<1> HIDE DEF a
<1>3. Typed(a) /\ a \in Machine /\ 0 \in 0 .. 2 /\ 1 \in 0 .. 2
  BY <1>2, SteadyFacts DEF Carried, Well
<1>4. "AI" \in Types /\ "AI" \in Devices
  BY DEF Types, Devices
<1>5. u \in Machine /\ v \in Machine
  BY <1>3 DEF Machine
<1>6. Same(a, u) /\ u.running = a.running /\ u.task = a.task
  BY <1>3 DEF Machine, Same
<1>7. Same(a, v) /\ v.running = a.running /\ v.task = a.task
  BY <1>3 DEF Machine, Same
<1> HIDE DEF u, v
<1>8. Carried(a, u) /\ Carried(a, v)
  BY <1>2, <1>3, <1>5, <1>6, <1>7, SameCarried DEF Typed, Carried
<1>9. Carried(u, c)
  BY <1>8, UpdateCarried DEF Carried
<1> HIDE DEF c
<1>10. Carried(c, b)
  BY <1>4, <1>9, EventCarried DEF Carried
<1> HIDE DEF b
<1>11. Carried(s, w)
  <2>1. Carried(s, b) /\ Carried(s, v)
    BY <1>2, <1>8, <1>9, <1>10, CarriedOn
  <2> QED
    BY <2>1
<1>12. Carried(w, r)
  BY <1>1, <1>4, <1>11, RcpCarried DEF Carried
<1> QED
  BY <1>11, <1>12, CarriedOn

LEMMA EndCarried ==
    ASSUME NEW s, Well(s), NEW r, NEW a, a = RemoveHead(s),
           \/ s.queue[1].type = "PI" /\ r = PiEnd(a)
           \/ s.queue[1].type = "SI" /\ r = RaiseRcp(a, "SI")
           \/ s.queue[1].type = "SP" /\ r = SpEnd(a)
           \/ s.queue[1].type = "DP" /\ r = DpEnd(a)
    PROVE  Carried(s, r)
<1> DEFINE f == [a EXCEPT !.running = FALSE]
           g == [a EXCEPT !.frozen = FALSE]
           h == [a EXCEPT !.pi = FALSE]
<1>1. Carried(s, a)
  BY HeadCarried
<1>2. Typed(a) /\ a \in Machine
  BY <1>1, SteadyFacts DEF Carried, Well
<1>3. f \in Machine /\ g \in Machine /\ h \in Machine
  BY ZenonT(120), <1>2 DEF Machine
<1>4. Same(a, f) /\ f.running = FALSE
  BY <1>2 DEF Same, Machine
<1>5. Same(a, g) /\ g.running = a.running /\ g.task = a.task
  BY <1>2 DEF Same, Machine
<1>6. Same(a, h) /\ h.running = a.running /\ h.task = a.task
  BY <1>2 DEF Same, Machine
<1>7. SpEnd(a) = f \/ SpEnd(a) = RaiseRcp(f, "SP")
  BY Zenon DEF SpEnd
<1>8. DpEnd(a) = RaiseRcp(g, "DP") /\ PiEnd(a) = RaiseRcp(h, "PI")
  BY Zenon DEF DpEnd, PiEnd
<1> HIDE DEF f, g, h
<1>9. Typed(f) /\ Typed(g) /\ Typed(h)
  BY <1>2, <1>3, <1>4, <1>5, <1>6 DEF Typed
<1>10. Carried(a, f) /\ Carried(a, g) /\ Carried(a, h)
  BY <1>1, <1>4, <1>5, <1>6, <1>9, SameCarried DEF Carried
<1>11. {"PI", "SI", "SP", "DP"} \subseteq Devices
  BY DEF Devices
<1>12. /\ Carried(a, RaiseRcp(a, "SI")) /\ Carried(f, RaiseRcp(f, "SP"))
       /\ Carried(g, RaiseRcp(g, "DP")) /\ Carried(h, RaiseRcp(h, "PI"))
  BY <1>1, <1>10, <1>11, RcpCarried DEF Carried
<1>13. Carried(a, r)
  BY <1>7, <1>8, <1>10, <1>12, CarriedOn
<1> QED
  BY <1>1, <1>13, CarriedOn

\* Count has been brought up to date when gen_interupt is called.
LEMMA DispatchCarried ==
    ASSUME NEW s, Well(s), s.lag = 0, NEW r \in Dispatch(s)
    PROVE  Carried(s, r)
<1> DEFINE h == s.queue[1].type
           a == RemoveHead(s)
<1>1. h \in Types /\ h # "COMPARE"
  BY SteadyFacts, QueueOf DEF Well, Plain
<1>2. \A d \in Delays["VI"] \cup Delays["AI"] : d \in Words
  BY ChoicesAssumption DEF Timed
<1>3. Handled(s, a, r)
  BY DispatchOutcomes
<1>4. h \in {"SPECIAL", "VI", "AI"} => Carried(s, r)
  BY <1>2, <1>3, SpecialCarried, ViCarried, AiCarried DEF Handled
<1>5. h = "CHECK" => Carried(s, r)
  <2>1. h = "CHECK" => Carried(s, a) /\ r = ExceptionGeneral(a)
    BY <1>3, HeadCarried DEF Handled
  <2> QED
    BY <2>1, ExceptionCarried, CarriedOn DEF Carried
<1>6. h \in {"PI", "SI", "SP", "DP", "HW2", "NMI"} => Carried(s, r)
  BY <1>3, EndCarried, Hw2Carried, NmiCarried DEF Handled
<1> HIDE DEF h
<1> QED
  BY <1>1, <1>4, <1>5, <1>6 DEF Types, Devices

\* gen_interupt, with a queue that is well but for next_interupt if an
\* exception in the delay slot is to be ended.
LEMMA GenEnds ==
    ASSUME NEW s, Steady(s), Timely(s), Plain(s.queue), s.lag = 0,
           s.next = s.queue[1].count \/ (s.skip /\ s.next = 0),
           NEW unsafe, NEW r \in GenIfDue(s, unsafe)
    PROVE  Well(r) /\ r.lag = 0 /\ (~ s.slot => ~ r.slot)
<1> DEFINE n == Recomputed(s)
           u == [s EXCEPT !.skip = FALSE, !.next = n]
<1>1. /\ Typed(s) /\ s \in Machine /\ s.queue \in Seq(Events) /\ s.queue # <<>>
      /\ s.count \in Words /\ 0 <= s.count
  BY SteadyFacts, QueueOf, Counting
<1>2. \/ r = s /\ ~ s.next <= s.count
      \/ r = ResetHard(s)
      \/ r = u /\ s.skip
      \/ r \in Dispatch(s) /\ ~ s.skip
  BY GenOutcomes
<1>3. s.next = s.queue[1].count => Well(s)
  BY DEF Well, Aimed
<1>4. CASE r = s /\ ~ s.next <= s.count
  BY <1>1, <1>3, <1>4
<1>5. CASE r = ResetHard(s)
  <2>1. PICK v : /\ Cleared(v) /\ ResetHard(s) = InitInterrupt(v)
                 /\ v.count = BootCount /\ v.slot = s.slot
    BY <1>1, ResetHardStarts
  <2>2. v.count <= Near
    BY <2>1, Counting
  <2> QED
    BY <1>5, <2>1, <2>2, InitWell
<1>6. CASE r = u /\ s.skip
  <2>1. s.queue[1].type # "SPECIAL" => 1 \in Front(s.queue)
    BY <1>1 DEF Front
  <2>2. n = s.queue[1].count
    BY <1>1, <2>1, RecomputedHead DEF Timely
  <2> HIDE DEF n
  <2>3. u.queue = s.queue /\ u.next = n /\ u.count = s.count /\ u.lag = s.lag
        /\ u.slot = s.slot
    BY <1>1 DEF Machine
  <2> HIDE DEF u
  <2>4. Steady(r)
    BY GenStep DEF Step, Keeps
  <2> QED
    BY <1>6, <2>2, <2>3, <2>4 DEF Well, Timely, Aimed
<1>7. CASE r \in Dispatch(s) /\ ~ s.skip
  BY <1>3, <1>7, DispatchCarried DEF Carried
<1> HIDE DEF u
<1> QED
  BY <1>2, <1>4, <1>5, <1>6, <1>7

LEMMA GenCarried ==
    ASSUME NEW s, Well(s), s.lag = 0, NEW unsafe, NEW r \in GenIfDue(s, unsafe)
    PROVE  Carried(s, r)
<1>1. s.next = s.queue[1].count \/ (s.skip /\ s.next = 0)
  BY DEF Well, Aimed
<1> QED
  BY <1>1, GenEnds DEF Carried, Well


\* The instructions.

LEMMA IntrCarried ==
    ASSUME NEW s, Well(s), NEW d \in SUBSET Devices
    PROVE  Carried(s, [s EXCEPT !.intr = d])
<1> DEFINE u == [s EXCEPT !.intr = d]
<1>1. Typed(s) /\ s \in Machine
  BY SteadyFacts DEF Well
<1>2. Same(s, u)
  BY <1>1 DEF Machine, Same
<1>3. Typed(u)
  BY <1>1, IntrTouches DEF Touched
<1> HIDE DEF u
<1>4. Carried(s, u)
  BY <1>2, <1>3, SameCarried
<1> QED
  BY <1>4 DEF u

LEMMA SignalCarried ==
    ASSUME NEW s, Well(s), NEW i \in Devices
    PROVE  Carried(s, SignalRcp(s, i)) /\ Carried(s, ClearRcp(s, i))
<1> DEFINE d == s.intr \cup {i}
           e == s.intr \ {i}
           u == [s EXCEPT !.intr = d]
           v == [s EXCEPT !.intr = e]
<1>1. d \in SUBSET Devices /\ e \in SUBSET Devices
  BY SteadyFacts DEF Machine, Well
<1>2. SignalRcp(s, i) = CheckInterrupt(u) /\ ClearRcp(s, i) = CheckInterrupt(v)
  BY Zenon DEF SignalRcp, ClearRcp
<1> HIDE DEF d, e
<1>3. Carried(s, u) /\ Carried(s, v)
  BY <1>1, IntrCarried
<1> HIDE DEF u, v
<1>4. Carried(u, CheckInterrupt(u)) /\ Carried(v, CheckInterrupt(v))
  BY <1>3, CheckCarried DEF Carried
<1> QED
  BY <1>2, <1>3, <1>4, CarriedOn

LEMMA MaskCarried ==
    ASSUME NEW s, Well(s), NEW r \in StoreMiMask(s)
    PROVE  Carried(s, r)
<1>1. PICK w \in Masks :
        r \in GenIfDue(UpdateCount(CheckInterrupt([s EXCEPT !.mask = w])), FALSE)
  BY DEF StoreMiMask
<1> DEFINE u == [s EXCEPT !.mask = w]
           a == CheckInterrupt(u)
           b == UpdateCount(a)
<1>2. Typed(s) /\ s \in Machine /\ w \in SUBSET Devices
  BY SteadyFacts, ChoicesAssumption DEF Well
<1>3. u \in Machine
  BY <1>2 DEF Machine
<1>4. Same(s, u) /\ u.running = s.running /\ u.task = s.task
  BY <1>2 DEF Machine, Same
<1>0. r \in GenIfDue(b, FALSE)
  BY <1>1
<1> HIDE DEF u
<1>5. Carried(s, u)
  BY <1>2, <1>3, <1>4, SameCarried DEF Typed
<1>6. Carried(u, a)
  BY <1>5, CheckCarried DEF Carried
<1> HIDE DEF a
<1>7. Carried(a, b) /\ b.lag = 0
  BY <1>6, UpdateCarried DEF Carried
<1> HIDE DEF b
<1>8. Carried(b, r)
  BY <1>0, <1>7, GenCarried DEF Carried
<1> QED
  BY <1>5, <1>6, <1>7, <1>8, CarriedOn

LEMMA PiCarried ==
    ASSUME NEW s, Well(s), NEW r \in StorePiLength(s)
    PROVE  Carried(s, r)
<1>1. PICK d \in Delays["PI"] : r = StartPi(s, d)
  BY DEF StorePiLength
<1> DEFINE u == [s EXCEPT !.pi = TRUE]
           c == UpdateCount(u)
<1>2. r = AddEvent(c, "PI", d)
  BY <1>1, Zenon DEF StartPi
<1>3. Typed(s) /\ s \in Machine /\ d \in Words /\ "PI" \in Types
  BY SteadyFacts, ChoicesAssumption DEF Types, Devices, Timed, Well
<1>4. u \in Machine
  BY <1>3 DEF Machine
<1>5. Same(s, u) /\ u.running = s.running /\ u.task = s.task
  BY <1>3 DEF Machine, Same
<1> HIDE DEF u
<1>6. Carried(s, u)
  BY <1>3, <1>4, <1>5, SameCarried DEF Typed
<1>7. Carried(u, c)
  BY <1>6, UpdateCarried DEF Carried
<1> HIDE DEF c
<1>8. Carried(c, r)
  BY <1>2, <1>3, <1>7, EventCarried DEF Carried
<1> QED
  BY <1>6, <1>7, <1>8, CarriedOn

LEMMA FifoCarried ==
    ASSUME NEW s, Well(s), NEW r \in StoreAiLength(s)
    PROVE  Carried(s, r)
<1>1. PICK d \in Delays["AI"] : r = FifoPush(s, d)
  BY DEF StoreAiLength
<1> DEFINE u == [s EXCEPT !.ai = 1]
           c == UpdateCount(u)
           v == [s EXCEPT !.ai = 2]
<1>2. r = IF s.ai = 0 THEN AddEvent(c, "AI", d) ELSE v
  BY <1>1, Zenon DEF FifoPush
<1>3. Typed(s) /\ s \in Machine /\ d \in Words /\ "AI" \in Types /\ 1 \in 0 .. 2 /\ 2 \in 0 .. 2
  BY SteadyFacts, ChoicesAssumption DEF Types, Devices, Timed, Well
<1>4. u \in Machine /\ v \in Machine
  BY <1>3 DEF Machine
<1>5. Same(s, u) /\ u.running = s.running /\ u.task = s.task
  BY <1>3 DEF Machine, Same
<1>6. Same(s, v) /\ v.running = s.running /\ v.task = s.task
  BY <1>3 DEF Machine, Same
<1> HIDE DEF u, v
<1>7. Carried(s, u) /\ Carried(s, v)
  BY <1>3, <1>4, <1>5, <1>6, SameCarried DEF Typed
<1>8. Carried(u, c)
  BY <1>7, UpdateCarried DEF Carried
<1> HIDE DEF c
<1>9. Carried(c, AddEvent(c, "AI", d))
  BY <1>3, <1>8, EventCarried DEF Carried
<1>10. Carried(s, AddEvent(c, "AI", d))
  BY <1>7, <1>8, <1>9, CarriedOn
<1> QED
  BY <1>2, <1>7, <1>10

LEMMA SiCarried ==
    ASSUME NEW s, Well(s), NEW r \in StartSi(s) \cup StartSiNow(s)
    PROVE  Carried(s, r)
<1> DEFINE c == UpdateCount(s)
<1>1. Carried(s, c)
  BY UpdateCarried
<1>2. \/ \E t \in Delays["SI"] : r = AddEvent(c, "SI", t)
      \/ r = SignalRcp(c, "SI")
  BY DEF StartSi, StartSiNow
<1> HIDE DEF c
<1>3. "SI" \in Types /\ "SI" \in Devices /\ \A t \in Delays["SI"] : t \in Words
  BY ChoicesAssumption DEF Types, Devices, Timed
<1>4. Carried(c, r)
  BY <1>1, <1>2, <1>3, EventCarried, SignalCarried DEF Carried
<1> QED
  BY <1>1, <1>4, CarriedOn

LEMMA FlagsCarried ==
    ASSUME NEW s, Well(s), NEW r \in Freeze(s) \cup HaltSp(s) \cup ResetHardRequested(s)
    PROVE  Carried(s, r)
<1> DEFINE u == [s EXCEPT !.frozen = TRUE]
           v == [s EXCEPT !.running = FALSE, !.deferred = FALSE]
           w == [s EXCEPT !.job = TRUE]
<1>1. r = u \/ r = v \/ r = w
  BY DEF Freeze, HaltSp, ResetHardRequested
<1>2. Typed(s) /\ s \in Machine
  BY SteadyFacts DEF Well
<1>3. u \in Machine /\ v \in Machine /\ w \in Machine
  BY ZenonT(120), <1>2 DEF Machine
<1>4. Same(s, u) /\ u.running = s.running /\ u.task = s.task
  BY <1>2 DEF Machine, Same
<1>5. Same(s, v) /\ v.running = FALSE
  BY <1>2 DEF Machine, Same
<1>6. Same(s, w) /\ w.running = s.running /\ w.task = s.task
  BY <1>2 DEF Machine, Same
<1> HIDE DEF u, v, w
<1>7. Typed(r) /\ Same(s, r)
  BY <1>1, <1>2, <1>3, <1>4, <1>5, <1>6 DEF Typed
<1> QED
  BY <1>7, SameCarried

LEMMA BreakCarried ==
    ASSUME NEW s, Well(s), NEW r \in BreakSp(s)
    PROVE  Carried(s, r)
<1> DEFINE u == [s EXCEPT !.onbreak = TRUE]
<1>1. r = ClearRcp(u, "SP")
  BY DEF BreakSp
<1>2. Typed(s) /\ s \in Machine
  BY SteadyFacts DEF Well
<1>3. u \in Machine
  BY <1>2 DEF Machine
<1>4. Same(s, u) /\ u.running = s.running /\ u.task = s.task
  BY <1>2 DEF Machine, Same
<1> HIDE DEF u
<1>5. Carried(s, u)
  BY <1>2, <1>3, <1>4, SameCarried DEF Typed
<1>6. Carried(u, r)
  BY <1>1, <1>5, SignalCarried DEF Carried, Devices
<1> QED
  BY <1>5, <1>6, CarriedOn

LEMMA RunCarried ==
    ASSUME NEW s, Well(s), s.task \in Tasks, NEW r \in RunSp(s)
    PROVE  Carried(s, r)
<1>1. PICK raised \in Raised(s) : r = SpTask(s, raised)
  BY DEF RunSp
<1> DEFINE gfx == s.task = "gfx"
           i == s.intr \cup raised
           u == [s EXCEPT !.intr = i, !.deferred = FALSE]
           c == UpdateCount(u)
           sp == IF "SP" \in c.intr THEN AddEvent(c, "SP", SpDelays[c.task]) ELSE c
           dp == IF gfx /\ "DP" \in c.intr THEN AddEvent(sp, "DP", SpDelays[c.task]) ELSE sp
           j == dp.intr \ (IF gfx THEN {"SP", "DP"} ELSE {"SP"})
           v == [dp EXCEPT !.intr = j]
           w == [s EXCEPT !.deferred = TRUE]
<1>2. r = IF gfx /\ s.frozen THEN w ELSE v
  BY <1>1, Zenon DEF SpTask
<1>3. raised \subseteq (IF gfx THEN {"SP", "DP"} ELSE {"SP"})
  BY DEF Raised
<1>4. Typed(s) /\ s \in Machine /\ {"SP", "DP"} \subseteq Devices
  BY SteadyFacts DEF Well, Devices
<1>5. CASE r = w
  <2>1. w \in Machine
    BY <1>4 DEF Machine
  <2>2. Same(s, w) /\ w.running = s.running /\ w.task = s.task
    BY <1>4 DEF Machine, Same
  <2> HIDE DEF w
  <2>3. Typed(w)
    BY <2>1, <2>2, <1>4 DEF Typed
  <2> QED
    BY <2>2, <2>3, <1>5, SameCarried
<1>6. CASE r = v
  <2>1. i \in SUBSET Devices
    BY ZenonT(120), <1>3, <1>4 DEF Machine
  <2>2. u \in Machine
    BY ZenonT(120), <1>4, <2>1 DEF Machine
  <2>3. Same(s, u) /\ u.running = s.running /\ u.task = s.task
    BY <1>4 DEF Machine, Same
  <2> HIDE DEF u
  <2>4. Carried(s, u) /\ Typed(u)
    BY <2>2, <2>3, <1>4, SameCarried DEF Typed
  <2>5. Carried(u, c) /\ c.task = s.task
    BY <2>3, <2>4, UpdateCarried, UpdateCountFacts DEF Carried
  <2> HIDE DEF c
  <2>6. SpDelays[c.task] \in Words /\ "SP" \in Types /\ "DP" \in Types
    BY <2>5, ChoicesAssumption DEF Types, Devices
  <2>7. Carried(c, sp)
    <3>1. sp = c \/ sp = AddEvent(c, "SP", SpDelays[c.task])
      BY Zenon
    <3> HIDE DEF sp
    <3> QED
      BY <3>1, <2>5, <2>6, EventCarried, CarriedItself DEF Carried
  <2> HIDE DEF sp
  <2>8. Carried(sp, dp)
    <3>1. dp = sp \/ dp = AddEvent(sp, "DP", SpDelays[c.task])
      BY Zenon
    <3> HIDE DEF dp
    <3> QED
      BY <3>1, <2>6, <2>7, EventCarried, CarriedItself DEF Carried
  <2> HIDE DEF dp
  <2>9. j \in SUBSET Devices
    BY <2>8, SteadyFacts DEF Machine, Carried, Well
  <2> HIDE DEF j
  <2>10. Carried(dp, v)
    BY <2>8, <2>9, IntrCarried DEF Carried
  <2> HIDE DEF v
  <2> QED
    BY <2>4, <2>5, <2>7, <2>8, <2>10, <1>6, CarriedOn
<1> HIDE DEF v, w
<1> QED
  BY <1>2, <1>5, <1>6

LEMMA SpCarried ==
    ASSUME NEW s, Well(s), NEW r \in StartSp(s) \cup Unfreeze(s)
    PROVE  Carried(s, r)
<1>1. Typed(s) /\ s \in Machine
  BY SteadyFacts DEF Well
<1>2. ASSUME NEW t \in Tasks, r \in RunSp([s EXCEPT !.running = TRUE, !.task = t])
      PROVE  Carried(s, r)
  <2> DEFINE u == [s EXCEPT !.running = TRUE, !.task = t]
  <2>1. u \in Machine
    BY <1>1 DEF Machine
  <2>2. Same(s, u) /\ u.task = t
    BY <1>1 DEF Machine, Same
  <2>3. r \in RunSp(u)
    BY <1>2
  <2> HIDE DEF u
  <2>4. Carried(s, u)
    BY <2>1, <2>2, SameCarried DEF Typed
  <2>5. Carried(u, r)
    BY <2>2, <2>3, <2>4, RunCarried DEF Carried
  <2> QED
    BY <2>4, <2>5, CarriedOn
<1>3. ASSUME r \in Unfreeze(s) PROVE Carried(s, r)
  <2> DEFINE u == [s EXCEPT !.frozen = FALSE]
  <2>1. u \in Machine
    BY <1>1 DEF Machine
  <2>2. Same(s, u) /\ u.running = s.running /\ u.task = s.task
    BY <1>1 DEF Machine, Same
  <2>3. r = u \/ (s.running /\ r \in RunSp(u))
    <3>1. (s.running /\ Unfreeze(s) = RunSp(u)) \/ Unfreeze(s) = {u}
      BY Zenon DEF Unfreeze
    <3> HIDE DEF u
    <3>2. CASE Unfreeze(s) = {u}
      BY <1>3, <3>2
    <3>3. CASE s.running /\ Unfreeze(s) = RunSp(u)
      BY <1>3, <3>3, Zenon
    <3> QED
      BY <3>1, <3>2, <3>3
  <2> HIDE DEF u
  <2>4. Carried(s, u)
    BY <2>1, <2>2, <1>1, SameCarried DEF Typed
  <2>5. CASE r = u
    BY <2>4, <2>5
  <2>6. CASE s.running /\ r \in RunSp(u)
    <3>1. u.task \in Tasks
      BY <2>2, <2>6, <1>1 DEF Typed
    <3>2. Carried(u, r)
      BY <2>4, <2>6, <3>1, RunCarried DEF Carried
    <3> QED
      BY <2>4, <3>2, CarriedOn
  <2> QED
    BY <2>3, <2>5, <2>6
<1> QED
  BY <1>2, <1>3 DEF StartSp

LEMMA EretCarried ==
    ASSUME NEW s, Well(s), NEW r \in Eret(s)
    PROVE  Carried(s, r)
<1> DEFINE c == UpdateCount(s)
           u == [c EXCEPT !.exl = FALSE, !.epc = "none"]
           a == CheckInterrupt(u)
<1>1. r \in GenIfDue(a, FALSE)
  BY DEF Eret
<1>2. Carried(s, c) /\ c.lag = 0
  BY UpdateCarried
<1> HIDE DEF c
<1>3. Typed(c) /\ c \in Machine
  BY <1>2, SteadyFacts DEF Carried, Well
<1>4. u \in Machine
  BY <1>3 DEF Machine
<1>5. Same(c, u) /\ u.running = c.running /\ u.task = c.task
  BY <1>3 DEF Machine, Same
<1> HIDE DEF u
<1>6. Carried(c, u)
  BY <1>2, <1>3, <1>4, <1>5, SameCarried DEF Typed, Carried
<1>7. Carried(u, a)
  BY <1>6, CheckCarried DEF Carried
<1> HIDE DEF a
<1>8. Carried(a, r)
  BY <1>1, <1>2, <1>6, <1>7, GenCarried DEF Carried
<1> QED
  BY <1>2, <1>6, <1>7, <1>8, CarriedOn

LEMMA StatusCarried ==
    ASSUME NEW s, Well(s), NEW r \in StoreStatus(s)
    PROVE  Carried(s, r)
<1>1. PICK w \in [ie : BOOLEAN, im : Lines] :
        r \in GenIfDue(CheckInterrupt(UpdateCount(
                [s EXCEPT !.ie = w.ie, !.exl = FALSE, !.im = w.im])), TRUE)
  BY DEF StoreStatus
<1> DEFINE u == [s EXCEPT !.ie = w.ie, !.exl = FALSE, !.im = w.im]
           c == UpdateCount(u)
           a == CheckInterrupt(c)
<1>2. Typed(s) /\ s \in Machine /\ w.ie \in BOOLEAN /\ w.im \in SUBSET {"rcp", "timer", "hw2"}
  BY SteadyFacts, ChoicesAssumption DEF Well
<1>3. u \in Machine
  BY <1>2 DEF Machine
<1>4. Same(s, u) /\ u.running = s.running /\ u.task = s.task
  BY <1>2 DEF Machine, Same
<1>5. r \in GenIfDue(a, TRUE)
  BY <1>1
<1> HIDE DEF u
<1>6. Carried(s, u)
  BY <1>2, <1>3, <1>4, SameCarried DEF Typed
<1>7. Carried(u, c) /\ c.lag = 0
  BY <1>6, UpdateCarried DEF Carried
<1> HIDE DEF c
<1>8. Carried(c, a)
  BY <1>7, CheckCarried DEF Carried
<1> HIDE DEF a
<1>9. Carried(a, r)
  BY <1>5, <1>7, <1>8, GenCarried DEF Carried
<1> QED
  BY <1>6, <1>7, <1>8, <1>9, CarriedOn


LEMMA CauseCarried ==
    ASSUME NEW s, Well(s), NEW r \in StoreCause(s) \cup Syscall(s)
    PROVE  Carried(s, r)
<1> DEFINE u == [s EXCEPT !.cause = {}]
<1>1. r = u \/ r = ExceptionGeneral(u)
  BY DEF StoreCause, Syscall
<1>2. Typed(s) /\ s \in Machine
  BY SteadyFacts DEF Well
<1>3. u \in Machine
  BY <1>2 DEF Machine
<1>4. Same(s, u) /\ u.running = s.running /\ u.task = s.task
  BY <1>2 DEF Machine, Same
<1> HIDE DEF u
<1>5. Carried(s, u)
  BY <1>2, <1>3, <1>4, SameCarried DEF Typed
<1>6. Carried(u, ExceptionGeneral(u))
  BY <1>5, ExceptionCarried DEF Carried
<1> QED
  BY <1>1, <1>5, <1>6, CarriedOn

LEMMA EffectCarried ==
    ASSUME NEW s, Well(s), NEW i \in Executed, i # "compare", NEW r \in Effect(i, s)
    PROVE  Carried(s, r)
<1>1. Performed(i, s, r)
  BY EffectOutcomes
<1>2. i \in {"mask", "pi", "si", "sinow", "ai"} => Carried(s, r)
  BY <1>1, MaskCarried, PiCarried, SiCarried, FifoCarried DEF Performed
<1>3. i \in {"cleardp", "pistatus", "sistatus", "aistatus", "vicurrent", "dpcend",
            "signalsp"} => Carried(s, r)
  BY <1>1, SignalCarried DEF Performed
<1>4. i \in {"haltsp", "breaksp", "startsp", "freeze", "unfreeze"} => Carried(s, r)
  BY <1>1, FlagsCarried, BreakCarried, SpCarried DEF Performed
<1>5. i \in {"status", "eret"} => Carried(s, r)
  BY <1>1, StatusCarried, EretCarried DEF Performed
<1>6. i \in {"cause", "syscall"} => Carried(s, r)
  BY <1>1, CauseCarried DEF Performed
<1> QED
  BY <1>2, <1>3, <1>4, <1>5, <1>6 DEF Executed

\* The end of a jump dispatches whatever an exception in its delay slot left.
LEMMA EndJumpEnds ==
    ASSUME NEW s, Well(s), NEW r \in EndJump(s)
    PROVE  Well(r) /\ r.lag = 0 /\ ~ r.slot
<1> DEFINE c == UpdateCount(s)
           u == [c EXCEPT !.slot = FALSE]
<1>1. r \in GenIfDue(u, FALSE)
  BY DEF EndJump
<1>2. Well(c) /\ c.lag = 0
  BY UpdateCarried DEF Carried
<1> HIDE DEF c
<1>3. Typed(c) /\ c \in Machine
  BY <1>2, SteadyFacts DEF Well
<1>4. u \in Machine
  BY <1>3 DEF Machine
<1>5. /\ u.queue = c.queue /\ u.next = c.next /\ u.count = c.count /\ u.lag = c.lag
      /\ u.skip = c.skip /\ u.slot = FALSE /\ u.running = c.running /\ u.task = c.task
  BY <1>3 DEF Machine
<1> HIDE DEF u
<1>6. Steady(u)
  BY <1>2, <1>3, <1>4, <1>5 DEF Well, Steady, Fits, Typed
<1>7. Timely(u) /\ Plain(u.queue) /\ u.lag = 0
  BY <1>2, <1>5 DEF Well, Timely
<1>8. u.next = u.queue[1].count \/ (u.skip /\ u.next = 0)
  BY <1>2, <1>5 DEF Well, Aimed
<1> QED
  BY <1>1, <1>5, <1>6, <1>7, <1>8, GenEnds

\* Between two instructions: every event before the marker is ahead, or due.
Orderly(s) ==
    /\ s.lag = 0 /\ ~ s.slot
    /\ s.next = s.queue[1].count
    /\ Plain(s.queue)
    /\ \A i \in Front(s.queue) : s.queue[i].count > s.count \/ Due(s, s.queue[i])

LEMMA WellIsOrderly ==
    ASSUME NEW s, Well(s), s.lag = 0, ~ s.slot
    PROVE  Orderly(s)
BY DEF Orderly, Well, Aimed, Timely, Fitting, Due

\* No event before the marker is left for so long that the code cannot tell
\* any more that it is due.
Prompt ==
    lapsed \/ Rewritten \/
        \A i \in Front(m.queue) : Due(m, m.queue[i]) =>
            \A d \in Lags \cup {0} : Diff(m.count, m.queue[i].count) + d < Near

\* When a jump to itself begins, the head is the first event to be due.
HeadFirst ==
    lapsed \/ Rewritten \/ "idle" \notin program \/
        \A d \in Lags :
            LET s == UpdateCount([m EXCEPT !.lag = d])
            IN (\E i \in Front(m.queue) : Due(s, m.queue[i])) => Due(s, m.queue[1])

LEMMA LagIsWell ==
    ASSUME Steady(m), Orderly(m), Prompt, ~ lapsed, ~ Rewritten, NEW d \in Lags \cup {0}
    PROVE  /\ Well([m EXCEPT !.lag = d]) /\ Well([m EXCEPT !.lag = d, !.slot = TRUE])
           /\ ~ [m EXCEPT !.lag = d].slot
<1> DEFINE u == [m EXCEPT !.lag = d]
           v == [m EXCEPT !.lag = d, !.slot = TRUE]
<1>1. m \in Machine /\ d \in Words /\ d < Near
  BY SteadyFacts, LinesAndLags, ChoicesAssumption, Counting
<1>2. /\ u.queue = m.queue /\ u.next = m.next /\ u.count = m.count /\ u.lag = d
      /\ u.slot = m.slot
      /\ v.queue = m.queue /\ v.next = m.next /\ v.count = m.count /\ v.lag = d
  BY <1>1 DEF Machine
<1>3. Steady(u) /\ Steady(v)
  BY <1>1, LagKeeps DEF Keeps
<1> HIDE DEF u, v
<1>4. ASSUME NEW i \in Front(m.queue)
      PROVE  Fitting(m.count, d, m.queue[i].count)
  BY <1>4 DEF Orderly, Prompt, Fitting, Due
<1>5. Timely(u) /\ Aimed(u) /\ Plain(u.queue)
  BY <1>1, <1>2, <1>4 DEF Timely, Aimed, Orderly
<1>6. Timely(v) /\ Aimed(v) /\ Plain(v.queue)
  BY <1>1, <1>2, <1>4 DEF Timely, Aimed, Orderly
<1>7. Well(u) /\ Well(v) /\ ~ u.slot
  BY <1>2, <1>3, <1>5, <1>6 DEF Well, Orderly
<1> QED
  BY <1>7 DEF u, v

\* The time that passes after the last instruction is added by the next one.
LEMMA LagDropped ==
    ASSUME NEW s, Well(s), ~ s.slot
    PROVE  Orderly([s EXCEPT !.lag = 0])
<1> DEFINE u == [s EXCEPT !.lag = 0]
<1>1. s \in Machine
  BY SteadyFacts DEF Well
<1>2. /\ u.queue = s.queue /\ u.next = s.next /\ u.count = s.count /\ u.lag = 0
      /\ u.slot = s.slot
  BY <1>1 DEF Machine
<1> HIDE DEF u
<1>3. Orderly(u)
  BY <1>2 DEF Orderly, Well, Aimed, Timely, Fitting, Due
<1> QED
  BY <1>3 DEF u

\* What is ahead by less than half the range is not behind by less.
LEMMA Ahead ==
    ASSUME NEW a \in Words, NEW b \in Words, 0 < Diff(b, a), Diff(b, a) < Half
    PROVE  ~ Diff(a, b) < Half
<1>1. /\ a \in Int /\ b \in Int /\ Half \in Int /\ Modulus = 2 * Half
      /\ 0 <= a /\ a < Modulus /\ 0 <= b /\ b < Modulus
  BY Counting DEF Words
<1>2. /\ Diff(b, a) = IF b < a THEN b - a + Modulus ELSE b - a
      /\ Diff(a, b) = IF a < b THEN a - b + Modulus ELSE a - b
  BY Differences
<1> DEFINE f == Diff(b, a)
           g == Diff(a, b)
<1>3. /\ 0 < f /\ f < Half
      /\ f = IF b < a THEN b - a + Modulus ELSE b - a
      /\ g = IF a < b THEN a - b + Modulus ELSE a - b
  BY <1>2
<1> HIDE DEF f, g
<1>4. ~ g < Half
  BY <1>1, <1>3
<1> QED
  BY <1>4 DEF g

\* The arithmetic of a jump to itself from Count c to the head p: Count n stays
\* behind every Count e ahead of c, or passes it by less than the tolerance.
LEMMA Skipping ==
    ASSUME NEW c \in Words, NEW p \in Words, NEW e \in Words, c < p, c < e,
           NEW k, k = p - c, k < Half, NEW n, n = (c + k - (k % 4)) % Modulus
    PROVE  n \in Words /\ (e > n \/ Diff(n, e) < Half)
<1>1. /\ c \in Int /\ p \in Int /\ e \in Int /\ Half \in Int /\ Modulus = 2 * Half
      /\ 0 <= c /\ p < Modulus /\ e < Modulus /\ Modulus \in Nat /\ 0 < Modulus
      /\ Words = 0 .. (Modulus - 1)
  BY Counting DEF Words
<1>2. k \in Int
  BY <1>1
<1>3. k % 4 \in Int /\ 0 <= k % 4 /\ k % 4 <= k
  BY <1>1, <1>2
<1> DEFINE y == c + k - (k % 4)
<1>4. y \in Int /\ c <= y /\ y <= p
  BY <1>1, <1>2, <1>3
<1>5. n = y % Modulus
  OBVIOUS
<1> HIDE DEF y
<1>6. -Modulus <= y /\ y < 2 * Modulus /\ 0 <= y /\ y < Modulus
  BY <1>1, <1>4
<1>7. ~ y < 0 /\ y % Modulus = IF y < 0 THEN y + Modulus
                                ELSE IF y < Modulus THEN y ELSE y - Modulus
  BY <1>1, <1>4, <1>6, Wrapping
<1>8. n = y
  BY <1>5, <1>6, <1>7, Zenon
<1>9. n \in Words
  BY <1>1, <1>4, <1>6, <1>8
<1>10. Diff(n, e) = IF n < e THEN n - e + Modulus ELSE n - e
  BY <1>9, Differences
<1>11. e > n \/ Diff(n, e) < Half
  BY <1>1, <1>4, <1>8, <1>10
<1> QED
  BY <1>9, <1>11

\* A jump to itself moves Count towards the head, and no further.
LEMMA SkipOrderly ==
    ASSUME NEW c, Well(c), c.lag = 0, ~ c.slot,
           (\E i \in Front(c.queue) : Due(c, c.queue[i])) => Due(c, c.queue[1]),
           NEW k, k = Diff(c.next, c.count), 3 < k, k < Half,
           NEW r, r = [c EXCEPT !.count = (c.count + k - (k % 4)) % Modulus]
    PROVE  Orderly(r)
<1> DEFINE n == (c.count + k - (k % 4)) % Modulus
<1>1. /\ c \in Machine /\ c.count \in Words /\ c.next \in Words
      /\ c.queue \in Seq(Events) /\ c.queue # <<>> /\ 1 \in DOMAIN c.queue
      /\ \A i \in DOMAIN c.queue : c.queue[i].count \in Words
  BY SteadyFacts, QueueOf DEF Well, Machine
<1> HIDE DEF n
<1>2. r.queue = c.queue /\ r.next = c.next /\ r.count = n /\ r.lag = 0 /\ r.slot = c.slot
  BY <1>1 DEF Machine, n
<1>3. c.next = c.queue[1].count
  BY DEF Well, Aimed
<1>4. k \in Int /\ k = IF c.next < c.count THEN c.next - c.count + Modulus
                       ELSE c.next - c.count
  BY <1>1, Differences
<1>5. ~ Due(c, c.queue[1])
  <2>1. k \in Int /\ 0 < k
    BY <1>4
  <2>2. ~ Diff(c.count, c.next) < Half
    BY <2>1, <1>1, Ahead
  <2> QED
    BY <2>2, <1>3 DEF Due
<1>6. ASSUME NEW i \in Front(c.queue)
      PROVE  c.queue[i].count > c.count
  BY <1>5, <1>6 DEF Well, Timely, Fitting, Due
<1>7. ASSUME NEW i \in Front(c.queue)
      PROVE  c.queue[i].count > n \/ Diff(n, c.queue[i].count) < Half
  <2> DEFINE x == c.queue[i].count
  <2>1. 1 \in Front(c.queue) /\ x \in Words /\ i \in DOMAIN c.queue
    BY <1>1, <1>7 DEF Front
  <2>2. c.next > c.count /\ x > c.count
    BY <2>1, <1>3, <1>6
  <2>3. k = c.next - c.count
    BY <2>2, <1>1, <1>4, Counting, SMTT(30)
  <2> DEFINE p == c.count
             q == c.next
  <2>4. /\ p \in Words /\ q \in Words /\ p < q /\ p < x /\ k = q - p
        /\ n = (p + k - (k % 4)) % Modulus
    BY <2>2, <2>3, <1>1 DEF n
  <2> HIDE DEF p, q, x
  <2>5. x \in Words
    BY <2>1
  <2>6. x > n \/ Diff(n, x) < Half
    BY <2>4, <2>5, Skipping
  <2> QED
    BY <2>6 DEF x
<1> QED
  BY <1>2, <1>3, <1>7 DEF Orderly, Well, Due

\* Every step of a program that writes neither Compare nor Count.
LEMMA NextOrderly ==
    ASSUME IndInv, Orderly(m), Prompt, HeadFirst, ~ lapsed, ~ Rewritten, Next
    PROVE  \E r : Orderly(r) /\ Becomes(r)
<1>0. Steady(m)
  BY DEF IndInv
<1>1. CASE Jump
  <2>1. PICK d \in Lags : \E s \in EndJump([m EXCEPT !.lag = d]) : Becomes(s)
    BY <1>1 DEF Jump
  <2>2. PICK s \in EndJump([m EXCEPT !.lag = d]) : Becomes(s)
    BY <2>1
  <2>3. Orderly(s)
    BY <1>0, LagIsWell, EndJumpEnds, WellIsOrderly
  <2> QED
    BY <2>2, <2>3
<1>2. CASE IdleJump
  <2>1. PICK d \in Lags : \E s \in Idle([m EXCEPT !.lag = d]) : Becomes(s)
    BY <1>2 DEF IdleJump
  <2>2. PICK r \in Idle([m EXCEPT !.lag = d]) : Becomes(r)
    BY <2>1
  <2> DEFINE u == [m EXCEPT !.lag = d]
             c == UpdateCount(u)
             k == Diff(c.next, c.count)
             v == [c EXCEPT !.count = (c.count + k - (k % 4)) % Modulus]
  <2>3. (3 < k /\ k < Half /\ r = v) \/ r \in EndJump(c)
    <3>1. (3 < k /\ k < Half /\ Idle(u) = {v}) \/ Idle(u) = EndJump(c)
      BY Zenon DEF Idle
    <3>2. r \in Idle(u)
      BY <2>2
    <3> HIDE DEF u, c, k, v
    <3> QED
      BY <3>1, <3>2
  <2>4. (\E i \in Front(m.queue) : Due(c, m.queue[i])) => Due(c, m.queue[1])
    BY <1>2 DEF HeadFirst, IdleJump
  <2>5. Well(u) /\ ~ u.slot /\ u.queue = m.queue
    BY <1>0, LagIsWell, LagKeeps, LinesAndLags
  <2> HIDE DEF u
  <2>6. Well(c) /\ c.lag = 0 /\ ~ c.slot
    BY <2>5, UpdateCarried DEF Carried
  <2>7. c.queue = m.queue
    BY <2>5, UpdateCountFacts, SteadyFacts DEF Alike, Well
  <2> HIDE DEF c
  <2>8. CASE r \in EndJump(c)
    BY <2>2, <2>6, <2>8, EndJumpEnds, WellIsOrderly
  <2>9. CASE 3 < k /\ k < Half /\ r = v
    <3>1. Orderly(r)
      BY <2>4, <2>6, <2>7, <2>9, SkipOrderly
    <3> QED
      BY <2>2, <3>1
  <2> QED
    BY <2>3, <2>8, <2>9
<1>3. CASE WriteCount
  BY <1>3 DEF WriteCount, Execute, InSlot, Rewritten
<1>4. CASE Request
  <2>1. PICK s \in ResetSoftRequested(m) \cup ResetHardRequested(m) : Becomes(s)
    BY <1>4 DEF Request
  <2>2. [m EXCEPT !.lag = 0] = m /\ m \in Machine
    <3>1. m \in Machine /\ m.lag = 0
      BY <1>0, SteadyFacts DEF Orderly
    <3> QED
      BY <3>1 DEF Machine
  <2>3. Well(m) /\ m.lag = 0 /\ ~ m.slot
    BY <2>2, <1>0, LagIsWell DEF Orderly
  <2>4. Carried(m, s)
    <3>1. s \in ResetHardRequested(m) => Carried(m, s)
      BY <2>3, FlagsCarried
    <3>2. ASSUME s \in ResetSoftRequested(m) PROVE Carried(m, s)
      <4> DEFINE a == AddEvent(m, "HW2", 0)
      <4>1. s = AddEvent(a, "NMI", ResetDelay)
        BY <3>2 DEF ResetSoftRequested
      <4>2. 0 \in Words /\ ResetDelay \in Words /\ "HW2" \in Types /\ "NMI" \in Types
        BY Constants, ChoicesAssumption DEF Types
      <4>3. Carried(m, a)
        BY <2>3, <4>2, EventCarried
      <4> HIDE DEF a
      <4>4. Carried(a, s)
        BY <4>1, <4>2, <4>3, EventCarried DEF Carried
      <4> QED
        BY <4>3, <4>4, CarriedOn
    <3> QED
      BY <3>1, <3>2
  <2>5. Orderly(s)
    BY <2>3, <2>4, WellIsOrderly DEF Carried
  <2> QED
    BY <2>1, <2>5
<1>5. ASSUME NEW i \in Executed, Execute(i)
      PROVE  \E r : Orderly(r) /\ Becomes(r)
  <2>1. PICK d \in Lags : \E s \in Effect(i, [m EXCEPT !.lag = d]) :
                             Becomes([s EXCEPT !.lag = 0])
    BY <1>5 DEF Execute
  <2> DEFINE u == [m EXCEPT !.lag = d]
  <2>2. PICK s \in Effect(i, u) : Becomes([s EXCEPT !.lag = 0])
    BY <2>1
  <2>3. Well(u) /\ ~ u.slot
    BY <1>0, LagIsWell
  <2> HIDE DEF u
  <2>4. i # "compare"
    BY <1>5 DEF Execute, Rewritten
  <2>5. Carried(u, s)
    BY <2>3, <2>4, EffectCarried
  <2>6. Orderly([s EXCEPT !.lag = 0])
    BY <2>3, <2>5, LagDropped DEF Carried
  <2> QED
    BY <2>2, <2>6
<1>6. ASSUME NEW i \in Executed, InSlot(i)
      PROVE  \E r : Orderly(r) /\ Becomes(r)
  <2>1. PICK d \in Lags : \E s \in Effect(i, [m EXCEPT !.lag = d, !.slot = TRUE]) :
                             \E e \in EndJump(s) : Becomes(e)
    BY <1>6 DEF InSlot
  <2> DEFINE u == [m EXCEPT !.lag = d, !.slot = TRUE]
  <2>2. PICK s \in Effect(i, u) : \E e \in EndJump(s) : Becomes(e)
    BY <2>1
  <2>3. PICK e \in EndJump(s) : Becomes(e)
    BY <2>2
  <2>4. Well(u)
    BY <1>0, LagIsWell
  <2> HIDE DEF u
  <2>5. i # "compare"
    BY <1>6 DEF InSlot, Rewritten
  <2>6. Well(s)
    BY <2>4, <2>5, EffectCarried DEF Carried
  <2>7. Orderly(e)
    BY <2>6, EndJumpEnds, WellIsOrderly
  <2> QED
    BY <2>3, <2>7
<1>7. \/ Jump \/ IdleJump \/ WriteCount \/ Request
      \/ \E i \in Executed : Execute(i) \/ InSlot(i)
  BY DEF Next, Executed, Instruction, ReturnFromException
<1> QED
  BY <1>1, <1>2, <1>3, <1>4, <1>5, <1>6, <1>7

LEMMA InitOrderly == Init => Orderly(m)
<1> DEFINE s == [count |-> 0, lag |-> 0, compare |-> 0, queue |-> <<>>,
               next |-> 0, done |-> TRUE, ie |-> FALSE, exl |-> FALSE,
               epc |-> "none", im |-> {}, cause |-> {}, intr |-> {},
               mask |-> {}, slot |-> FALSE, skip |-> FALSE, pi |-> FALSE,
               ai |-> 0, vi |-> 0, running |-> FALSE, onbreak |-> FALSE,
               task |-> "other", frozen |-> FALSE, deferred |-> FALSE,
               job |-> FALSE]
<1>1. PowerOn = ResetHard(s)
  BY Zenon DEF PowerOn
<1>2. s \in Machine /\ s.running = FALSE /\ s.slot = FALSE
  BY Constants DEF Machine
<1> HIDE DEF s
<1>3. Typed(s)
  BY <1>2 DEF Typed
<1>4. PICK u : /\ Cleared(u) /\ ResetHard(s) = InitInterrupt(u)
               /\ u.count = BootCount /\ u.slot = s.slot
  BY <1>3, ResetHardStarts
<1>5. u.count <= Near
  BY <1>4, Counting
<1>6. Well(PowerOn) /\ PowerOn.lag = 0 /\ ~ PowerOn.slot
  BY <1>1, <1>2, <1>4, <1>5, InitWell
<1> QED
  BY <1>6, WellIsOrderly DEF Init

\* No device's event is dispatched before its time, whatever is queued,
\* dispatched or reset and wherever Count wraps around, if the program takes
\* its interrupts before the code can no longer tell that they are due.
THEOREM NothingIsEarly == Spec /\ []Prompt /\ []HeadFirst => []NeverEarly
<1> DEFINE Inv == lapsed \/ Rewritten \/ (IndInv /\ Orderly(m))
<1>1. Init => Inv
  BY InitIndInv, InitOrderly
<1>2. Inv /\ Prompt /\ HeadFirst /\ [Next]_vars => Inv'
  <2> SUFFICES ASSUME Inv, Prompt, HeadFirst, [Next]_vars, ~ lapsed', ~ Rewritten'
               PROVE  IndInv' /\ Orderly(m)'
    OBVIOUS
  <2>1. ~ lapsed /\ ~ Rewritten
    <3>1. lapsed => lapsed'
      <4>1. \A r : Becomes(r) => (lapsed => lapsed')
        BY DEF Becomes
      <4>2. \A i : Execute(i) \/ InSlot(i) => (lapsed => lapsed')
        BY <4>1 DEF Execute, InSlot
      <4>3. Next => (lapsed => lapsed')
        BY <4>1, <4>2 DEF Next, Jump, IdleJump, WriteCount, Request, Instruction,
           ReturnFromException
      <4> QED
        BY <4>3 DEF vars
    <3> QED
      BY <3>1, ProgramStays DEF Rewritten
  <2>2. IndInv /\ Orderly(m) /\ IndInv'
    BY <2>1, NextIndInv DEF MarkerFits, Rewritten
  <2>3. CASE UNCHANGED vars
    BY <2>2, <2>3 DEF vars
  <2>4. CASE Next
    <3>1. PICK r : Orderly(r) /\ Becomes(r)
      BY <2>1, <2>2, <2>4, NextOrderly
    <3> QED
      BY <2>2, <3>1 DEF Becomes
  <2> QED
    BY <2>2, <2>3, <2>4
<1>3. Inv => NeverEarly
  <2> SUFFICES ASSUME IndInv, Orderly(m), m.next <= m.count,
                      FirstEvent(m).type # "SPECIAL"
               PROVE  Due(m, FirstEvent(m))
    BY DEF NeverEarly
  <2>1. /\ m.queue \in Seq(Events) /\ m.queue # <<>> /\ m.count \in Words
        /\ m.queue[1].count \in Words
    BY SteadyFacts, QueueOf DEF IndInv
  <2>2. 1 \in Front(m.queue)
    BY <2>1 DEF Front, FirstEvent
  <2>3. ~ m.queue[1].count > m.count
    BY <2>1, Counting DEF Orderly
  <2> QED
    BY <2>2, <2>3 DEF Orderly, FirstEvent
<1> QED
  BY <1>1, <1>2, <1>3, PTL DEF Spec
=============================================================================
