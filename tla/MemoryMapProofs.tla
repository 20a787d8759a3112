-------------------------- MODULE MemoryMapProofs --------------------------
(***************************************************************************)
(* That the dispatch tables and the breakpoints agree, for every number of *)
(* regions, breakpoints and frame buffers.  The argument is about single   *)
(* commands: Agree(t, m) says the tables are right for the map m; every    *)
(* command keeps it for the same m, and map_region changes m.              *)
(***************************************************************************)
EXTENDS MemoryMap, TLAPS

Straight(b) == b \in Breakpoint /\ b.address <= b.endaddr
Sound(t) == t \in Tables /\ \A i \in Slots : Straight(t.bp[i])
Maps == [Kinds -> [Regions -> Handlers]]

Agree(t, m) ==
    \A k \in Kinds, r \in Regions :
        IF Covered(t, k, r) THEN t.mem[k][r] = Checked /\ t.saved[k][r] = m[k][r]
                            ELSE t.mem[k][r] = m[k][r] /\ t.saved[k][r] = NULL

\* the map the machine means to have
Meant == [k \in Kinds |-> [r \in Regions |->
             Mapped(IF emulation = "task" THEN NoInfos ELSE infos, k, r)]]

\* slot i watches region r for accesses of kind k
Watches(b, k, r) == {"ENABLED", k} \subseteq b.flags /\ r \in Visited(b)

-----------------------------------------------------------------------------
(* Regions and breakpoints.                                                *)

LEMMA Division ==
    ASSUME NEW a \in Nat, NEW d \in Nat \ {0}
    PROVE  /\ a \div d \in Nat
           /\ (a \div d) * d <= a
           /\ a < (a \div d) * d + d
  BY Z3

LEMMA Scaling ==
    ASSUME NEW x \in Nat, NEW y \in Nat, NEW d \in Nat \ {0}
    PROVE  /\ x <= y => x * d <= y * d
           /\ x < y => x * d + d <= y * d
  BY Z3

LEMMA OverlapIsVisit ==
    ASSUME NEW b, Straight(b), NEW r \in Nat
    PROVE  Overlaps(b, r * RegionSize, r * RegionSize + RegionSize - 1)
             <=> r \in Visited(b)
<1> DEFINE p == b.address \div RegionSize
           q == b.endaddr \div RegionSize
<1>1. b.address \in Nat /\ b.endaddr \in Nat /\ b.address <= b.endaddr
  BY DEF Straight, Breakpoint, GuestAddress
<1>2. RegionSize \in Nat \ {0} BY SizesAssumption
<1>3. /\ p \in Nat /\ p * RegionSize <= b.address
      /\ b.address < p * RegionSize + RegionSize
  BY <1>1, <1>2, Division
<1>4. /\ q \in Nat /\ q * RegionSize <= b.endaddr
      /\ b.endaddr < q * RegionSize + RegionSize
  BY <1>1, <1>2, Division
<1> HIDE DEF p, q
<1>5. /\ r * RegionSize \in Nat /\ p * RegionSize \in Nat /\ q * RegionSize \in Nat
  BY <1>2, <1>3, <1>4
<1>6. /\ p <= r => p * RegionSize <= r * RegionSize
      /\ r < p => r * RegionSize + RegionSize <= p * RegionSize
  BY <1>2, <1>3, Scaling
<1>7. /\ r <= q => r * RegionSize <= q * RegionSize
      /\ q < r => q * RegionSize + RegionSize <= r * RegionSize
  BY <1>2, <1>4, Scaling
<1>8. Overlaps(b, r * RegionSize, r * RegionSize + RegionSize - 1)
        <=> /\ r * RegionSize + RegionSize - 1 >= b.address
            /\ r * RegionSize <= b.endaddr
  BY <1>1 DEF Overlaps
<1>9. r \in Visited(b) <=> p <= r /\ r <= q
  BY <1>3, <1>4 DEF Visited, p, q
<1> QED BY <1>1, <1>2, <1>3, <1>4, <1>5, <1>6, <1>7, <1>8, <1>9

LEMMA CoveredIsWatched ==
    ASSUME NEW t, Sound(t), NEW k \in Kinds, NEW r \in Regions
    PROVE  Covered(t, k, r) <=> \E i \in 0 .. t.num - 1 : Watches(t.bp[i], k, r)
<1>1. 0 .. t.num - 1 \subseteq Slots
  BY SizesAssumption DEF Sound, Tables, Slots
<1>2. r \in Nat BY SizesAssumption
<1>3. \A i \in 0 .. t.num - 1 :
         Overlaps(t.bp[i], r * RegionSize, r * RegionSize + RegionSize - 1)
           <=> r \in Visited(t.bp[i])
  BY <1>1, <1>2, OverlapIsVisit DEF Sound
<1> QED BY <1>3 DEF Covered, Lookup, Matches, Watches

-----------------------------------------------------------------------------
(* The commands.                                                           *)

\* Enabling slot i, of a live entry or of one about to be counted.
LEMMA EnableKeeps ==
    ASSUME NEW t, Sound(t), NEW m \in Maps, Agree(t, m), NEW i \in Slots,
           NEW n \in 0 .. MaxBreakpoints,
           \/ i < t.num /\ n = t.num
           \/ i = t.num /\ n = t.num + 1
    PROVE  Sound(WithCount(Enable(t, i), n))
           /\ Agree(WithCount(Enable(t, i), n), m)
<1> DEFINE w == WithCount(Enable(t, i), n)
           wbp == [t.bp EXCEPT ![i] = WithFlags(t.bp[i], t.bp[i].flags \cup {"ENABLED"})]
           R == Uncovered(t, i)
           wmem == [k \in Kinds |-> [r \in Regions |->
                      IF r \in R[k] /\ t.saved[k][r] = NULL
                      THEN Checked ELSE t.mem[k][r]]]
           wsaved == [k \in Kinds |-> [r \in Regions |->
                      IF r \in R[k] /\ t.saved[k][r] = NULL
                      THEN t.mem[k][r] ELSE t.saved[k][r]]]
<1>1. t \in Tables /\ \A j \in Slots : Straight(t.bp[j])
  BY SMTT(60) DEF Sound
<1>2. /\ w = [bp |-> wbp, num |-> n, mem |-> wmem, saved |-> wsaved]
      /\ w.bp = wbp /\ w.num = n /\ w.mem = wmem /\ w.saved = wsaved
  BY DEF Enable, Activate, SetFlags, WithBreakpoint, WithCount
<1> HIDE DEF w
<1>3. \A j \in Slots : Straight(wbp[j])
  BY <1>1 DEF Straight, Breakpoint, Tables, Flags, WithFlags
<1>4. wbp \in [Slots -> Breakpoint]
  BY <1>1 DEF Tables, Breakpoint, Flags, WithFlags
<1>5. \A k \in Kinds, r \in Regions :
         Covered(t, k, r) \/ r \in R[k] => wmem[k][r] = Checked /\ wsaved[k][r] = m[k][r]
  BY DEF Agree, Uncovered
<1>6. \A k \in Kinds, r \in Regions :
         ~ (Covered(t, k, r) \/ r \in R[k]) =>
            wmem[k][r] = m[k][r] /\ wsaved[k][r] = NULL
  BY DEF Agree
<1>7. Sound(w)
  <2>1. \A k \in Kinds, r \in Regions : m[k][r] \in Handlers
    BY DEF Maps
  <2>2. wmem \in [Kinds -> [Regions -> Handlers \cup {Checked}]]
    BY <1>5, <1>6, <2>1
  <2>3. wsaved \in [Kinds -> [Regions -> Handlers \cup {NULL}]]
    BY <1>5, <1>6, <2>1
  <2> HIDE DEF wbp, wmem, wsaved
  <2>4. w \in Tables
    BY <1>2, <1>4, <2>2, <2>3 DEF Tables
  <2> QED BY <1>2, <1>3, <2>4 DEF Sound
<1>8. ASSUME NEW k \in Kinds, NEW r \in Regions
      PROVE  Covered(w, k, r) <=> Covered(t, k, r) \/ r \in R[k]
  <2>1. Covered(w, k, r) <=> \E j \in 0 .. n - 1 : Watches(wbp[j], k, r)
    <3> HIDE DEF wbp
    <3>1. Covered(w, k, r) <=> \E j \in 0 .. w.num - 1 : Watches(w.bp[j], k, r)
      BY <1>7, CoveredIsWatched
    <3> QED BY <3>1, <1>2
  <2>2. Covered(t, k, r) <=> \E j \in 0 .. t.num - 1 : Watches(t.bp[j], k, r)
    BY CoveredIsWatched
  <2>3. t.num \in 0 .. MaxBreakpoints /\ 0 .. n - 1 \subseteq Slots /\ i \in 0 .. n - 1
    BY <1>1, SizesAssumption DEF Tables, Slots
  <2>4. \A j \in 0 .. n - 1 : j # i => j \in 0 .. t.num - 1 /\ wbp[j] = t.bp[j]
    BY <1>1, <2>3 DEF Tables, Slots
  <2>5. \A j \in 0 .. t.num - 1 : j \in 0 .. n - 1
    BY <2>3
  <2>6. /\ wbp[i].flags = t.bp[i].flags \cup {"ENABLED"}
        /\ Visited(wbp[i]) = Visited(t.bp[i])
    BY <1>1 DEF Tables, Breakpoint, Visited, WithFlags
  <2>7. r \in R[k] <=> r \in Visited(t.bp[i]) /\ k \in t.bp[i].flags /\ ~ Covered(t, k, r)
    BY DEF Uncovered
  <2>8. Watches(wbp[i], k, r) <=> r \in Visited(t.bp[i]) /\ k \in t.bp[i].flags
    BY <2>6 DEF Watches, Kinds
  <2>9. Watches(t.bp[i], k, r) => Watches(wbp[i], k, r)
    BY <2>6 DEF Watches
  <2> HIDE DEF wbp, R
  <2>10. Covered(w, k, r) => Covered(t, k, r) \/ r \in R[k]
    BY <2>1, <2>2, <2>4, <2>7, <2>8
  <2>11. Covered(t, k, r) => Covered(w, k, r)
    BY <2>1, <2>2, <2>4, <2>5, <2>9
  <2>12. r \in R[k] => Covered(w, k, r)
    BY <2>1, <2>3, <2>7, <2>8
  <2> QED BY <2>10, <2>11, <2>12
<1>9. Agree(w, m)
  <2> HIDE DEF wbp, wmem, wsaved, R
  <2> QED BY <1>2, <1>5, <1>6, <1>8 DEF Agree
<1> QED BY <1>7, <1>9 DEF w

LEMMA EnableLive ==
    ASSUME NEW t, Sound(t), NEW m \in Maps, Agree(t, m), NEW i \in 0 .. t.num - 1
    PROVE  Sound(Enable(t, i)) /\ Agree(Enable(t, i), m)
<1>1. t \in Tables /\ i \in Slots /\ t.num \in 0 .. MaxBreakpoints
  BY SizesAssumption DEF Sound, Tables, Slots
<1>2. WithCount(Enable(t, i), t.num) = Enable(t, i)
  BY <1>1 DEF Enable, Activate, SetFlags, WithBreakpoint, WithCount, Tables
<1>3. i < t.num
  BY <1>1
<1> QED BY <1>1, <1>2, <1>3, EnableKeeps

LEMMA DisableKeeps ==
    ASSUME NEW t, Sound(t), NEW m \in Maps, Agree(t, m), NEW i \in 0 .. t.num - 1
    PROVE  /\ Sound(Disable(t, i)) /\ Agree(Disable(t, i), m)
           /\ Disable(t, i).num = t.num
           /\ "ENABLED" \notin Disable(t, i).bp[i].flags
<1> DEFINE u == SetFlags(t, i, t.bp[i].flags \ {"ENABLED"})
           ubp == [t.bp EXCEPT ![i] = WithFlags(t.bp[i], t.bp[i].flags \ {"ENABLED"})]
           R == Uncovered(u, i)
           w == Disable(t, i)
           wmem == [k \in Kinds |-> [r \in Regions |->
                      IF r \in R[k] /\ t.saved[k][r] # NULL
                      THEN t.saved[k][r] ELSE t.mem[k][r]]]
           wsaved == [k \in Kinds |-> [r \in Regions |->
                      IF r \in R[k] THEN NULL ELSE t.saved[k][r]]]
<1>1. t \in Tables /\ (\A j \in Slots : Straight(t.bp[j])) /\ i \in Slots
      /\ 0 .. t.num - 1 \subseteq Slots
  BY SizesAssumption DEF Sound, Tables, Slots
<1>2. /\ u = [bp |-> ubp, num |-> t.num, mem |-> t.mem, saved |-> t.saved]
      /\ u.bp = ubp /\ u.num = t.num /\ u.mem = t.mem /\ u.saved = t.saved
  BY DEF SetFlags, WithBreakpoint
<1>3. /\ w = [bp |-> ubp, num |-> t.num, mem |-> wmem, saved |-> wsaved]
      /\ w.bp = ubp /\ w.num = t.num /\ w.mem = wmem /\ w.saved = wsaved
  <2>1. w = Deactivate(u, R)
    BY DEF Disable
  <2> HIDE DEF u, w, R, ubp
  <2> QED BY <1>2, <2>1 DEF Deactivate
<1> HIDE DEF u, w
<1>4. /\ \A j \in Slots : Straight(ubp[j])
      /\ ubp \in [Slots -> Breakpoint]
  BY <1>1 DEF Straight, Breakpoint, Tables, Flags, WithFlags
<1>5. Sound(u)
  <2> HIDE DEF ubp
  <2> QED BY <1>1, <1>2, <1>4 DEF Sound, Tables
<1>6. ASSUME NEW k \in Kinds, NEW r \in Regions
      PROVE  Covered(t, k, r) => Covered(u, k, r) \/ r \in R[k]
  <2>1. Covered(u, k, r) <=> \E j \in 0 .. t.num - 1 : Watches(ubp[j], k, r)
    <3> HIDE DEF ubp
    <3>1. Covered(u, k, r) <=> \E j \in 0 .. u.num - 1 : Watches(u.bp[j], k, r)
      BY <1>5, CoveredIsWatched
    <3> QED BY <3>1, <1>2
  <2>2. Covered(t, k, r) <=> \E j \in 0 .. t.num - 1 : Watches(t.bp[j], k, r)
    BY CoveredIsWatched
  <2>3. \A j \in 0 .. t.num - 1 : j # i => ubp[j] = t.bp[j]
    BY <1>1 DEF Tables
  <2>4. Watches(t.bp[i], k, r) => r \in Visited(ubp[i]) /\ k \in ubp[i].flags
    BY <1>1 DEF Watches, Visited, Tables, Breakpoint, Kinds, WithFlags
  <2>5. u.bp[i] = ubp[i]
    BY <1>2
  <2>6. r \in R[k] <=> r \in Visited(ubp[i]) /\ k \in ubp[i].flags /\ ~ Covered(u, k, r)
    BY <2>5 DEF Uncovered
  <2> HIDE DEF ubp, R
  <2> QED BY <2>1, <2>2, <2>3, <2>4, <2>6
<1>7. ASSUME NEW k \in Kinds, NEW r \in Regions
      PROVE  Covered(u, k, r) => Covered(t, k, r)
  <2>1. Covered(u, k, r) <=> \E j \in 0 .. t.num - 1 : Watches(ubp[j], k, r)
    <3> HIDE DEF ubp
    <3>1. Covered(u, k, r) <=> \E j \in 0 .. u.num - 1 : Watches(u.bp[j], k, r)
      BY <1>5, CoveredIsWatched
    <3> QED BY <3>1, <1>2
  <2>2. Covered(t, k, r) <=> \E j \in 0 .. t.num - 1 : Watches(t.bp[j], k, r)
    BY CoveredIsWatched
  <2>3. \A j \in 0 .. t.num - 1 : j # i => ubp[j] = t.bp[j]
    BY <1>1 DEF Tables
  <2>4. "ENABLED" \notin ubp[i].flags
    BY <1>1 DEF Tables, Breakpoint, WithFlags
  <2> HIDE DEF ubp
  <2>5. ~ Watches(ubp[i], k, r)
    BY <2>4 DEF Watches
  <2> QED BY <2>1, <2>2, <2>3, <2>5
<1>8. ASSUME NEW k \in Kinds, NEW r \in Regions
      PROVE  r \in R[k] => ~ Covered(u, k, r)
  BY DEF Uncovered
<1> HIDE DEF ubp
<1>9. \A k \in Kinds, r \in Regions : Covered(w, k, r) <=> Covered(u, k, r)
  BY <1>2, <1>3 DEF Covered, Lookup, Matches
<1>10. \A k \in Kinds, r \in Regions :
          IF Covered(u, k, r) THEN wmem[k][r] = Checked /\ wsaved[k][r] = m[k][r]
                              ELSE wmem[k][r] = m[k][r] /\ wsaved[k][r] = NULL
  <2> TAKE k \in Kinds, r \in Regions
  <2> HIDE DEF R
  <2>1. m[k][r] # NULL /\ m[k][r] # Checked
    BY HandlersAssumption DEF Maps
  <2> QED BY <1>6, <1>7, <1>8, <2>1 DEF Agree
<1>11. Agree(w, m)
  <2> HIDE DEF R, wmem, wsaved
  <2> QED BY <1>3, <1>9, <1>10 DEF Agree
<1>12. Sound(w)
  <2>1. \A k \in Kinds, r \in Regions : m[k][r] \in Handlers
    BY DEF Maps
  <2>2. wmem \in [Kinds -> [Regions -> Handlers \cup {Checked}]]
    BY <1>10, <2>1
  <2>3. wsaved \in [Kinds -> [Regions -> Handlers \cup {NULL}]]
    BY <1>10, <2>1
  <2>4. w \in Tables
    BY <1>1, <1>3, <1>4, <2>2, <2>3 DEF Tables
  <2>5. w.bp = ubp
    BY <1>3
  <2> HIDE DEF w, ubp
  <2> QED BY <1>4, <2>4, <2>5 DEF Sound
<1>13. w.num = t.num /\ "ENABLED" \notin w.bp[i].flags
  <2>1. "ENABLED" \notin ubp[i].flags
    BY <1>1 DEF Tables, Breakpoint, WithFlags, ubp
  <2> QED BY <1>3, <2>1
<1> QED BY <1>11, <1>12, <1>13 DEF w

LEMMA DisableIfEnabledKeeps ==
    ASSUME NEW t, Sound(t), NEW m \in Maps, Agree(t, m), NEW i \in 0 .. t.num - 1
    PROVE  /\ Sound(DisableIfEnabled(t, i)) /\ Agree(DisableIfEnabled(t, i), m)
           /\ DisableIfEnabled(t, i).num = t.num
           /\ "ENABLED" \notin DisableIfEnabled(t, i).bp[i].flags
<1>1. CASE "ENABLED" \in t.bp[i].flags
  BY <1>1, DisableKeeps DEF DisableIfEnabled
<1>2. CASE "ENABLED" \notin t.bp[i].flags
  BY <1>2 DEF DisableIfEnabled
<1> QED BY <1>1, <1>2

\* Writing an entry that is not counted, or is not enabled before and after,
\* changes nothing the tables depend on.
LEMMA IdleEntryKeeps ==
    ASSUME NEW t, Sound(t), NEW m \in Maps, Agree(t, m), NEW i \in Slots,
           NEW b, Straight(b), NEW n \in 0 .. MaxBreakpoints,
           \/ i = t.num /\ n = t.num
           \/ i = t.num /\ n = t.num + 1 /\ "ENABLED" \notin b.flags
           \/ /\ i < t.num /\ n = t.num
              /\ "ENABLED" \notin t.bp[i].flags /\ "ENABLED" \notin b.flags
    PROVE  /\ Sound(WithCount(WithBreakpoint(t, i, b), n))
           /\ Agree(WithCount(WithBreakpoint(t, i, b), n), m)
<1> DEFINE w == WithCount(WithBreakpoint(t, i, b), n)
           wbp == [t.bp EXCEPT ![i] = b]
<1>1. t \in Tables /\ \A j \in Slots : Straight(t.bp[j])
  BY DEF Sound
<1>2. /\ w = [bp |-> wbp, num |-> n, mem |-> t.mem, saved |-> t.saved]
      /\ w.bp = wbp /\ w.num = n /\ w.mem = t.mem /\ w.saved = t.saved
  BY DEF WithBreakpoint, WithCount
<1> HIDE DEF w
<1>3. /\ wbp \in [Slots -> Breakpoint] /\ wbp[i] = b
      /\ \A j \in Slots : j # i => wbp[j] = t.bp[j]
  BY <1>1 DEF Tables, Straight
<1> HIDE DEF wbp
<1>4. \A j \in Slots : Straight(wbp[j])
  BY <1>1, <1>3
<1>5. Sound(w)
  BY <1>1, <1>2, <1>3, <1>4 DEF Sound, Tables
<1>6. ASSUME NEW k \in Kinds, NEW r \in Regions
      PROVE  Covered(w, k, r) <=> Covered(t, k, r)
  <2>1. Covered(w, k, r) <=> \E j \in 0 .. n - 1 : Watches(wbp[j], k, r)
    BY <1>2, <1>5, CoveredIsWatched
  <2>2. Covered(t, k, r) <=> \E j \in 0 .. t.num - 1 : Watches(t.bp[j], k, r)
    BY CoveredIsWatched
  <2>3. /\ t.num \in 0 .. MaxBreakpoints /\ 0 .. n - 1 \subseteq Slots
        /\ 0 .. t.num - 1 \subseteq 0 .. n - 1
    BY <1>1, SizesAssumption DEF Tables, Slots
  <2>4. i \in 0 .. n - 1 => "ENABLED" \notin b.flags
    BY <2>3
  <2>5. i \in 0 .. t.num - 1 => "ENABLED" \notin t.bp[i].flags
    BY <2>3
  <2>6. \A j \in 0 .. n - 1 : j # i => j \in 0 .. t.num - 1
    BY <2>3 DEF Slots
  <2> QED BY <1>3, <2>1, <2>2, <2>3, <2>4, <2>5, <2>6 DEF Watches
<1>7. Agree(w, m)
  BY <1>2, <1>6 DEF Agree
<1> QED BY <1>5, <1>7 DEF w

LEMMA AddAddressKeeps ==
    ASSUME NEW t, Sound(t), NEW m \in Maps, Agree(t, m), t.num < MaxBreakpoints,
           NEW a \in GuestAddress
    PROVE  Sound(AddAddress(t, a)) /\ Agree(AddAddress(t, a), m)
<1> DEFINE b == [address |-> a, endaddr |-> a,
                 flags |-> t.bp[t.num].flags \cup {"EXEC"}]
           u == WithBreakpoint(t, t.num, b)
<1>1. t \in Tables /\ t.num \in Slots /\ t.num + 1 \in 0 .. MaxBreakpoints
      /\ t.num \in 0 .. MaxBreakpoints
  BY SizesAssumption DEF Sound, Tables, Slots
<1>2. Straight(b)
  BY <1>1 DEF Straight, Breakpoint, Tables, Flags, GuestAddress
<1> HIDE DEF b
<1>3. u.num = t.num /\ Sound(u) /\ Agree(u, m)
  <2>1. Sound(WithCount(u, t.num)) /\ Agree(WithCount(u, t.num), m)
    BY <1>1, <1>2, IdleEntryKeeps
  <2>2. WithCount(u, t.num) = u /\ u.num = t.num
    BY DEF WithCount, WithBreakpoint
  <2> QED BY <2>1, <2>2
<1> HIDE DEF u
<1>4. /\ Sound(WithCount(Enable(u, t.num), t.num + 1))
      /\ Agree(WithCount(Enable(u, t.num), t.num + 1), m)
  BY <1>1, <1>3, EnableKeeps
<1> QED BY <1>4 DEF AddAddress, u, b

LEMMA AddStructKeeps ==
    ASSUME NEW t, Sound(t), NEW m \in Maps, Agree(t, m), t.num < MaxBreakpoints,
           NEW b, Straight(b)
    PROVE  Sound(AddStruct(t, b)) /\ Agree(AddStruct(t, b), m)
<1> DEFINE c == WithFlags(b, b.flags \ {"ENABLED"})
           u == WithBreakpoint(t, t.num, c)
<1>1. t \in Tables /\ t.num \in Slots /\ t.num + 1 \in 0 .. MaxBreakpoints
      /\ t.num \in 0 .. MaxBreakpoints
  BY SizesAssumption DEF Sound, Tables, Slots
<1>2. Straight(c) /\ "ENABLED" \notin c.flags
  BY DEF Straight, Breakpoint, WithFlags
<1> HIDE DEF c
<1>3. u.num = t.num /\ Sound(u) /\ Agree(u, m)
  <2>1. Sound(WithCount(u, t.num)) /\ Agree(WithCount(u, t.num), m)
    BY <1>1, <1>2, IdleEntryKeeps
  <2>2. WithCount(u, t.num) = u /\ u.num = t.num
    BY DEF WithCount, WithBreakpoint
  <2> QED BY <2>1, <2>2
<1>4. Sound(WithCount(u, t.num + 1)) /\ Agree(WithCount(u, t.num + 1), m)
  BY <1>1, <1>2, IdleEntryKeeps
<1> HIDE DEF u
<1>5. /\ Sound(WithCount(Enable(u, t.num), t.num + 1))
      /\ Agree(WithCount(Enable(u, t.num), t.num + 1), m)
  BY <1>1, <1>3, EnableKeeps
<1>6. AddStruct(t, b) = WithCount(IF "ENABLED" \in b.flags
                                  THEN Enable(u, t.num) ELSE u, t.num + 1)
  BY DEF AddStruct, Install, u, c
<1> QED BY <1>4, <1>5, <1>6

LEMMA ReplaceKeeps ==
    ASSUME NEW t, Sound(t), NEW m \in Maps, Agree(t, m), NEW i \in 0 .. t.num - 1,
           NEW b, Straight(b)
    PROVE  Sound(Replace(t, i, b)) /\ Agree(Replace(t, i, b), m)
<1> DEFINE d == DisableIfEnabled(t, i)
           c == WithFlags(b, b.flags \ {"ENABLED"})
           u == WithBreakpoint(d, i, c)
<1>1. t.num \in 0 .. MaxBreakpoints /\ i \in Slots /\ i < t.num
  BY SizesAssumption DEF Sound, Tables, Slots
<1>2. Straight(c) /\ "ENABLED" \notin c.flags
  BY DEF Straight, Breakpoint, WithFlags
<1>3. Sound(d) /\ Agree(d, m) /\ d.num = t.num /\ "ENABLED" \notin d.bp[i].flags
  BY DisableIfEnabledKeeps
<1> HIDE DEF c, d
<1>4. u.num = t.num /\ Sound(u) /\ Agree(u, m)
  <2>1. Sound(WithCount(u, d.num)) /\ Agree(WithCount(u, d.num), m)
    BY <1>1, <1>2, <1>3, IdleEntryKeeps
  <2>2. WithCount(u, d.num) = u /\ u.num = d.num
    BY DEF WithCount, WithBreakpoint
  <2> QED BY <1>3, <2>1, <2>2
<1> HIDE DEF u
<1>5. Sound(Enable(u, i)) /\ Agree(Enable(u, i), m)
  BY <1>1, <1>4, EnableLive
<1>6. Replace(t, i, b) = IF "ENABLED" \in b.flags THEN Enable(u, i) ELSE u
  BY DEF Replace, Install, u, c, d
<1> QED BY <1>4, <1>5, <1>6

LEMMA RemoveKeeps ==
    ASSUME NEW t, Sound(t), NEW m \in Maps, Agree(t, m), NEW i \in 0 .. t.num - 1
    PROVE  Sound(RemoveSlot(t, i)) /\ Agree(RemoveSlot(t, i), m)
<1> DEFINE d == DisableIfEnabled(t, i)
           w == RemoveSlot(t, i)
           wbp == [j \in Slots |-> IF j >= i /\ j < t.num - 1
                                   THEN d.bp[j + 1] ELSE d.bp[j]]
<1>1. /\ t.num \in 1 .. MaxBreakpoints /\ i \in Slots /\ i < t.num
      /\ 0 .. t.num - 1 \subseteq Slots
  BY SizesAssumption DEF Sound, Tables, Slots
<1>2. Sound(d) /\ Agree(d, m) /\ d.num = t.num /\ "ENABLED" \notin d.bp[i].flags
  BY DisableIfEnabledKeeps
<1>3. /\ w = [bp |-> wbp, num |-> t.num - 1, mem |-> d.mem, saved |-> d.saved]
      /\ w.bp = wbp /\ w.num = t.num - 1 /\ w.mem = d.mem /\ w.saved = d.saved
  BY DEF RemoveSlot
<1> HIDE DEF d, w
<1>4. d \in Tables /\ \A j \in Slots : Straight(d.bp[j])
  BY <1>2 DEF Sound
<1>5. \A j \in Slots : j < t.num - 1 => j + 1 \in Slots
  BY <1>1 DEF Slots
<1>6. /\ wbp \in [Slots -> Breakpoint]
      /\ \A j \in Slots : Straight(wbp[j])
  BY <1>4, <1>5 DEF Tables
<1>7. \A j \in 0 .. t.num - 2 : wbp[j] = IF j >= i THEN d.bp[j + 1] ELSE d.bp[j]
  BY <1>1
<1> HIDE DEF wbp
<1>8. t.num - 1 \in 0 .. MaxBreakpoints
  BY <1>1, SizesAssumption
<1>9. Sound(w)
  BY <1>3, <1>4, <1>6, <1>8 DEF Sound, Tables
<1>10. ASSUME NEW k \in Kinds, NEW r \in Regions
       PROVE  Covered(w, k, r) <=> Covered(d, k, r)
  <2>1. Covered(w, k, r) <=> \E j \in 0 .. w.num - 1 : Watches(w.bp[j], k, r)
    BY <1>9, CoveredIsWatched
  <2>2. Covered(d, k, r) <=> \E j \in 0 .. d.num - 1 : Watches(d.bp[j], k, r)
    BY <1>2, CoveredIsWatched
  <2>3. ~ Watches(d.bp[i], k, r)
    BY <1>2 DEF Watches
  <2>4. ASSUME NEW j \in 0 .. t.num - 2, Watches(wbp[j], k, r)
        PROVE  \E l \in 0 .. t.num - 1 : Watches(d.bp[l], k, r)
    <3>1. j \in 0 .. t.num - 1 /\ j + 1 \in 0 .. t.num - 1
      BY <1>1
    <3> QED BY <1>7, <2>4, <3>1
  <2>5. ASSUME NEW l \in 0 .. t.num - 1, Watches(d.bp[l], k, r)
        PROVE  \E j \in 0 .. t.num - 2 : Watches(wbp[j], k, r)
    <3>1. CASE l < i
      <4>1. l \in 0 .. t.num - 2 /\ wbp[l] = d.bp[l]
        BY <1>1, <1>7, <3>1
      <4> QED BY <2>5, <4>1
    <3>2. CASE l > i
      <4>1. /\ l - 1 \in 0 .. t.num - 2 /\ l - 1 >= i /\ (l - 1) + 1 = l
        BY <1>1, <3>2
      <4>2. wbp[l - 1] = d.bp[l]
        BY <1>7, <4>1
      <4> QED BY <2>5, <4>1, <4>2
    <3>3. CASE l = i
      BY <2>3, <2>5, <3>3
    <3> QED BY <1>1, <3>1, <3>2, <3>3
  <2>6. w.num - 1 = t.num - 2
    BY <1>1, <1>3
  <2> QED BY <1>2, <1>3, <2>1, <2>2, <2>4, <2>5, <2>6
<1>11. Agree(w, m)
  BY <1>2, <1>3, <1>10 DEF Agree
<1> QED BY <1>9, <1>11 DEF w

-----------------------------------------------------------------------------
(* Mapping.                                                                *)

LEMMA MapRegionsKeeps ==
    ASSUME NEW t, Sound(t), NEW m \in Maps, Agree(t, m), NEW R,
           NEW h \in Maps, NEW n \in Maps,
           \A k \in Kinds, r \in Regions : n[k][r] = IF r \in R THEN h[k][r] ELSE m[k][r]
    PROVE  Sound(MapRegions(t, R, h)) /\ Agree(MapRegions(t, R, h), n)
<1> DEFINE w == MapRegions(t, R, h)
           wmem == [k \in Kinds |-> [r \in Regions |->
                      IF r \in R THEN IF Covered(t, k, r) THEN Checked ELSE h[k][r]
                                ELSE t.mem[k][r]]]
           wsaved == [k \in Kinds |-> [r \in Regions |->
                        IF r \in R /\ Covered(t, k, r)
                        THEN h[k][r] ELSE t.saved[k][r]]]
<1>1. /\ w = [bp |-> t.bp, num |-> t.num, mem |-> wmem, saved |-> wsaved]
      /\ w.bp = t.bp /\ w.num = t.num /\ w.mem = wmem /\ w.saved = wsaved
  BY DEF MapRegions
<1> HIDE DEF w
<1>2. \A k \in Kinds, r \in Regions :
         /\ Covered(t, k, r) => wmem[k][r] = Checked /\ wsaved[k][r] = n[k][r]
         /\ ~ Covered(t, k, r) => wmem[k][r] = n[k][r] /\ wsaved[k][r] = NULL
  BY DEF Agree
<1>3. \A k \in Kinds, r \in Regions : n[k][r] \in Handlers
  BY DEF Maps
<1>4. wmem \in [Kinds -> [Regions -> Handlers \cup {Checked}]]
  BY <1>2, <1>3
<1>5. wsaved \in [Kinds -> [Regions -> Handlers \cup {NULL}]]
  BY <1>2, <1>3
<1> HIDE DEF wmem, wsaved
<1>6. Sound(w)
  BY <1>1, <1>4, <1>5 DEF Sound, Tables
<1>7. \A k \in Kinds, r \in Regions : Covered(w, k, r) <=> Covered(t, k, r)
  BY <1>1 DEF Covered, Lookup, Matches
<1>8. Agree(w, n)
  BY <1>1, <1>2, <1>7 DEF Agree
<1> QED BY <1>6, <1>8 DEF w

\* init_memory needs no agreement to start from.
LEMMA MapMemoryAgrees ==
    ASSUME NEW t, Sound(t)
    PROVE  Sound(MapMemory(t)) /\ Agree(MapMemory(t), BaseMap)
<1> DEFINE u == [bp |-> t.bp, num |-> t.num, mem |-> t.mem, saved |-> NoneSaved]
           w == MapMemory(t)
           wmem == [k \in Kinds |-> [r \in Regions |->
                      IF Covered(u, k, r) THEN Checked ELSE BaseMap[k][r]]]
           wsaved == [k \in Kinds |-> [r \in Regions |->
                        IF Covered(u, k, r) THEN BaseMap[k][r] ELSE NULL]]
<1>1. /\ w = [bp |-> t.bp, num |-> t.num, mem |-> wmem, saved |-> wsaved]
      /\ w.bp = t.bp /\ w.num = t.num /\ w.mem = wmem /\ w.saved = wsaved
  BY DEF MapMemory, MapRegions, NoneSaved
<1>2. \A k \in Kinds, r \in Regions : BaseMap[k][r] \in Handlers
  BY HandlersAssumption
<1>3. /\ wmem \in [Kinds -> [Regions -> Handlers \cup {Checked}]]
      /\ wsaved \in [Kinds -> [Regions -> Handlers \cup {NULL}]]
  BY <1>2
<1>4. \A k \in Kinds, r \in Regions : Covered(w, k, r) <=> Covered(u, k, r)
  BY <1>1 DEF Covered, Lookup, Matches
<1>5. \A k \in Kinds, r \in Regions :
         IF Covered(u, k, r) THEN wmem[k][r] = Checked /\ wsaved[k][r] = BaseMap[k][r]
                             ELSE wmem[k][r] = BaseMap[k][r] /\ wsaved[k][r] = NULL
  OBVIOUS
<1> HIDE DEF w, wmem, wsaved
<1>6. Sound(w)
  BY <1>1, <1>3 DEF Sound, Tables
<1>7. Agree(w, BaseMap)
  BY <1>1, <1>4, <1>5 DEF Agree
<1> QED BY <1>6, <1>7 DEF w

LEMMA FbRegionsAreRdram ==
    ASSUME NEW fb \in [Infos -> Spans \cup {{}}], NEW r \in FbRegions(fb), NEW k \in Kinds
    PROVE  BaseMap[k][r] = Rdram
  BY SpansAssumption DEF FbRegions

LEMMA NoFbRegions == FbRegions(NoInfos) = {}
  BY SizesAssumption DEF FbRegions, NoInfos, Infos

-----------------------------------------------------------------------------
(* The invariant.                                                          *)

MemoryInv == MemoryTypeOK /\ Agree(tables, Meant)

LEMMA InitIInv == MemoryInit => MemoryInv
<1> SUFFICES ASSUME MemoryInit PROVE MemoryInv
  OBVIOUS
<1>1. 0 \in Regions /\ RegionSize \in Nat \ {0}
  BY SizesAssumption
<1>2. 0 \in GuestAddress
  <2>1. (0 \div RegionSize) * RegionSize <= 0 /\ 0 \div RegionSize \in Nat
    BY <1>1, Division
  <2>2. 0 \div RegionSize = 0
    BY <1>1, <2>1, Scaling
  <2> QED BY <1>1, <2>2 DEF GuestAddress
<1>3. \A k \in Kinds, r \in Regions : BaseMap[k][r] \in Handlers
  BY HandlersAssumption
<1>4. ZeroBreakpoint \in Breakpoint /\ ZeroBreakpoint.address <= ZeroBreakpoint.endaddr
  BY <1>2 DEF ZeroBreakpoint, Breakpoint
<1>5. tables \in Tables
  <2>1. BaseMap \in [Kinds -> [Regions -> Handlers \cup {Checked}]]
    BY HandlersAssumption
  <2>2. NoneSaved \in [Kinds -> [Regions -> Handlers \cup {NULL}]]
    BY DEF NoneSaved
  <2>3. 0 \in 0 .. MaxBreakpoints
    BY SizesAssumption
  <2> QED BY <1>4, <2>1, <2>2, <2>3 DEF MemoryInit, Tables
<1>6. \A k \in Kinds, r \in Regions : ~ Covered(tables, k, r)
  BY DEF MemoryInit, Covered, Lookup, Matches
<1>7. \A k \in Kinds, r \in Regions : Meant[k][r] = BaseMap[k][r]
  BY NoFbRegions DEF Meant, Mapped, MemoryInit
<1>8. tables.mem = BaseMap /\ tables.saved = NoneSaved
  BY DEF MemoryInit
<1>9. Agree(tables, Meant)
  BY <1>6, <1>7, <1>8 DEF Agree, NoneSaved
<1>10. infos \in [Infos -> Spans \cup {{}}]
  BY DEF MemoryInit, NoInfos
<1>11. /\ runstate \in RunStates
       /\ emulation \in {"run", "task", "callback", "call", "crashed"}
       /\ access \in Access \cup {NoAccess}
  BY DEF MemoryInit, RunStates
<1>12. \A i \in Slots : tables.bp[i] = ZeroBreakpoint
  BY DEF MemoryInit
<1> QED BY <1>4, <1>5, <1>9, <1>10, <1>11, <1>12 DEF MemoryInv, MemoryTypeOK

LEMMA InputsAreAddresses == /\ Starts \subseteq GuestAddress /\ Ends \subseteq GuestAddress
                            /\ \A b \in Breakpoints : Straight(b)
  BY BreakpointsAssumption DEF Starts, Ends, Straight, Breakpoint

LEMMA NextIInv == MemoryInv /\ [MemoryNext]_memoryVars => MemoryInv'
<1> SUFFICES ASSUME MemoryInv, [MemoryNext]_memoryVars PROVE MemoryInv'
  OBVIOUS
<1>1. Sound(tables) /\ MemoryTypeOK /\ Agree(tables, Meant)
  BY DEF MemoryInv, MemoryTypeOK, Sound, Straight, Tables
<1>2. Meant \in Maps
  BY HandlersAssumption DEF Meant, Mapped, Maps
<1>3. tables.num \in 0 .. MaxBreakpoints
  BY <1>1 DEF Sound, Tables
<1> DEFINE RestTypes ==
             /\ infos' \in [Infos -> Spans \cup {{}}]
             /\ runstate' \in RunStates
             /\ emulation' \in {"run", "task", "callback", "call", "crashed"}
             /\ access' \in Access \cup {NoAccess}
<1>4. ASSUME Sound(tables'), RestTypes, NEW m, Agree(tables', m),
             \A k \in Kinds, r \in Regions : Meant'[k][r] = m[k][r]
      PROVE  MemoryInv'
  <2>1. Agree(tables', Meant')
    BY <1>4 DEF Agree
  <2> QED BY <1>4, <2>1 DEF MemoryInv, MemoryTypeOK, Sound, Straight, Agree, Covered, Lookup, Matches
<1>5. ASSUME NEW t, Command(t), Sound(t), Agree(t, Meant) PROVE MemoryInv'
  <2>1. RestTypes
    BY <1>1, <1>5 DEF Command, FrontEnd, MemoryTypeOK
  <2>2. Meant' = Meant
    BY <1>5 DEF Command, FrontEnd, Meant
  <2> QED BY <1>4, <1>5, <2>1, <2>2 DEF Command
<1>6. ASSUME UNCHANGED <<tables, infos>>, RestTypes, emulation # "task", emulation' # "task"
      PROVE  MemoryInv'
  <2>1. Meant' = Meant
    BY <1>6 DEF Meant
  <2>2. tables' = tables
    BY <1>6
  <2> QED BY <1>1, <1>4, <1>6, <2>1, <2>2
<1>7. CASE InitMemory
  <2>1. RestTypes
    BY <1>1, <1>7 DEF InitMemory, MemoryTypeOK, NoInfos
  <2>2. \A k \in Kinds, r \in Regions : Meant'[k][r] = BaseMap[k][r]
    BY <1>7, NoFbRegions DEF InitMemory, Meant, Mapped
  <2>3. Sound(tables') /\ Agree(tables', BaseMap)
    BY <1>1, <1>7, MapMemoryAgrees DEF InitMemory
  <2> QED BY <1>4, <2>1, <2>2, <2>3
<1>8. CASE BeginTask
  <2>1. RestTypes
    BY <1>1, <1>8 DEF BeginTask, MemoryTypeOK
  <2>2. \A k \in Kinds, r \in Regions : Meant'[k][r] = BaseMap[k][r]
    BY <1>8, NoFbRegions DEF BeginTask, Meant, Mapped
  <2>3. Constantly(Rdram) \in Maps /\ BaseMap \in Maps
    BY HandlersAssumption DEF Constantly, Maps
  <2>4. \A k \in Kinds, r \in Regions :
           BaseMap[k][r] = IF r \in FbRegions(infos) THEN Constantly(Rdram)[k][r] ELSE Meant[k][r]
    BY <1>1, <1>8, FbRegionsAreRdram DEF BeginTask, MemoryTypeOK, Meant, Mapped, Constantly
  <2>5. Sound(tables') /\ Agree(tables', BaseMap)
    BY <1>1, <1>2, <1>8, <2>3, <2>4, MapRegionsKeeps DEF BeginTask
  <2> QED BY <1>4, <2>1, <2>2, <2>5
<1>9. CASE EndTask
  <2>1. PICK fb \in [Infos -> Spans \cup {{}}] :
           /\ infos' = fb
           /\ tables' = MapRegions(tables, FbRegions(fb), Constantly(RdramFB))
    BY <1>9 DEF EndTask
  <2>2. RestTypes
    BY <1>1, <1>9, <2>1 DEF EndTask, MemoryTypeOK
  <2> DEFINE n == [k \in Kinds |-> [r \in Regions |-> Mapped(fb, k, r)]]
  <2>3. \A k \in Kinds, r \in Regions : Meant'[k][r] = n[k][r]
    BY <1>9, <2>1 DEF EndTask, Meant, Mapped
  <2>4. Constantly(RdramFB) \in Maps /\ n \in Maps
    BY HandlersAssumption DEF Constantly, Maps, Mapped
  <2>5. \A k \in Kinds, r \in Regions :
           n[k][r] = IF r \in FbRegions(fb) THEN Constantly(RdramFB)[k][r] ELSE Meant[k][r]
    BY <1>9, NoFbRegions DEF EndTask, Meant, Mapped, Constantly
  <2> HIDE DEF n
  <2>6. Sound(tables') /\ Agree(tables', n)
    BY <1>1, <1>2, <2>1, <2>4, <2>5, MapRegionsKeeps
  <2> QED BY <1>4, <2>2, <2>3, <2>6
<1>10. CASE \E a \in Starts : Execute(a)
  <2>1. RestTypes
    BY <1>1, <1>10 DEF Execute, Update, MemoryTypeOK, RunStates
  <2> QED BY <1>6, <1>10, <2>1 DEF Execute, Update
<1>11. CASE \E k \in Kinds, a \in Ends, s \in Sizes : a % s = 0 /\ MemoryAccess(k, a, s)
  <2>1. PICK k \in Kinds, a \in Ends, s \in Sizes : MemoryAccess(k, a, s)
    BY <1>11
  <2>2. [kind |-> k, address |-> a] \in Access
    BY InputsAreAddresses DEF Access
  <2>3. RestTypes
    BY <1>1, <2>1, <2>2 DEF MemoryAccess, Update, MemoryTypeOK, RunStates
  <2> QED BY <1>6, <2>1, <2>3 DEF MemoryAccess, Update
<1>12. CASE CallbackReturns \/ CallSaved \/ Crashed
  <2>1. RestTypes
    BY <1>1, <1>12 DEF CallbackReturns, CallSaved, Crashed, MemoryTypeOK, memoryVars
  <2> QED BY <1>6, <1>12, <2>1 DEF CallbackReturns, CallSaved, Crashed, memoryVars
<1>13. CASE \E a \in Starts : AddBreakpoint(a)
  BY <1>1, <1>2, <1>3, <1>5, <1>13, InputsAreAddresses, AddAddressKeeps DEF AddBreakpoint
<1>14. ASSUME NEW i \in Live, RemoveBreakpoint(i) PROVE MemoryInv'
  BY <1>1, <1>2, <1>5, <1>14, RemoveKeeps DEF RemoveBreakpoint, Live
<1>15. CASE \E a \in Starts : RemoveBreakpointAt(a)
  BY <1>14, <1>15 DEF RemoveBreakpointAt, Matches, Live
<1>16. CASE \E b \in Breakpoints : AddBreakpointStruct(b)
  BY <1>1, <1>2, <1>3, <1>5, <1>16, InputsAreAddresses, AddStructKeeps
     DEF AddBreakpointStruct
<1>17. CASE \E b \in Breakpoints, i \in Live : ReplaceBreakpoint(i, b)
  BY <1>1, <1>2, <1>5, <1>17, InputsAreAddresses, ReplaceKeeps
     DEF ReplaceBreakpoint, Live
<1>18. CASE \E i \in Live : EnableBreakpoint(i)
  BY <1>1, <1>2, <1>5, <1>18, EnableLive DEF EnableBreakpoint, Live
<1>19. CASE \E i \in Live : DisableBreakpoint(i)
  BY <1>1, <1>2, <1>5, <1>19, DisableKeeps DEF DisableBreakpoint, Live
<1>20. CASE \E s \in RunStates : SetRunState(s)
  <2>1. RestTypes
    BY <1>1, <1>20 DEF SetRunState, FrontEnd, MemoryTypeOK
  <2>2. Meant' = Meant /\ tables' = tables
    BY <1>20 DEF SetRunState, FrontEnd, Meant
  <2> QED BY <1>1, <1>4, <2>1, <2>2
<1>21. CASE UNCHANGED memoryVars
  <2>1. RestTypes
    BY <1>1, <1>21 DEF memoryVars, MemoryTypeOK
  <2>2. Meant' = Meant /\ tables' = tables
    BY <1>21 DEF memoryVars, Meant
  <2> QED BY <1>1, <1>4, <2>1, <2>2
<1> QED
  BY <1>7, <1>8, <1>9, <1>10, <1>11, <1>12, <1>13, <1>14, <1>15, <1>16, <1>17,
     <1>18, <1>19, <1>20, <1>21 DEF MemoryNext

THEOREM IInvHolds == MemorySpec => []MemoryInv
  BY InitIInv, NextIInv, PTL DEF MemorySpec

\* The types of the tables, the breakpoints and the threads' state.
THEOREM TypeCorrect == MemorySpec => []MemoryTypeOK
<1>1. MemoryInv => MemoryTypeOK
  BY DEF MemoryInv
<1> QED BY IInvHolds, <1>1, PTL

\* No watched access escapes the debugger, and no region stays checked after
\* its last enabled breakpoint, for any number of regions and breakpoints.
THEOREM WatchedAreChecked == MemorySpec => []WatchedRegionsChecked
<1>1. MemoryInv => WatchedRegionsChecked
  <2> SUFFICES ASSUME MemoryInv, NEW k \in Kinds, NEW r \in Regions
               PROVE  tables.mem[k][r] = Checked <=> Covered(tables, k, r)
    BY DEF WatchedRegionsChecked
  <2>1. Meant[k][r] \in Handlers
    BY HandlersAssumption DEF Meant, Mapped
  <2> QED BY <2>1, HandlersAssumption DEF MemoryInv, Agree
<1> QED BY IInvHolds, <1>1, PTL

\* Behind the breakpoints the map is the machine's, and no displaced handler
\* is left over.
THEOREM HandlersAreKept == MemorySpec => []HandlersKept
<1>1. MemoryInv => HandlersKept
  <2> SUFFICES ASSUME MemoryInv, NEW k \in Kinds, NEW r \in Regions
               PROVE  LET mm == tables.mem[k][r]
                          s == tables.saved[k][r]
                      IN  /\ (IF mm = Checked THEN s ELSE mm) = Meant[k][r]
                          /\ mm # Checked => s = NULL
    BY DEF HandlersKept, Meant
  <2>1. Meant[k][r] \in Handlers
    BY HandlersAssumption DEF Meant, Mapped
  <2> QED BY <2>1, HandlersAssumption DEF MemoryInv, Agree
<1> QED BY IInvHolds, <1>1, PTL
=============================================================================
