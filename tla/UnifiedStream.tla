--------------------------- MODULE UnifiedStream ---------------------------
(***************************************************************************)
(* A stream that unites others by base address: IO/UnifiedStream.cs with   *)
(* its look-up table (_StreamLUT.cs), the interpreter of transfers         *)
(* (_StreamIOInterpreter.cs) and the compiler that keeps the transfers it  *)
(* has translated (_StreamIOCompiler.cs).  The virtual memory of the CPU   *)
(* and the parallel interface compile; the safe stream of the RCP bus      *)
(* interprets.                                                             *)
(*                                                                         *)
(* A transfer is the sequence of pieces it asks the streams for: which     *)
(* stream, from which position, to which place of the buffer, how many     *)
(* bytes.  A stream is asked for all of them, also for those past its end: *)
(* what comes of that differs between the streams, most of which throw.    *)
(* Reads and writes are alike in all of this, and every caller passes the  *)
(* buffer offset 0, so an address and a count make a request.  Code is     *)
(* kept by a hash of the two, which different requests may share.          *)
(***************************************************************************)
EXTENDS Integers, Sequences, FiniteSets, SequencesExt, Functions

CONSTANTS Streams,      \* the streams that may be added
          Base, Size,   \* the address a stream is added at, and its Length
          Writable,     \* the streams that say CanWrite
          Requests,     \* the transfers asked for: [addr, count]
          HashOf,       \* GenerateHash of each of them
          CACHE_MAX     \* 450 in the program

ASSUME UnifiedAssumption ==
    /\ IsFiniteSet(Streams)
    /\ Base \in [Streams -> Nat] /\ IsInjective(Base)
    /\ Size \in [Streams -> Nat \ {0}]
    /\ Writable \subseteq Streams
    /\ Requests \subseteq [addr : Nat, count : Nat \ {0}]
    /\ HashOf \in [Requests -> Int]
    /\ CACHE_MAX \in Nat

VARIABLES
    m_MemZones,           \* the streams of the look-up table
    m_CompiledOperations, \* code by hash
    m_StreamReferences,   \* what the code names streams by
    m_CacheCount,
    compiledIn            \* history: the circumstances code was compiled in

streamVars == <<m_MemZones, m_CompiledOperations, m_StreamReferences, m_CacheCount,
          compiledIn>>

Empty == [key \in {} |-> <<>>]

StreamInit ==
    /\ m_MemZones = {}
    /\ m_CompiledOperations = Empty /\ m_StreamReferences = <<>>
    /\ m_CacheCount = 0 /\ compiledIn = Empty

-----------------------------------------------------------------------------
(* The look-up table and the interpreter *)

End(s) == Base[s] + Size[s]

Holds(s, a) == a \in Base[s] .. End(s) - 1

\* The table is sorted by address.
InOrder ==
    CHOOSE q \in [1 .. Cardinality(Streams) -> Streams] :
        \A i, j \in DOMAIN q : i < j => Base[q[i]] < Base[q[j]]

\* One zone of the loop in QueryZoneTouches: zones are taken once the one
\* that holds the first byte was met.
TouchZone(req, found, s) ==
    LET later == found.hit /\ Base[s] < req.addr + req.count
        first == Holds(s, req.addr)
    IN  [hit |-> found.hit \/ first,
         list |-> found.list \o (IF later THEN <<s>> ELSE <<>>)
                             \o (IF first THEN <<s>> ELSE <<>>)]

\* The loop, after each of the streams; those not added are no zones.
Touched(zones, req) ==
    LET found[i \in 0 .. Cardinality(Streams)] ==
            IF i = 0 THEN [hit |-> FALSE, list |-> <<>>]
            ELSE IF InOrder[i] \in zones
                 THEN TouchZone(req, found[i - 1], InOrder[i])
                 ELSE found[i - 1]
    IN  found

QueryZoneTouches(zones, req) == Touched(zones, req)[Cardinality(Streams)].list

\* Faulty variant: a stream that ends with the request counts as inside it.
CheckInReadZone_Touching(req, s) ==
    Base[s] >= req.addr /\ Base[s] <= req.addr + req.count

CheckInReadZone(req, s) ==
    Base[s] >= req.addr /\ End(s) < req.addr + req.count

\* The piece of s, the i-th stream used of a list of n.
Piece(req, s, i, n) ==
    LET whole  == CheckInReadZone(req, s)
        buffer == IF i = 1 THEN 0 ELSE Base[s] - req.addr
    IN  [stream |-> s,
         position |-> IF i = 1 /\ ~whole THEN req.addr - Base[s] ELSE 0,
         buffer |-> buffer,
         count |-> IF whole \/ i \notin {1, n} THEN Size[s]
                                               ELSE req.count - buffer]

\* RunOperation after each entry of the list.  Streams that cannot be written
\* are skipped, on reads too, and do not count.
Moved(req, list) ==
    LET moved[i \in 0 .. Len(list)] ==
            IF i = 0 THEN <<>>
            ELSE IF list[i] \in Writable
                 THEN Append(moved[i - 1],
                             Piece(req, list[i], Len(moved[i - 1]) + 1, Len(list)))
                 ELSE moved[i - 1]
    IN  moved

RunOperation(req, list) == Moved(req, list)[Len(list)]

\* What the safe stream moves, which switches the compiler off.
Interpreted(req) == RunOperation(req, QueryZoneTouches(m_MemZones, req))

-----------------------------------------------------------------------------
(* The compiler *)

\* The search for a known stream leaves out the last reference and yields the
\* first one when nothing is found.
ResolveStreamReference(refs, s) ==
    LET earlier == {i \in 1 .. Len(refs) - 1 : refs[i] = s}
    IN  IF s \in ToSet(refs)
        THEN [refs |-> refs,
              index |-> IF earlier = {} THEN 1 ELSE CHOOSE i \in earlier : TRUE]
        ELSE [refs |-> Append(refs, s), index |-> Len(refs) + 1]

\* Faulty variant: the position of the stream is not emitted.
RunEmitter_Unplaced(acc, piece) ==
    LET ref == ResolveStreamReference(acc.refs, piece.stream)
    IN  [refs |-> ref.refs,
         code |-> Append(acc.code,
                    [ref |-> ref.index, position |-> 0,
                     buffer |-> piece.buffer, count |-> piece.count])]

\* RunEmitter for one piece.
RunEmitter(acc, piece) ==
    LET ref == ResolveStreamReference(acc.refs, piece.stream)
    IN  [refs |-> ref.refs,
         code |-> Append(acc.code,
                    [ref |-> ref.index, position |-> piece.position,
                     buffer |-> piece.buffer, count |-> piece.count])]

\* The emitter after each of the pieces.
Emitted(refs, pieces) ==
    LET emitted[i \in 0 .. Len(pieces)] ==
            IF i = 0 THEN [refs |-> refs, code |-> <<>>]
                     ELSE RunEmitter(emitted[i - 1], pieces[i])
    IN  emitted

Compile(refs, pieces) == Emitted(refs, pieces)[Len(pieces)]

\* What the kept code of a hash asks for: GeStream looks the references up.
Executed(key) ==
    LET code == m_CompiledOperations[key]
    IN  [i \in DOMAIN code |->
            [stream |-> m_StreamReferences[code[i].ref],
             position |-> code[i].position,
             buffer |-> code[i].buffer, count |-> code[i].count]]

ClearCache ==
    /\ m_CompiledOperations' = Empty /\ m_StreamReferences' = <<>>
    /\ m_CacheCount' = 0 /\ compiledIn' = Empty

-----------------------------------------------------------------------------
(* Operations *)

CacheFull_Late == m_CacheCount > CACHE_MAX + 1   \* faulty variant

CacheFull == m_CacheCount > CACHE_MAX

\* A dictionary with one more entry.
Keep(dictionary, key, value) ==
    [k \in DOMAIN dictionary \cup {key} |-> IF k = key THEN value ELSE dictionary[k]]

\* ExecuteOperation for a request without code, with the query, the code and
\* the references the caller has: compile and keep.
CompileAndKeep(req, list, ops, refs, n, history) ==
    LET c == Compile(refs, RunOperation(req, list))
        key == HashOf[req]
    IN  /\ m_CompiledOperations' = Keep(ops, key, c.code)
        /\ m_StreamReferences' = c.refs
        /\ m_CacheCount' = n + 1
        /\ compiledIn' = Keep(history, key, [request |-> req, zones |-> m_MemZones,
                                            found |-> list])

\* ContainsOperation.
ContainsOperation(req) == HashOf[req] \in DOMAIN m_CompiledOperations

\* Read and Write with the compiler: a request whose code is known gets an
\* empty query, and only then is a full cache cleared.  What the transfer
\* asks for is Executed(HashOf[req]) afterwards.
CompiledTransfer(req) ==
    LET known == ContainsOperation(req)
        list  == IF known THEN <<>> ELSE QueryZoneTouches(m_MemZones, req)
    IN  /\ CacheFull \/ ~known
        /\ IF CacheFull
           THEN CompileAndKeep(req, list, Empty, <<>>, 0, Empty)
           ELSE CompileAndKeep(req, list, m_CompiledOperations,
                               m_StreamReferences, m_CacheCount, compiledIn)
        /\ UNCHANGED m_MemZones

\* Add refuses a stream that begins inside another one.
Add(s) ==
    /\ s \notin m_MemZones
    /\ ~\E t \in m_MemZones : Holds(t, Base[s])
    /\ m_MemZones' = m_MemZones \cup {s}
    /\ UNCHANGED <<m_CompiledOperations, m_StreamReferences, m_CacheCount, compiledIn>>

\* Faulty variant: the table forgets a stream and the compiler does not.
RemoveStream_KeepsCode(s) ==
    /\ m_MemZones' = m_MemZones \ {s}
    /\ UNCHANGED <<m_CompiledOperations, m_StreamReferences, m_CacheCount, compiledIn>>

RemoveStream(s) ==
    /\ m_MemZones' = m_MemZones \ {s}
    /\ ClearCache

Clear ==
    /\ m_MemZones' = {}
    /\ ClearCache

StreamNext ==
    \/ \E req \in Requests : CompiledTransfer(req)
    \/ \E s \in Streams : Add(s) \/ RemoveStream(s)
    \/ Clear

StreamSpec == StreamInit /\ [][StreamNext]_streamVars

-----------------------------------------------------------------------------
(* Properties *)

\* Types; the code names streams by references that exist, so GeStream never
\* fails.
StreamTypeOK ==
    /\ m_MemZones \subseteq Streams
    /\ m_StreamReferences \in Seq(Streams)
    /\ m_CacheCount \in Nat
    /\ DOMAIN m_CompiledOperations \subseteq Range(HashOf)
    /\ DOMAIN compiledIn = DOMAIN m_CompiledOperations
    /\ \A key \in DOMAIN m_CompiledOperations :
           \A i \in DOMAIN m_CompiledOperations[key] :
               m_CompiledOperations[key][i].ref \in DOMAIN m_StreamReferences

\* Kept code moves nothing to or from a stream that was taken out: clearing
\* drops the code and the references it names together with the stream.
CodeResolves ==
    \A key \in DOMAIN m_CompiledOperations :
        \A p \in ToSet(Executed(key)) : p.stream \in m_MemZones

\* The compiler counts the transfers it keeps, and keeps at most one more than
\* the bound, whatever is cleared in between.
CacheBounded ==
    /\ m_CacheCount = Cardinality(DOMAIN m_CompiledOperations)
    /\ m_CacheCount <= CACHE_MAX + 1

\* The bytes a transfer asks for.
Bytes(pieces) ==
    UNION { { [buffer |-> p.buffer + k, stream |-> p.stream, position |-> p.position + k] :
                k \in 0 .. p.count - 1 } :
            p \in ToSet(pieces) }

\* The transfer of a flat memory: every byte at its address.
Flat(req) ==
    UNION { { [buffer |-> k, stream |-> s, position |-> req.addr + k - Base[s]] :
                k \in {j \in 0 .. req.count - 1 : Holds(s, req.addr + j)} } :
            s \in m_MemZones }

Apart == \A s, t \in m_MemZones : s # t => ~Holds(s, Base[t])

\* A transfer that begins inside s and goes on behind it: the first piece is
\* not cut at the end of the stream.
LeavesMidway(req, s) == Base[s] < req.addr /\ End(s) < req.addr + req.count

\* Over writable streams that keep apart, the interpreted transfer asks for
\* exactly the bytes of a flat memory, across streams and gaps and never past
\* the end of a stream, once its first byte is mapped; but for transfers that
\* leave the stream they begin in the middle of.
InterpretedIsFlat ==
    (Apart /\ m_MemZones \subseteq Writable) =>
        \A req \in Requests :
            (\E s \in m_MemZones : Holds(s, req.addr) /\ ~LeavesMidway(req, s)) =>
                Bytes(Interpreted(req)) = Flat(req)

\* Kept code asks for what the interpreter would, but for four reasons: it was
\* compiled for another request of the same hash, it is from before a stream
\* was added, it was compiled from the empty query of a request whose code the
\* full cache had just lost, or it names the first reference for the stream
\* referenced last.
DivergenceExplained ==
    \A req \in Requests : ContainsOperation(req) =>
        LET origin == compiledIn[HashOf[req]]
            due == Interpreted(req)
            got == Executed(HashOf[req])
        IN  \/ origin.request # req
            \/ origin.zones # m_MemZones
            \/ origin.found = <<>>
            \/ /\ DOMAIN got = DOMAIN due
               /\ \A i \in DOMAIN got :
                     \/ got[i] = due[i]
                     \/ got[i] = [due[i] EXCEPT !.stream = m_StreamReferences[1]]

\* _StreamIOCompiler.cs:91: "Compile the whole operation into a method using
\* the interpreter engine": the code kept for a request asks for what the
\* interpreter would, as long as the table is the one it was compiled for.
CompiledAsInterpreted ==
    \A key \in DOMAIN m_CompiledOperations :
        compiledIn[key].zones = m_MemZones
            => Executed(key) = Interpreted(compiledIn[key].request)
=============================================================================
